---------------------------- MODULE BillingProofs ----------------------------
(***************************************************************************)
(* Theorems about Billing, for any number of requests, workers, cards and    *)
(* idempotency keys, and any amounts.                                        *)
(*                                                                          *)
(* The invariant says of a key that it has one refund at most and that the    *)
(* operation in the database covers it (KeyOK), of a request what it carries   *)
(* from one step to the next (RequestOK), and of the cards that the rows       *)
(* agree with Stripe or that a worker is about to make them agree             *)
(* (FollowsInv).  A request that loses the insertion of the operation keeps     *)
(* the amount it computed; what it can still refund is covered because the      *)
(* amount refunded only grows.                                              *)
(***************************************************************************)
EXTENDS Billing, TLAPS

RefundList == {<<>>} \cup {<<a>> : a \in Amounts \ {0}}

\* The operation and the refund of a key.
KeyOK(k) ==
    LET o == operation[k]
    IN  /\ refund[k] \in RefundList
        /\ o.refund \in {0, 1}
        /\ o.refund = 1 => refund[k] # <<>>
        /\ refund[k] # <<>> => o.exists /\ refund[k][1] <= o.requested
        /\ ~o.exists => o.requested = 0 /\ o.refund = 0
        /\ o.exists => /\ o.requested >= 1 /\ o.requested <= RefundLimit
                       /\ o.input = 1 => o.requested = 1
                       /\ o.input = 0 => Received - refunded <= o.requested

\* What a request carries from one step to the next.
RequestOK(r) ==
    LET q == request[r]
        o == operation[q.key]
    IN  /\ q.step \in {"target", "record", "stripeRefund", "fail", "complete"} => q.key \in Keys
        /\ q.step = "target" /\ q.amount # 0 =>
              o.exists /\ o.input = q.input /\ q.amount = o.requested
        /\ q.step = "record" =>
              /\ q.amount \in Amounts /\ q.amount >= 1 /\ q.amount <= RefundLimit
              /\ q.input = 1 => q.amount = 1
              /\ q.input = 0 => Received - refunded <= q.amount
        /\ q.step = "stripeRefund" =>
              /\ o.exists /\ o.input = q.input
              /\ q.amount \in Amounts /\ q.amount >= 1
              /\ q.input = 1 => q.amount = 1
        /\ q.step = "complete" => q.id = 1 /\ refund[q.key] # <<>>
        /\ q.step = "saveCustomer" => q.id = 1
        /\ q.step \in {"stripeDefault", "clearDefault", "setDefault", "countCards",
                       "stripeDetach", "markDetached"} => q.card \in Cards

\* Stripe has told of the default, and a worker has still to project it.
Told == \/ <<"customer", NoCard>> \in event
        \/ \E h \in Handlers : handler[h].event = <<"customer", NoCard>>

FollowsInv == superseded \/ Told \/ Defaults = {preferred} \cap Saved

\* The four parts of the invariant.
PlainOK ==
    /\ customer \in {0, 1} /\ customers \in Nat
    /\ subscription \in Status
    /\ plan \in [status: Status, ending: BOOLEAN] /\ checkout \in BOOLEAN
    /\ erasure \in [step: {"none", "requested", "cancel", "done"}, customer: BOOLEAN]
    /\ calls \in Nat /\ changes \in 0..MaxChanges /\ faults \in 0..MaxFaults
    /\ topic \in {"refunds", "cards", "subscription"} /\ late \in BOOLEAN

CardsOK ==
    /\ card \in [Cards -> Card]
    /\ attached \subseteq Cards /\ preferred \in attached \cup {NoCard}
    /\ event \subseteq Events
    /\ handler \in [Handlers -> Handler]
    /\ superseded \in BOOLEAN
    /\ DefaultIsSaved
    /\ FollowsInv

RefundsOK ==
    /\ operation \in [Keys -> Operation]
    /\ refund \in [Keys -> RefundList]
    /\ refunded \in Amounts
    /\ \A k \in Keys : KeyOK(k)

RequestsOK ==
    /\ request \in [Requests -> Request]
    /\ \A r \in Requests : RequestOK(r)

MoneyInv == PlainOK /\ CardsOK /\ RefundsOK /\ RequestsOK

-----------------------------------------------------------------------------
(* What a step leaves alone.                                                *)

\* Operations and refunds only grow.
RefundsGrow ==
    /\ refunded <= refunded'
    /\ \A k \in Keys :
          /\ operation[k].exists => /\ operation'[k].exists
                                    /\ operation'[k].input = operation[k].input
                                    /\ operation'[k].requested = operation[k].requested
          /\ refund[k] # <<>> => refund'[k] # <<>>

\* The plain columns stay.
LEMMA PlainStays ==
    ASSUME MoneyInv, UNCHANGED <<customer, customers, subscription, plan, checkout, erasure>>,
           UNCHANGED bounds, late' = late
    PROVE  PlainOK'
BY DEF MoneyInv, PlainOK, bounds

\* The cards stay, and no news of them is lost.
LEMMA CardsStay ==
    ASSUME MoneyInv, UNCHANGED <<card, attached, preferred, event, handler, superseded>>
    PROVE  CardsOK'
<1>1. CardsOK
  BY DEF MoneyInv
<1> QED
  BY <1>1 DEF CardsOK, DefaultIsSaved, FollowsInv, Told, Defaults, Saved

\* The refunds stay.
LEMMA RefundsStay ==
    ASSUME MoneyInv, UNCHANGED <<operation, refund, refunded>>
    PROVE  RefundsOK' /\ RefundsGrow
<1>1. RefundsOK
  BY DEF MoneyInv
<1>2. refunded \in Nat
  BY <1>1, BillingAssumption DEF RefundsOK, Amounts
<1> QED
  BY <1>1, <1>2 DEF RefundsOK, KeyOK, RefundsGrow

\* A request that does not move carries the same.
LEMMA OthersOK ==
    ASSUME MoneyInv, RefundsGrow, refunded' \in Amounts, NEW q \in Requests,
           request'[q] = request[q]
    PROVE  RequestOK(q)'
<1>1. RequestOK(q) /\ request[q] \in Request /\ refunded \in Amounts
  BY DEF MoneyInv, RequestsOK, RefundsOK
<1>2. refunded \in Nat /\ refunded' \in Nat /\ Received \in Nat /\ refunded <= refunded'
  BY <1>1, BillingAssumption DEF Amounts, RefundsGrow
<1>3. request[q].amount \in Nat
  BY <1>1 DEF Request
<1>4. Received - refunded <= request[q].amount => Received - refunded' <= request[q].amount
  BY <1>2, <1>3
<1> QED
  BY <1>1, <1>4 DEF RequestOK, RefundsGrow

\* One request moves.
LEMMA ActorMoves ==
    ASSUME MoneyInv, RefundsGrow, refunded' \in Amounts, NEW r \in Requests, NEW v \in Request,
           request' = [request EXCEPT ![r] = v], request'[r] = v => RequestOK(r)'
    PROVE  RequestsOK'
<1>1. request \in [Requests -> Request]
  BY DEF MoneyInv, RequestsOK
<1>2. /\ request' \in [Requests -> Request] /\ request'[r] = v
      /\ \A q \in Requests \ {r} : request'[q] = request[q]
  BY <1>1
<1>3. \A q \in Requests : RequestOK(q)'
  BY <1>2, OthersOK
<1> QED
  BY <1>2, <1>3 DEF RequestsOK

\* A request ends.
LEMMA EndMoves ==
    ASSUME MoneyInv, RefundsGrow, refunded' \in Amounts, NEW r \in Requests, End(r)
    PROVE  RequestsOK'
<1>1. Idle \in Request /\ Idle.step = "idle"
  BY DEF Idle, Request, Inputs
<1>2. request' = [request EXCEPT ![r] = Idle]
  BY DEF End
<1>3. request'[r] = Idle => RequestOK(r)'
  BY <1>1 DEF RequestOK
<1> QED
  BY <1>1, <1>2, <1>3, ActorMoves

\* A request goes on with what it carries.
LEMMA GotoMoves ==
    ASSUME MoneyInv, RefundsGrow, refunded' \in Amounts, NEW r \in Requests, NEW s, Goto(r, s),
           s \in {"createCustomer", "setup", "checkout", "stripeRefund", "fail", "clearDefault",
                  "stripeDetach", "markDetached"},
           s = "fail" => request[r].key \in Keys,
           s = "stripeRefund" => /\ request[r].key \in Keys
                                 /\ operation'[request[r].key].exists
                                 /\ operation'[request[r].key].input = request[r].input
                                 /\ request[r].amount \in Amounts /\ request[r].amount >= 1
                                 /\ request[r].input = 1 => request[r].amount = 1,
           s \in {"clearDefault", "stripeDetach", "markDetached"} => request[r].card \in Cards
    PROVE  RequestsOK'
<1> DEFINE v == [request[r] EXCEPT !.step = s]
<1>1. request \in [Requests -> Request]
  BY DEF MoneyInv, RequestsOK
<1>2. request' = [request EXCEPT ![r] = v]
  BY <1>1 DEF Goto
<1>3. /\ v \in Request /\ v.step = s /\ v.key = request[r].key /\ v.input = request[r].input
      /\ v.amount = request[r].amount /\ v.id = request[r].id /\ v.card = request[r].card
  BY <1>1 DEF Request
<1> HIDE DEF v
<1>4. request'[r] = v => RequestOK(r)'
  BY <1>3 DEF RequestOK
<1> QED
  BY <1>2, <1>3, <1>4, ActorMoves

\* A request arrives.
LEMMA CallMoves ==
    ASSUME MoneyInv, NEW r \in Requests, NEW v \in Request, Call(r, v),
           v.step \in {"createCustomer", "setup", "checkout", "target", "stripeDefault",
                       "countCards", "update", "erase"},
           v.step \in {"stripeDefault", "countCards"} => v.card \in Cards,
           v.step = "target" => /\ v.key \in Keys
                                /\ v.amount # 0 => /\ operation[v.key].exists
                                                   /\ operation[v.key].input = v.input
                                                   /\ v.amount = operation[v.key].requested
    PROVE  MoneyInv'
<1> DEFINE w == [v EXCEPT !.list = {}]
<1>1. /\ request' = [request EXCEPT ![r] = w] /\ calls' = calls + 1
      /\ UNCHANGED <<customer, operation, card, subscription, customers, refund, refunded,
                     attached, preferred, plan, checkout, event, handler, erasure, topic,
                     changes, faults, superseded, late>>
  BY DEF Call, tables, stripe, history
<1>2. /\ w \in Request /\ w.step = v.step /\ w.key = v.key /\ w.amount = v.amount
      /\ w.input = v.input /\ w.card = v.card
  BY DEF Request
<1> HIDE DEF w
<1>3. RefundsOK' /\ RefundsGrow /\ refunded' \in Amounts
  BY <1>1, RefundsStay DEF RefundsOK
<1>4. request'[r] = w => RequestOK(r)'
  BY <1>1, <1>2 DEF RequestOK
<1>5. RequestsOK'
  BY <1>1, <1>2, <1>3, <1>4, ActorMoves
<1>6. CardsOK'
  BY <1>1, CardsStay
<1>7. PlainOK'
  BY <1>1 DEF MoneyInv, PlainOK
<1> QED
  BY <1>3, <1>5, <1>6, <1>7 DEF MoneyInv

-----------------------------------------------------------------------------
(* Refunds.                                                                 *)

\* The numbers of refunds.
LEMMA Numbers ==
    ASSUME MoneyInv
    PROVE  /\ Received \in Nat /\ RefundLimit \in Nat /\ refunded \in Nat /\ refunded <= Received
           /\ Amounts = 0..Received
           /\ \A k \in Keys : operation[k] \in Operation /\ KeyOK(k) /\ operation[k].requested \in Nat
           /\ \A r \in Requests : request[r] \in Request /\ RequestOK(r) /\ request[r].amount \in Nat
<1>1. /\ Received \in Nat /\ RefundLimit \in Nat /\ refunded \in 0..Received
      /\ Amounts = 0..Received
  BY BillingAssumption DEF MoneyInv, RefundsOK, Amounts
<1>2. ASSUME NEW k \in Keys
      PROVE  operation[k] \in Operation /\ KeyOK(k) /\ operation[k].requested \in Nat
  BY <1>1 DEF MoneyInv, RefundsOK, Operation
<1>3. ASSUME NEW r \in Requests
      PROVE  request[r] \in Request /\ RequestOK(r) /\ request[r].amount \in Nat
  BY DEF MoneyInv, RequestsOK, Request
<1> QED
  BY <1>1, <1>2, <1>3

\* A step of a refund that leaves everything else alone.
RestStays ==
    /\ UNCHANGED <<customer, customers, subscription, plan, checkout, erasure>>
    /\ UNCHANGED <<card, attached, preferred, event, handler>>
    /\ UNCHANGED history

\* Then it is enough to look at the refunds and the requests.
LEMMA RefundSide ==
    ASSUME MoneyInv, RestStays, UNCHANGED bounds \/ Spend, RefundsOK', RequestsOK'
    PROVE  MoneyInv'
<1>1. CardsOK'
  BY CardsStay DEF RestStays, history
<1>2. PlainOK'
  <2>1. CASE UNCHANGED bounds
    BY <2>1, PlainStays DEF RestStays, history
  <2>2. CASE Spend
    <3>1. faults' \in 0..MaxFaults /\ UNCHANGED <<topic, calls, changes>>
      BY <2>2, BillingAssumption DEF Spend, MoneyInv, PlainOK
    <3> QED
      BY <3>1 DEF MoneyInv, PlainOK, RestStays, history
  <2> QED
    BY <2>1, <2>2
<1> QED
  BY <1>1, <1>2 DEF MoneyInv

\* The call, and the amount the policy grants.
LEMMA TargetKeeps ==
    ASSUME MoneyInv, NEW r \in Requests
    PROVE  /\ \A k \in Keys, input \in Inputs : CreateRefund(r, k, input) => MoneyInv'
           /\ RetrieveTarget(r) => MoneyInv'
<1>1. ASSUME NEW k \in Keys, NEW input \in Inputs, CreateRefund(r, k, input)
      PROVE  MoneyInv'
  <2> DEFINE v == [Idle EXCEPT !.step = "target", !.key = k, !.input = input,
                               !.amount = operation[k].requested]
  <2>1. operation[k].requested \in Nat /\ KeyOK(k)
    BY Numbers
  <2>2. /\ v \in Request /\ v.step = "target" /\ v.key = k /\ v.input = input
        /\ v.amount = operation[k].requested
    BY <2>1 DEF Idle, Request
  <2> HIDE DEF v
  <2>3. Call(r, v)
    BY <1>1 DEF CreateRefund, v
  <2>4. v.amount # 0 => operation[k].exists /\ operation[k].input = input
    BY <1>1, <2>1, <2>2 DEF CreateRefund, Resumes, KeyOK
  <2> QED
    BY <2>2, <2>3, <2>4, CallMoves
<1>2. ASSUME RetrieveTarget(r) PROVE MoneyInv'
  <2> DEFINE input == request[r].input
  <2>1. /\ request[r].step = "target" /\ UNCHANGED <<operation, refund, refunded>>
        /\ RestStays /\ UNCHANGED bounds
    BY <1>2 DEF RetrieveTarget, At, tables, stripe, RestStays
  <2>2. RefundsOK' /\ RefundsGrow /\ refunded' \in Amounts
    BY <2>1, RefundsStay DEF RefundsOK
  <2>3. /\ request[r].key \in Keys /\ request[r] \in Request /\ input \in Inputs
        /\ request[r].amount # 0 =>
              /\ operation[request[r].key].exists
              /\ operation[request[r].key].input = input
              /\ request[r].amount = operation[request[r].key].requested
    BY <2>1, Numbers DEF RequestOK, Request
  <2>4. CASE request[r].amount > 0 /\ Goto(r, "stripeRefund")
    <3>1. /\ operation[request[r].key] \in Operation /\ KeyOK(request[r].key)
      BY <2>3, Numbers
    <3>2. request[r].amount \in Amounts /\ request[r].amount >= 1
          /\ (input = 1 => request[r].amount = 1)
      BY <2>3, <2>4, <3>1, Numbers DEF KeyOK, Operation
    <3>3. RequestsOK'
      BY <2>1, <2>2, <2>3, <2>4, <3>2, GotoMoves
    <3> QED
      BY <2>1, <2>2, <3>3, RefundSide
  <2>5. CASE /\ PolicyAllows(input)
             /\ request' = [request EXCEPT ![r].step = "record", ![r].amount = Refundable(input)]
    <3> DEFINE n == Refundable(input)
               v == [request[r] EXCEPT !.step = "record", !.amount = n]
    <3>1. /\ n \in Nat /\ n \in Amounts /\ n >= 1 /\ n <= RefundLimit
          /\ input = 1 => n = 1
          /\ input = 0 => Received - refunded <= n
      BY <2>3, <2>5, Numbers DEF PolicyAllows, Refundable, Inputs
    <3> HIDE DEF n
    <3>2. request' = [request EXCEPT ![r] = v]
      BY <2>3, <2>5 DEF n, MoneyInv, RequestsOK
    <3>3. /\ v \in Request /\ v.step = "record" /\ v.key = request[r].key /\ v.input = input
          /\ v.amount = n
      BY <2>3, <3>1 DEF Request
    <3> HIDE DEF v
    <3>4. request'[r] = v => RequestOK(r)'
      BY <2>1, <2>3, <3>1, <3>3 DEF RequestOK
    <3>5. RequestsOK'
      BY <2>2, <3>2, <3>3, <3>4, ActorMoves
    <3> QED
      BY <2>1, <2>2, <3>5, RefundSide
  <2>6. CASE End(r)
    BY <2>1, <2>2, <2>6, EndMoves, RefundSide
  <2> QED
    BY <1>2, <2>4, <2>5, <2>6 DEF RetrieveTarget
<1> QED
  BY <1>1, <1>2

\* The update of one operation.
LEMMA OneOperation ==
    ASSUME MoneyInv, NEW k \in Keys, NEW o \in Operation,
           operation' = [operation EXCEPT ![k] = o], UNCHANGED <<refund, refunded>>,
           operation[k].exists => o.exists /\ o.input = operation[k].input
                                  /\ o.requested = operation[k].requested,
           operation'[k] = o => KeyOK(k)'
    PROVE  RefundsOK' /\ RefundsGrow /\ refunded' \in Amounts
<1>1. operation \in [Keys -> Operation] /\ refund \in [Keys -> RefundList] /\ refunded \in Amounts
  BY DEF MoneyInv, RefundsOK
<1>2. /\ operation' \in [Keys -> Operation] /\ operation'[k] = o
      /\ \A j \in Keys \ {k} : operation'[j] = operation[j]
  BY <1>1
<1>3. ASSUME NEW j \in Keys \ {k} PROVE KeyOK(j)'
  <2>1. KeyOK(j) /\ operation'[j] = operation[j]
    BY <1>2, Numbers
  <2> QED
    BY <2>1 DEF KeyOK
<1>4. RefundsGrow
  BY <1>2, Numbers DEF RefundsGrow
<1> QED
  BY <1>1, <1>2, <1>3, <1>4 DEF RefundsOK

\* The insertion of the operation, and the two updates that end it.
LEMMA OperationsKeep ==
    ASSUME MoneyInv, NEW r \in Requests
    PROVE  /\ RecordOperation(r) => MoneyInv'
           /\ FailOperation(r) => MoneyInv'
           /\ CompleteOperation(r) => MoneyInv'
<1> DEFINE k == request[r].key
<1>1. request[r] \in Request /\ RequestOK(r)
  BY Numbers
<1>2. ASSUME k \in Keys PROVE operation[k] \in Operation /\ KeyOK(k)
  BY <1>2, Numbers
<1>3. ASSUME RecordOperation(r) PROVE MoneyInv'
  <2>1. /\ request[r].step = "record" /\ UNCHANGED <<refund, refunded>>
        /\ RestStays /\ UNCHANGED bounds
    BY <1>3 DEF RecordOperation, At, tables, stripe, RestStays
  <2>2. /\ k \in Keys /\ request[r].input \in Inputs
        /\ request[r].amount \in Amounts /\ request[r].amount >= 1
        /\ request[r].amount <= RefundLimit
        /\ request[r].input = 1 => request[r].amount = 1
        /\ request[r].input = 0 => Received - refunded <= request[r].amount
    BY <1>1, <2>1 DEF RequestOK, Request
  <2>3. CASE ~operation[k].exists
    <3> DEFINE o == [NoOperation EXCEPT !.exists = TRUE, !.input = request[r].input,
                                        !.requested = request[r].amount]
    <3>1. operation' = [operation EXCEPT ![k] = o] /\ Goto(r, "stripeRefund")
      BY <1>3, <2>3 DEF RecordOperation
    <3>2. /\ o \in Operation /\ o.exists = TRUE /\ o.input = request[r].input
          /\ o.requested = request[r].amount /\ o.refund = 0
      BY <2>2 DEF NoOperation, Operation
    <3> HIDE DEF o
    <3>3. KeyOK(k) /\ refund[k] = <<>> /\ refund[k] \in RefundList
      BY <1>2, <2>2, <2>3 DEF KeyOK
    <3>4. ASSUME NEW j, j = k, operation'[j] = o PROVE KeyOK(j)'
      BY <2>1, <2>2, <3>2, <3>3, <3>4 DEF KeyOK
    <3>5. RefundsOK' /\ RefundsGrow /\ refunded' \in Amounts /\ operation'[k] = o
      <4>1. \A j \in Keys : j = k => (operation'[j] = o => KeyOK(j)')
        BY <3>4
      <4>2. operation'[k] = o
        BY <2>2, <3>1 DEF MoneyInv, RefundsOK
      <4>3. PICK j \in Keys : j = k
        BY <2>2
      <4> QED
        BY <2>1, <2>2, <2>3, <3>1, <3>2, <4>1, <4>2, <4>3, OneOperation
    <3>6. RequestsOK'
      BY <2>2, <3>1, <3>2, <3>5, GotoMoves
    <3> QED
      BY <2>1, <3>5, <3>6, RefundSide
  <2>4. CASE operation[k].exists
    <3>1. operation' = operation
      BY <1>3, <2>4 DEF RecordOperation
    <3>2. RefundsOK' /\ RefundsGrow /\ refunded' \in Amounts
      BY <2>1, <3>1, RefundsStay DEF RefundsOK
    <3>3. CASE Resumes(k, request[r].input) /\ Goto(r, "stripeRefund")
      <4>1. operation[k].input = request[r].input
        BY <3>3 DEF Resumes
      <4>2. RequestsOK'
        BY <2>2, <2>4, <3>1, <3>2, <3>3, <4>1, GotoMoves
      <4> QED
        BY <2>1, <3>2, <4>2, RefundSide
    <3>4. CASE End(r)
      BY <2>1, <3>2, <3>4, EndMoves, RefundSide
    <3> QED
      BY <1>3, <2>4, <3>3, <3>4 DEF RecordOperation
  <2> QED
    BY <2>3, <2>4
<1>4. ASSUME FailOperation(r) PROVE MoneyInv'
  <2>1. /\ request[r].step = "fail" /\ UNCHANGED <<refund, refunded>>
        /\ RestStays /\ UNCHANGED bounds /\ End(r)
        /\ operation' = [operation EXCEPT ![request[r].key].status = "FAILED"]
    BY <1>4 DEF FailOperation, At, tables, stripe, RestStays
  <2>2. PICK j \in Keys : j = request[r].key
    BY <1>1, <2>1 DEF RequestOK
  <2> DEFINE o == [operation[j] EXCEPT !.status = "FAILED"]
  <2>3. operation[j] \in Operation /\ KeyOK(j)
    BY Numbers
  <2>4. operation' = [operation EXCEPT ![j] = o]
    BY <2>1, <2>2 DEF MoneyInv, RefundsOK
  <2>5. /\ o \in Operation /\ o.exists = operation[j].exists /\ o.input = operation[j].input
        /\ o.requested = operation[j].requested /\ o.refund = operation[j].refund
    BY <2>3 DEF Operation
  <2> HIDE DEF o
  <2>6. ASSUME operation'[j] = o PROVE KeyOK(j)'
    BY <2>1, <2>3, <2>5, <2>6 DEF KeyOK
  <2>7. RefundsOK' /\ RefundsGrow /\ refunded' \in Amounts
    BY <2>1, <2>4, <2>5, <2>6, OneOperation
  <2> QED
    BY <2>1, <2>7, EndMoves, RefundSide
<1>5. ASSUME CompleteOperation(r) PROVE MoneyInv'
  <2>1. /\ request[r].step = "complete" /\ UNCHANGED <<refund, refunded>>
        /\ RestStays /\ UNCHANGED bounds /\ End(r)
    BY <1>5 DEF CompleteOperation, At, tables, stripe, RestStays
  <2>2. PICK j \in Keys : j = request[r].key
    BY <1>1, <2>1 DEF RequestOK
  <2>3. operation[j] \in Operation /\ KeyOK(j) /\ request[r].id = 1 /\ refund[j] # <<>>
    BY <1>1, <2>1, <2>2, Numbers DEF RequestOK
  <2>4. RefundsOK' /\ RefundsGrow /\ refunded' \in Amounts
    <3>1. CASE operation[j].refund # 0
      <4>1. operation' = operation
        BY <1>5, <2>2, <3>1 DEF CompleteOperation
      <4> QED
        BY <2>1, <4>1, RefundsStay DEF RefundsOK
    <3>2. CASE operation[j].refund = 0
      <4> DEFINE o == [operation[j] EXCEPT !.refund = 1, !.status = "succeeded"]
      <4>1. operation' = [operation EXCEPT ![j].refund = 1, ![j].status = "succeeded"]
        BY <1>5, <2>2, <2>3, <3>2 DEF CompleteOperation
      <4>2. operation' = [operation EXCEPT ![j] = o]
        BY <4>1 DEF MoneyInv, RefundsOK
      <4>3. /\ o \in Operation /\ o.exists = operation[j].exists /\ o.input = operation[j].input
            /\ o.requested = operation[j].requested /\ o.refund = 1
        BY <2>3 DEF Operation
      <4> HIDE DEF o
      <4>4. ASSUME operation'[j] = o PROVE KeyOK(j)'
        BY <2>1, <2>3, <4>3, <4>4 DEF KeyOK
      <4> QED
        BY <2>1, <4>2, <4>3, <4>4, OneOperation
    <3> QED
      BY <3>1, <3>2
  <2> QED
    BY <2>1, <2>4, EndMoves, RefundSide
<1> QED
  BY <1>3, <1>4, <1>5

\* What refunds.create does: replay, or refund what the operation covers.
LEMMA RefundMoves ==
    ASSUME MoneyInv, NEW r \in Requests, request[r].step = "stripeRefund",
           UNCHANGED operation, Refunds(r)
    PROVE  /\ RefundsOK' /\ RefundsGrow /\ refunded' \in Amounts
           /\ request[r].key \in Keys
           /\ refund'[request[r].key] # <<>> /\ Len(refund'[request[r].key]) = 1
<1>1. PICK k \in Keys : k = request[r].key
  BY Numbers DEF RequestOK
<1> DEFINE a == request[r].amount
<1>2. /\ operation[k].exists /\ operation[k].input = request[r].input
      /\ a \in Amounts /\ a >= 1 /\ request[r].input \in Inputs
      /\ request[r].input = 1 => a = 1
  BY <1>1, Numbers DEF RequestOK, Request
<1>3. KeyOK(k) /\ refund[k] \in RefundList /\ operation[k].requested \in Nat
  BY Numbers DEF KeyOK
<1> HIDE DEF a
<1>4. CASE /\ Replayed(k) /\ UNCHANGED <<refund, refunded>>
  <2>1. refund[k] # <<>> /\ Len(refund[k]) = 1
    BY <1>3, <1>4 DEF Replayed, RefundList
  <2> QED
    BY <1>1, <1>4, <2>1, RefundsStay DEF RefundsOK
<1>5. CASE /\ ~Replayed(k) /\ refunded + a <= Received
           /\ refund' = [refund EXCEPT ![k] = Append(@, a)] /\ refunded' = refunded + a
  <2>1. refund[k] = <<>> /\ refund \in [Keys -> RefundList]
    BY <1>5 DEF Replayed, MoneyInv, RefundsOK
  <2>2. a \in Nat /\ <<a>> \in RefundList
    BY <1>2, Numbers DEF RefundList
  <2>3. Append(refund[k], a) = <<a>> /\ <<a>> # <<>> /\ Len(<<a>>) = 1 /\ <<a>>[1] = a
    BY <2>1, <2>2
  <2>4. refund' = [refund EXCEPT ![k] = <<a>>]
    BY <1>5, <2>3
  <2>5. /\ refund' \in [Keys -> RefundList] /\ refund'[k] = <<a>>
        /\ \A j \in Keys \ {k} : refund'[j] = refund[j]
    BY <2>1, <2>2, <2>4
  <2>6. refunded' \in Amounts /\ refunded <= refunded' /\ refunded \in Nat /\ refunded' \in Nat
    BY <1>5, <2>2, Numbers
  <2>7. a <= operation[k].requested
    <3>1. CASE request[r].input = 1
      BY <1>2, <1>3, <3>1, Numbers DEF KeyOK
    <3>2. CASE request[r].input = 0
      <4>1. Received - refunded <= operation[k].requested
        BY <1>2, <1>3, <3>2 DEF KeyOK
      <4> QED
        BY <1>3, <1>5, <2>2, <4>1, Numbers
    <3> QED
      BY <1>2, <3>1, <3>2 DEF Inputs
  <2>8. ASSUME NEW j \in Keys PROVE KeyOK(j)'
    <3>1. KeyOK(j) /\ operation[j].requested \in Nat
      BY Numbers
    <3>2. Received - refunded <= operation[j].requested =>
             Received - refunded' <= operation[j].requested
      BY <2>6, <3>1, Numbers
    <3>3. CASE j = k
      BY <1>2, <2>2, <2>3, <2>5, <2>7, <3>1, <3>2, <3>3 DEF KeyOK
    <3>4. CASE j # k
      BY <2>5, <3>1, <3>2, <3>4 DEF KeyOK
    <3> QED
      BY <3>3, <3>4
  <2>9. RefundsGrow
    BY <2>3, <2>5, <2>6 DEF RefundsGrow
  <2>10. operation' \in [Keys -> Operation]
    BY DEF MoneyInv, RefundsOK
  <2> QED
    BY <1>1, <2>3, <2>5, <2>6, <2>8, <2>9, <2>10 DEF RefundsOK
<1> QED
  BY <1>1, <1>4, <1>5 DEF Refunds, a

\* Stripe refunds, refuses, or its answer is lost.
LEMMA StripeKeeps ==
    ASSUME MoneyInv, NEW r \in Requests
    PROVE  /\ StripeRefund(r) => MoneyInv'
           /\ StripeRefundFails(r) => MoneyInv'
<1>1. request[r] \in Request /\ RequestOK(r)
  BY Numbers
<1>2. ASSUME StripeRefund(r) PROVE MoneyInv'
  <2>1. /\ request[r].step = "stripeRefund" /\ Refunds(r) /\ UNCHANGED operation
        /\ RestStays /\ UNCHANGED bounds
        /\ request' = [request EXCEPT ![r].step = "complete",
                                      ![r].id = Len(refund'[request[r].key])]
    BY <1>2 DEF StripeRefund, At, tables, RestStays
  <2>2. /\ RefundsOK' /\ RefundsGrow /\ refunded' \in Amounts /\ request[r].key \in Keys
        /\ refund'[request[r].key] # <<>> /\ Len(refund'[request[r].key]) = 1
    BY <2>1, RefundMoves
  <2> DEFINE v == [request[r] EXCEPT !.step = "complete", !.id = 1]
  <2>3. request' = [request EXCEPT ![r] = v]
    BY <2>1, <2>2 DEF MoneyInv, RequestsOK
  <2>4. v \in Request /\ v.step = "complete" /\ v.id = 1 /\ v.key = request[r].key
    BY <1>1 DEF Request
  <2> HIDE DEF v
  <2>5. request'[r] = v => RequestOK(r)'
    BY <2>2, <2>4 DEF RequestOK
  <2>6. RequestsOK'
    BY <2>2, <2>3, <2>4, <2>5, ActorMoves
  <2> QED
    BY <2>1, <2>2, <2>6, RefundSide
<1>3. ASSUME StripeRefundFails(r) PROVE MoneyInv'
  <2>1. /\ request[r].step = "stripeRefund" /\ UNCHANGED operation /\ Goto(r, "fail")
        /\ RestStays
        /\ UNCHANGED bounds \/ Spend
        /\ UNCHANGED <<refund, refunded>> \/ Refunds(r)
    BY <1>3 DEF StripeRefundFails, At, tables, RestStays
  <2>2. request[r].key \in Keys
    BY <1>1, <2>1 DEF RequestOK
  <2>3. RefundsOK' /\ RefundsGrow /\ refunded' \in Amounts
    BY <2>1, RefundMoves, RefundsStay DEF RefundsOK
  <2>4. RequestsOK'
    BY <2>1, <2>2, <2>3, GotoMoves
  <2> QED
    BY <2>1, <2>3, <2>4, RefundSide
<1> QED
  BY <1>2, <1>3

-----------------------------------------------------------------------------
(* Customers, cards and subscriptions.                                      *)

\* A step that leaves the refunds alone.
LEMMA OtherSide ==
    ASSUME MoneyInv, UNCHANGED <<operation, refund, refunded>>, PlainOK', CardsOK', RequestsOK'
    PROVE  MoneyInv'
BY RefundsStay DEF MoneyInv

\* What the steps of a request need of the refunds it does not touch.
LEMMA SameRefunds ==
    ASSUME MoneyInv, UNCHANGED <<operation, refund, refunded>>
    PROVE  RefundsGrow /\ refunded' \in Amounts
BY RefundsStay DEF RefundsOK

\* The events of Stripe.
LEMMA EventFacts ==
    /\ <<"customer", NoCard>> \in Events /\ <<"subscription", NoCard>> \in Events
    /\ \A c \in Cards : <<"setup", c>> \in Events /\ <<"detached", c>> \in Events
BY DEF Events

\* Stripe tells something that is not of the default.
LEMMA EventsGrow ==
    ASSUME MoneyInv, UNCHANGED <<card, preferred, handler, superseded>>,
           attached' \subseteq Cards, preferred \in attached' \cup {NoCard},
           event' \subseteq Events, event \subseteq event'
    PROVE  CardsOK'
<1>1. CardsOK
  BY DEF MoneyInv
<1>2. Told => Told'
  BY DEF Told
<1>3. DefaultIsSaved' /\ FollowsInv'
  BY <1>1, <1>2 DEF CardsOK, DefaultIsSaved, FollowsInv, Defaults, Saved
<1> QED
  BY <1>1, <1>3 DEF CardsOK

\* Stripe tells of a new default.
LEMMA DefaultTold ==
    ASSUME MoneyInv, UNCHANGED <<card, handler, superseded>>,
           attached' \subseteq Cards, preferred' \in attached' \cup {NoCard},
           event' \subseteq Events, <<"customer", NoCard>> \in event'
    PROVE  CardsOK'
<1>1. CardsOK
  BY DEF MoneyInv
<1>2. Told'
  BY DEF Told
<1>3. DefaultIsSaved' /\ FollowsInv'
  BY <1>1, <1>2 DEF CardsOK, DefaultIsSaved, FollowsInv, Defaults, Saved
<1> QED
  BY <1>1, <1>3 DEF CardsOK

\* A card is detached at Stripe.
LEMMA DetachMoves ==
    ASSUME MoneyInv, NEW c \in Cards, Detach(c), UNCHANGED <<card, handler, superseded>>
    PROVE  CardsOK'
<1>1. event \subseteq Events /\ attached \subseteq Cards /\ preferred \in attached \cup {NoCard}
  BY DEF MoneyInv, CardsOK
<1>2. /\ attached' = attached \ {c}
      /\ preferred' = IF preferred = c THEN NoCard ELSE preferred
      /\ event' = event \cup {<<"detached", c>>}
                        \cup (IF preferred = c THEN {<<"customer", NoCard>>} ELSE {})
  BY DEF Detach
<1>3. CASE preferred = c
  <2>1. /\ attached' \subseteq Cards /\ preferred' = NoCard /\ event' \subseteq Events
        /\ <<"customer", NoCard>> \in event'
    BY <1>1, <1>2, <1>3, EventFacts
  <2> QED
    BY <2>1, DefaultTold
<1>4. CASE preferred # c
  <2>1. /\ attached' \subseteq Cards /\ preferred' = preferred
        /\ preferred \in attached' \cup {NoCard}
        /\ event' \subseteq Events /\ event \subseteq event'
    BY <1>1, <1>2, <1>4, EventFacts
  <2> QED
    BY <2>1, EventsGrow
<1> QED
  BY <1>3, <1>4

\* The requests of customers, cards and subscriptions arrive.
LEMMA CallsKeep ==
    ASSUME MoneyInv, NEW r \in Requests
    PROVE  /\ CreateSetupIntent(r) \/ CreateCheckoutSession(r) => MoneyInv'
           /\ \A c \in Cards : SetDefaultPaymentMethod(r, c) => MoneyInv'
           /\ \A c \in Cards : DetachPaymentMethod(r, c) => MoneyInv'
           /\ \A ending \in BOOLEAN : UpdateSubscription(r, ending) => MoneyInv'
           /\ DeleteAccount(r) => MoneyInv'
<1>1. ASSUME CreateSetupIntent(r) \/ CreateCheckoutSession(r) PROVE MoneyInv'
  <2> DEFINE s == IF customer = 0 THEN "createCustomer" ELSE WithCustomer
             v == [Idle EXCEPT !.step = s]
  <2>1. s \in {"createCustomer", "setup", "checkout"}
    BY DEF WithCustomer
  <2>2. Call(r, v)
    BY <1>1 DEF CreateSetupIntent, CreateCheckoutSession, EnsureCustomer
  <2> HIDE DEF s
  <2>3. v \in Request /\ v.step = s
    BY <2>1 DEF Idle, Request, Inputs
  <2> HIDE DEF v
  <2> QED
    BY <2>1, <2>2, <2>3, CallMoves
<1>2. ASSUME NEW c \in Cards, SetDefaultPaymentMethod(r, c) PROVE MoneyInv'
  <2> DEFINE v == [Idle EXCEPT !.step = "stripeDefault", !.card = c]
  <2>1. v \in Request /\ v.step = "stripeDefault" /\ v.card = c
    BY DEF Idle, Request, Inputs
  <2>2. Call(r, v)
    BY <1>2 DEF SetDefaultPaymentMethod
  <2> HIDE DEF v
  <2> QED
    BY <2>1, <2>2, CallMoves
<1>3. ASSUME NEW c \in Cards, DetachPaymentMethod(r, c) PROVE MoneyInv'
  <2> DEFINE v == [Idle EXCEPT !.step = "countCards", !.card = c]
  <2>1. v \in Request /\ v.step = "countCards" /\ v.card = c
    BY DEF Idle, Request, Inputs
  <2>2. Call(r, v)
    BY <1>3 DEF DetachPaymentMethod
  <2> HIDE DEF v
  <2> QED
    BY <2>1, <2>2, CallMoves
<1>4. ASSUME NEW ending \in BOOLEAN, UpdateSubscription(r, ending) PROVE MoneyInv'
  <2> DEFINE v == [Idle EXCEPT !.step = "update", !.ending = ending]
  <2>1. v \in Request /\ v.step = "update"
    BY DEF Idle, Request, Inputs
  <2>2. Call(r, v)
    BY <1>4 DEF UpdateSubscription
  <2> HIDE DEF v
  <2> QED
    BY <2>1, <2>2, CallMoves
<1>5. ASSUME DeleteAccount(r) PROVE MoneyInv'
  <2> DEFINE v == [Idle EXCEPT !.step = "erase", !.id = customer]
  <2>1. customer \in Nat
    BY DEF MoneyInv, PlainOK
  <2>2. v \in Request /\ v.step = "erase"
    BY <2>1 DEF Idle, Request, Inputs
  <2>3. Call(r, v)
    BY <1>5 DEF DeleteAccount
  <2> HIDE DEF v
  <2> QED
    BY <2>2, <2>3, CallMoves
<1> QED
  BY <1>1, <1>2, <1>3, <1>4, <1>5

\* The customer is created and saved.
LEMMA CustomerKeeps ==
    ASSUME MoneyInv, NEW r \in Requests
    PROVE  /\ CreateCustomer(r) => MoneyInv'
           /\ SaveCustomer(r) => MoneyInv'
           /\ ConfirmSetup(r) => MoneyInv'
           /\ OpenCheckout(r) => MoneyInv'
<1>1. request \in [Requests -> Request] /\ RequestOK(r) /\ PlainOK /\ CardsOK
  BY DEF MoneyInv, RequestsOK
<1>2. ASSUME CreateCustomer(r) PROVE MoneyInv'
  <2> DEFINE v == [request[r] EXCEPT !.step = "saveCustomer", !.id = 1]
  <2>1. /\ request' = [request EXCEPT ![r].step = "saveCustomer", ![r].id = 1]
        /\ customers' = IF 1 > customers THEN 1 ELSE customers
        /\ UNCHANGED <<customer, operation, card, subscription, checkout, refund, refunded,
                       attached, preferred, plan, event, handler, erasure>>
        /\ UNCHANGED bounds /\ UNCHANGED <<superseded, late>>
    BY <1>2 DEF CreateCustomer, StripeCustomer, tables, history
  <2>2. request' = [request EXCEPT ![r] = v]
    BY <1>1, <2>1
  <2>3. v \in Request /\ v.step = "saveCustomer" /\ v.id = 1
    BY <1>1 DEF Request
  <2> HIDE DEF v
  <2>4. request'[r] = v => RequestOK(r)'
    BY <2>3 DEF RequestOK
  <2>5. RequestsOK'
    BY <2>1, <2>2, <2>3, <2>4, SameRefunds, ActorMoves
  <2>6. CardsOK'
    BY <2>1, CardsStay
  <2>7. customers' \in Nat
    BY <1>1, <2>1 DEF PlainOK
  <2>8. PlainOK'
    BY <1>1, <2>1, <2>7 DEF PlainOK, bounds
  <2> QED
    BY <2>1, <2>5, <2>6, <2>8, OtherSide
<1>3. ASSUME SaveCustomer(r) PROVE MoneyInv'
  <2>1. /\ request[r].step = "saveCustomer"
        /\ UNCHANGED <<operation, card, subscription, customers, checkout, refund, refunded,
                       attached, preferred, plan, event, handler, erasure>>
        /\ UNCHANGED bounds /\ UNCHANGED <<superseded, late>>
        /\ \/ UNCHANGED customer /\ End(r)
           \/ customer' = request[r].id /\ Goto(r, WithCustomer)
    BY <1>3 DEF SaveCustomer, At, stripe, history
  <2>2. request[r].id = 1
    BY <1>1, <2>1 DEF RequestOK
  <2>3. WithCustomer \in {"setup", "checkout"}
    BY DEF WithCustomer
  <2>4. RequestsOK'
    <3>1. CASE End(r)
      BY <2>1, <3>1, SameRefunds, EndMoves
    <3>2. CASE Goto(r, WithCustomer)
      BY <2>1, <2>3, <3>2, SameRefunds, GotoMoves
    <3> QED
      BY <2>1, <3>1, <3>2
  <2>5. CardsOK'
    BY <2>1, CardsStay
  <2>6. PlainOK'
    BY <1>1, <2>1, <2>2 DEF PlainOK, bounds
  <2> QED
    BY <2>1, <2>4, <2>5, <2>6, OtherSide
<1>4. ASSUME ConfirmSetup(r) PROVE MoneyInv'
  <2>1. /\ End(r)
        /\ UNCHANGED <<customer, operation, card, subscription, customers, checkout, refund,
                       refunded, preferred, plan, handler, erasure>>
        /\ UNCHANGED bounds /\ UNCHANGED <<superseded, late>>
        /\ \/ \E c \in Cards : /\ attached' = attached \cup {c}
                               /\ event' = event \cup {<<"setup", c>>}
           \/ UNCHANGED <<attached, event>>
    BY <1>4 DEF ConfirmSetup, tables, history
  <2>2. /\ attached' \subseteq Cards /\ preferred \in attached' \cup {NoCard}
        /\ event' \subseteq Events /\ event \subseteq event'
    BY <1>1, <2>1, EventFacts DEF CardsOK
  <2>3. CardsOK'
    BY <2>1, <2>2, EventsGrow
  <2>4. PlainOK' /\ RequestsOK'
    BY <2>1, PlainStays, SameRefunds, EndMoves
  <2> QED
    BY <2>1, <2>3, <2>4, OtherSide
<1>5. ASSUME OpenCheckout(r) PROVE MoneyInv'
  <2>1. /\ End(r) /\ checkout' = TRUE
        /\ UNCHANGED <<customer, operation, card, subscription, customers, refund, refunded,
                       attached, preferred, plan, event, handler, erasure>>
        /\ UNCHANGED bounds /\ UNCHANGED <<superseded, late>>
    BY <1>5 DEF OpenCheckout, tables, history
  <2>2. CardsOK' /\ RequestsOK'
    BY <2>1, CardsStay, SameRefunds, EndMoves
  <2>3. PlainOK'
    BY <1>1, <2>1 DEF PlainOK, bounds
  <2> QED
    BY <2>1, <2>2, <2>3, OtherSide
<1> QED
  BY <1>2, <1>3, <1>4, <1>5

\* A row of a card is updated.
LEMMA CardsMove ==
    ASSUME MoneyInv, UNCHANGED <<attached, preferred, event>>,
           handler' \in [Handlers -> Handler], card' \in [Cards -> Card], superseded' \in BOOLEAN,
           Defaults' \subseteq Saved', superseded => superseded',
           \/ superseded'
           \/ Defaults' = {preferred} \cap Saved'
           \/ /\ Told => Told'
              /\ Defaults = {preferred} \cap Saved => Defaults' = {preferred} \cap Saved'
    PROVE  CardsOK'
<1>1. CardsOK
  BY DEF MoneyInv
<1>2. FollowsInv'
  BY <1>1 DEF CardsOK, FollowsInv
<1> QED
  BY <1>1, <1>2 DEF CardsOK, DefaultIsSaved

\* A row is deleted, if it is there.
LEMMA CardGone ==
    ASSUME MoneyInv, NEW c \in Cards,
           card' = [card EXCEPT ![c] = IF @.saved THEN Gone ELSE @],
           UNCHANGED <<attached, preferred, event, superseded>>,
           handler' \in [Handlers -> Handler], Told => Told'
    PROVE  CardsOK'
<1>1. card \in [Cards -> Card] /\ superseded \in BOOLEAN /\ Defaults \subseteq Saved
  BY DEF MoneyInv, CardsOK, DefaultIsSaved
<1>2. Gone \in Card /\ Gone.saved = FALSE /\ Gone.default = FALSE
  BY DEF Gone, Card
<1>3. CASE card[c].saved
  <2>1. card' = [card EXCEPT ![c] = Gone]
    BY <1>1, <1>3
  <2>2. card' \in [Cards -> Card] /\ Defaults' = Defaults \ {c} /\ Saved' = Saved \ {c}
    BY <1>1, <1>2, <2>1 DEF Defaults, Saved
  <2> QED
    BY <1>1, <2>2, CardsMove
<1>4. CASE ~card[c].saved
  <2>1. card' = card
    BY <1>1, <1>4
  <2>2. card' \in [Cards -> Card] /\ Defaults' = Defaults /\ Saved' = Saved
    BY <1>1, <2>1 DEF Defaults, Saved
  <2> QED
    BY <1>1, <2>2, CardsMove
<1> QED
  BY <1>3, <1>4

\* The requests of the user who manages his cards.
LEMMA CardRequestsKeep ==
    ASSUME MoneyInv, NEW r \in Requests
    PROVE  /\ StripeDefault(r) => MoneyInv'
           /\ ClearDefault(r) => MoneyInv'
           /\ SetDefault(r) => MoneyInv'
           /\ CountCards(r) => MoneyInv'
           /\ StripeDetach(r) => MoneyInv'
           /\ MarkDetached(r) => MoneyInv'
<1>1. request \in [Requests -> Request] /\ RequestOK(r) /\ PlainOK /\ CardsOK
  BY DEF MoneyInv, RequestsOK
<1>2. ASSUME StripeDefault(r) PROVE MoneyInv'
  <2>1. /\ request[r].step = "stripeDefault"
        /\ UNCHANGED <<customer, operation, card, subscription, customers, checkout, refund,
                       refunded, attached, plan, handler, erasure>>
        /\ UNCHANGED bounds /\ UNCHANGED <<superseded, late>>
        /\ \/ /\ request[r].card \in attached /\ preferred' = request[r].card
              /\ event' = event \cup {<<"customer", NoCard>>} /\ Goto(r, "clearDefault")
           \/ UNCHANGED <<preferred, event>> /\ End(r)
    BY <1>2 DEF StripeDefault, At, tables, history
  <2>2. request[r].card \in Cards
    BY <1>1, <2>1 DEF RequestOK
  <2>3. PlainOK'
    BY <2>1, PlainStays
  <2>4. CASE /\ request[r].card \in attached /\ preferred' = request[r].card
             /\ event' = event \cup {<<"customer", NoCard>>} /\ Goto(r, "clearDefault")
    <3>1. /\ attached' \subseteq Cards /\ preferred' \in attached' \cup {NoCard}
          /\ event' \subseteq Events /\ <<"customer", NoCard>> \in event'
      BY <1>1, <2>1, <2>4, EventFacts DEF CardsOK
    <3>2. CardsOK'
      BY <2>1, <3>1, DefaultTold
    <3>3. RequestsOK'
      BY <2>1, <2>2, <2>4, SameRefunds, GotoMoves
    <3> QED
      BY <2>1, <2>3, <3>2, <3>3, OtherSide
  <2>5. CASE UNCHANGED <<preferred, event>> /\ End(r)
    BY <2>1, <2>3, <2>5, CardsStay, SameRefunds, EndMoves, OtherSide
  <2> QED
    BY <2>1, <2>4, <2>5
<1>3. ASSUME ClearDefault(r) PROVE MoneyInv'
  <2> DEFINE v == [request[r] EXCEPT !.step = "setDefault", !.list = Defaults]
  <2>1. /\ request[r].step = "clearDefault"
        /\ UNCHANGED <<customer, operation, card, subscription, customers, checkout, refund,
                       refunded, attached, preferred, plan, event, handler, erasure>>
        /\ UNCHANGED bounds /\ UNCHANGED <<superseded, late>>
        /\ request' = [request EXCEPT ![r].step = "setDefault", ![r].list = Defaults]
    BY <1>3 DEF ClearDefault, At, tables, stripe, history
  <2>2. request[r].card \in Cards /\ Defaults \in SUBSET Cards
    BY <1>1, <2>1 DEF RequestOK, Defaults
  <2>3. request' = [request EXCEPT ![r] = v]
    BY <1>1, <2>1
  <2>4. v \in Request /\ v.step = "setDefault" /\ v.card = request[r].card
    BY <1>1, <2>2 DEF Request
  <2> HIDE DEF v
  <2>5. request'[r] = v => RequestOK(r)'
    BY <2>2, <2>4 DEF RequestOK
  <2> QED
    BY <2>1, <2>3, <2>4, <2>5, PlainStays, CardsStay, SameRefunds, ActorMoves, OtherSide
<1>4. ASSUME SetDefault(r) PROVE MoneyInv'
  <2> DEFINE c == request[r].card
             l == request[r].list
  <2>1. /\ request[r].step = "setDefault" /\ End(r)
        /\ UNCHANGED <<customer, operation, subscription, customers, checkout, refund,
                       refunded, attached, preferred, plan, event, handler, erasure>>
        /\ UNCHANGED bounds /\ late' = late
    BY <1>4 DEF SetDefault, At, stripe
  <2>2. c \in Cards /\ card \in [Cards -> Card] /\ handler' \in [Handlers -> Handler]
        /\ superseded \in BOOLEAN /\ Defaults \subseteq Saved
    BY <1>1, <2>1 DEF RequestOK, CardsOK, DefaultIsSaved
  <2>3. PlainOK' /\ RequestsOK'
    BY <2>1, PlainStays, SameRefunds, EndMoves
  <2>4. CASE card[c].saved
    <3>1. /\ card' = [d \in Cards |-> [card[d] EXCEPT !.default =
                                         d = c \/ (card[d].default /\ d \notin l)]]
          /\ superseded' = (superseded \/ preferred # c \/ ~(Defaults \subseteq l \cup {c}))
      BY <1>4, <2>4 DEF SetDefault
    <3>2. ASSUME NEW d \in Cards
          PROVE  /\ card'[d] \in Card /\ card'[d].saved = card[d].saved
                 /\ card'[d].default = (d = c \/ (card[d].default /\ d \notin l))
      <4> DEFINE x == (d = c \/ (card[d].default /\ d \notin l))
      <4>1. x \in BOOLEAN /\ card[d] \in Card
        BY <2>2
      <4>2. card'[d] = [card[d] EXCEPT !.default = x]
        BY <3>1
      <4> HIDE DEF x
      <4>3. card'[d] \in Card /\ card'[d].saved = card[d].saved /\ card'[d].default = x
        BY <4>1, <4>2 DEF Card
      <4> QED
        BY <4>3 DEF x
    <3>3. /\ card' \in [Cards -> Card] /\ Saved' = Saved
          /\ Defaults' = {c} \cup (Defaults \ l)
      <4>1. card' \in [Cards -> Card]
        BY <3>1, <3>2
      <4>2. Saved' = Saved
        BY <3>2 DEF Saved
      <4>3. \A d \in Cards : card'[d].default <=> (d = c \/ (card[d].default /\ d \notin l))
        BY <3>2
      <4>4. Defaults' = {c} \cup (Defaults \ l)
        <5> HIDE DEF c, l
        <5> QED
          BY <2>2, <4>3 DEF Defaults
      <4> QED
        BY <4>1, <4>2, <4>4
    <3>4. c \in Saved
      BY <2>2, <2>4 DEF Saved
    <3>5. superseded' \in BOOLEAN /\ (superseded => superseded')
      BY <2>2, <3>1
    <3>6. superseded' \/ Defaults' = {preferred} \cap Saved'
      BY <2>2, <3>1, <3>3, <3>4
    <3>7. CardsOK'
      BY <2>1, <2>2, <3>3, <3>4, <3>5, <3>6, CardsMove
    <3> QED
      BY <2>1, <2>3, <3>7, OtherSide
  <2>5. CASE ~card[c].saved
    <3>1. UNCHANGED <<card, superseded>>
      BY <1>4, <2>5 DEF SetDefault
    <3>2. CardsOK'
      BY <2>1, <3>1, CardsStay
    <3> QED
      BY <2>1, <2>3, <3>2, OtherSide
  <2> QED
    BY <2>4, <2>5
<1>5. ASSUME CountCards(r) PROVE MoneyInv'
  <2>1. /\ request[r].step = "countCards"
        /\ UNCHANGED <<customer, operation, card, subscription, customers, checkout, refund,
                       refunded, attached, preferred, plan, event, handler, erasure>>
        /\ UNCHANGED bounds /\ UNCHANGED <<superseded, late>>
        /\ End(r) \/ Goto(r, "stripeDetach")
    BY <1>5 DEF CountCards, At, tables, stripe, history
  <2>2. request[r].card \in Cards
    BY <1>1, <2>1 DEF RequestOK
  <2>3. RequestsOK'
    BY <2>1, <2>2, SameRefunds, EndMoves, GotoMoves
  <2> QED
    BY <2>1, <2>3, PlainStays, CardsStay, OtherSide
<1>6. ASSUME StripeDetach(r) PROVE MoneyInv'
  <2>1. /\ request[r].step = "stripeDetach"
        /\ UNCHANGED <<customer, operation, card, subscription, customers, checkout, refund,
                       refunded, plan, handler, erasure>>
        /\ UNCHANGED bounds /\ UNCHANGED <<superseded, late>>
        /\ \/ Detach(request[r].card) /\ Goto(r, "markDetached")
           \/ UNCHANGED <<attached, preferred, event>> /\ End(r)
    BY <1>6 DEF StripeDetach, At, tables, history
  <2>2. request[r].card \in Cards
    BY <1>1, <2>1 DEF RequestOK
  <2>3. RequestsOK'
    BY <2>1, <2>2, SameRefunds, EndMoves, GotoMoves
  <2>4. CardsOK'
    BY <2>1, <2>2, DetachMoves, CardsStay
  <2> QED
    BY <2>1, <2>3, <2>4, PlainStays, OtherSide
<1>7. ASSUME MarkDetached(r) PROVE MoneyInv'
  <2>1. /\ request[r].step = "markDetached" /\ End(r)
        /\ UNCHANGED <<customer, operation, subscription, customers, checkout, refund,
                       refunded, attached, preferred, plan, event, handler, erasure>>
        /\ UNCHANGED bounds /\ UNCHANGED <<superseded, late>>
        /\ card' = [card EXCEPT ![request[r].card] = IF @.saved THEN Gone ELSE @]
    BY <1>7 DEF MarkDetached, At, stripe, history
  <2>2. request[r].card \in Cards /\ handler' \in [Handlers -> Handler] /\ (Told => Told')
    BY <1>1, <2>1 DEF RequestOK, CardsOK, Told
  <2>3. CardsOK'
    BY <2>1, <2>2, CardGone
  <2> QED
    BY <2>1, <2>3, PlainStays, SameRefunds, EndMoves, OtherSide
<1> QED
  BY <1>2, <1>3, <1>4, <1>5, <1>6, <1>7

\* Updates of the subscription, the deletion of the account, and crashes.
LEMMA PlainRequestsKeep ==
    ASSUME MoneyInv, NEW r \in Requests
    PROVE  /\ StripeUpdate(r) => MoneyInv'
           /\ EraseAccount(r) => MoneyInv'
           /\ Crash(r) => MoneyInv'
<1>1. request[r] \in Request /\ PlainOK /\ CardsOK
  BY DEF MoneyInv, RequestsOK
<1>2. ASSUME StripeUpdate(r) PROVE MoneyInv'
  <2>1. /\ End(r)
        /\ UNCHANGED <<customer, operation, card, subscription, customers, checkout, refund,
                       refunded, attached, preferred, handler, erasure>>
        /\ UNCHANGED bounds /\ UNCHANGED <<superseded, late>>
        /\ \/ /\ plan' = [plan EXCEPT !.ending = request[r].ending]
              /\ event' = event \cup {<<"subscription", NoCard>>}
           \/ UNCHANGED <<plan, event>>
    BY <1>2 DEF StripeUpdate, tables, history
  <2>2. /\ attached' \subseteq Cards /\ preferred \in attached' \cup {NoCard}
        /\ event' \subseteq Events /\ event \subseteq event'
    BY <1>1, <2>1, EventFacts DEF CardsOK
  <2>3. plan' \in [status: Status, ending: BOOLEAN]
    <3>1. request[r].ending \in BOOLEAN /\ plan \in [status: Status, ending: BOOLEAN]
      BY <1>1 DEF Request, PlainOK
    <3> QED
      BY <2>1, <3>1
  <2>4. PlainOK'
    BY <1>1, <2>1, <2>3 DEF PlainOK, bounds
  <2> QED
    BY <2>1, <2>2, <2>4, EventsGrow, SameRefunds, EndMoves, OtherSide
<1>3. ASSUME EraseAccount(r) PROVE MoneyInv'
  <2>1. /\ End(r)
        /\ UNCHANGED <<operation, card, customers, checkout, refund, refunded, attached,
                       preferred, plan, event, handler>>
        /\ UNCHANGED bounds /\ UNCHANGED <<superseded, late>>
        /\ \/ /\ customer' = 0
              /\ subscription' = IF subscription \in Live THEN "canceled" ELSE subscription
              /\ erasure' = [step |-> "requested", customer |-> request[r].id # 0]
           \/ UNCHANGED <<customer, subscription, erasure>>
    BY <1>3 DEF EraseAccount, stripe, history
  <2>2. customer' \in {0, 1}
    BY <1>1, <2>1 DEF PlainOK
  <2>3. subscription' \in Status
    BY <1>1, <2>1 DEF PlainOK, Status
  <2>4. erasure' \in [step: {"none", "requested", "cancel", "done"}, customer: BOOLEAN]
    <3> DEFINE b == request[r].id # 0
    <3>1. b \in BOOLEAN /\ (erasure' = [step |-> "requested", customer |-> b] \/ UNCHANGED erasure)
      BY <2>1
    <3> HIDE DEF b
    <3> QED
      BY <1>1, <3>1 DEF PlainOK
  <2>5. PlainOK'
    BY <1>1, <2>1, <2>2, <2>3, <2>4 DEF PlainOK, bounds
  <2> QED
    BY <2>1, <2>5, CardsStay, SameRefunds, EndMoves, OtherSide
<1>4. ASSUME Crash(r) PROVE MoneyInv'
  <2>1. /\ Spend /\ End(r) /\ RestStays /\ UNCHANGED <<operation, refund, refunded>>
    BY <1>4 DEF Crash, tables, stripe, RestStays
  <2> QED
    BY <2>1, RefundsStay, SameRefunds, EndMoves, RefundSide
<1> QED
  BY <1>2, <1>3, <1>4

\* Requests that do not move.
LEMMA RequestsStay ==
    ASSUME MoneyInv, RefundsGrow, refunded' \in Amounts, UNCHANGED request
    PROVE  RequestsOK'
<1>1. \A q \in Requests : RequestOK(q)'
  BY OthersOK
<1> QED
  BY <1>1 DEF MoneyInv, RequestsOK

\* What happens at Stripe by itself.
LEMMA AtStripeKeeps ==
    ASSUME MoneyInv
    PROVE  AtStripe => MoneyInv'
<1>1. PlainOK /\ CardsOK
  BY DEF MoneyInv
<1>2. \A t : Change(t) => changes' \in 0..MaxChanges /\ UNCHANGED <<topic, calls, faults>>
  BY <1>1, BillingAssumption DEF Change, PlainOK
<1>3. ASSUME NEW status \in Status, PlanChanges(status) PROVE MoneyInv'
  <2>1. /\ Change("subscription")
        /\ UNCHANGED <<customer, operation, card, subscription, customers, checkout, refund,
                       refunded, attached, preferred, handler, request, erasure, superseded>>
        /\ plan' = [plan EXCEPT !.status = status]
        /\ event' = event \cup {<<"subscription", NoCard>>}
        /\ late' = (late \/ (plan.status = "none"
                               /\ (Deleted \/ \E r \in Requests : At(r, "erase"))))
    BY <1>3 DEF PlanChanges, tables
  <2>2. /\ attached' \subseteq Cards /\ preferred \in attached' \cup {NoCard}
        /\ event' \subseteq Events /\ event \subseteq event'
    BY <1>1, <2>1, EventFacts DEF CardsOK
  <2>3. plan' \in [status: Status, ending: BOOLEAN]
    BY <1>1, <2>1 DEF PlainOK
  <2>4. late' \in BOOLEAN
    BY <2>1
  <2>5. PlainOK'
    BY <1>1, <1>2, <2>1, <2>3, <2>4 DEF PlainOK
  <2> QED
    BY <2>1, <2>2, <2>5, EventsGrow, SameRefunds, RequestsStay, OtherSide
<1>4. ASSUME NEW c \in Cards, PortalDefault(c) PROVE MoneyInv'
  <2>1. /\ Change("cards") /\ c \in attached /\ preferred' = c
        /\ event' = event \cup {<<"customer", NoCard>>}
        /\ UNCHANGED <<customer, operation, card, subscription, customers, checkout, refund,
                       refunded, attached, plan, handler, request, erasure>>
        /\ UNCHANGED <<superseded, late>>
    BY <1>4 DEF PortalDefault, tables, history
  <2>2. /\ attached' \subseteq Cards /\ preferred' \in attached' \cup {NoCard}
        /\ event' \subseteq Events /\ <<"customer", NoCard>> \in event'
    BY <1>1, <2>1, EventFacts DEF CardsOK
  <2>3. PlainOK'
    BY <1>1, <1>2, <2>1 DEF PlainOK
  <2> QED
    BY <2>1, <2>2, <2>3, DefaultTold, SameRefunds, RequestsStay, OtherSide
<1>5. ASSUME NEW c \in Cards, PortalDetach(c) PROVE MoneyInv'
  <2>1. /\ Change("cards") /\ Detach(c)
        /\ UNCHANGED <<customer, operation, card, subscription, customers, checkout, refund,
                       refunded, plan, handler, request, erasure>>
        /\ UNCHANGED <<superseded, late>>
    BY <1>5 DEF PortalDetach, tables, history
  <2>2. PlainOK'
    BY <1>1, <1>2, <2>1 DEF PlainOK
  <2> QED
    BY <2>1, <2>2, DetachMoves, SameRefunds, RequestsStay, OtherSide
<1>6. ASSUME DashboardRefund PROVE MoneyInv'
  <2>1. /\ Change("refunds") /\ refunded < Received /\ refunded' = refunded + 1
        /\ UNCHANGED <<customer, operation, card, subscription, customers, checkout, refund,
                       attached, preferred, plan, event, handler, request, erasure>>
        /\ UNCHANGED <<superseded, late>>
    BY <1>6 DEF DashboardRefund, tables, history
  <2>2. refunded' \in Amounts /\ refunded' \in Nat /\ refunded <= refunded'
    BY <2>1, Numbers
  <2>3. ASSUME NEW k \in Keys PROVE KeyOK(k)'
    <3>1. KeyOK(k) /\ operation[k].requested \in Nat
      BY Numbers
    <3>2. Received - refunded <= operation[k].requested =>
             Received - refunded' <= operation[k].requested
      BY <2>2, <3>1, Numbers
    <3> QED
      BY <2>1, <3>1, <3>2 DEF KeyOK
  <2>4. RefundsOK'
    BY <2>1, <2>2, <2>3 DEF MoneyInv, RefundsOK
  <2>5. RefundsGrow
    BY <2>1, <2>2 DEF RefundsGrow
  <2>6. PlainOK'
    BY <1>1, <1>2, <2>1 DEF PlainOK
  <2>7. CardsOK'
    BY <2>1, CardsStay
  <2>8. RequestsOK'
    BY <2>1, <2>2, <2>5, RequestsStay
  <2> QED
    BY <2>4, <2>6, <2>7, <2>8 DEF MoneyInv
<1> QED
  BY <1>3, <1>4, <1>5, <1>6 DEF AtStripe

\* The erasure of a deleted account at Stripe.
LEMMA ErasureKeeps ==
    ASSUME MoneyInv
    PROVE  ErasureStep => MoneyInv'
<1>1. PlainOK /\ CardsOK
  BY DEF MoneyInv
<1>2. ASSUME ListSubscriptions PROVE MoneyInv'
  <2> DEFINE s == IF erasure.customer /\ ToCancel(plan.status) THEN "cancel" ELSE "done"
  <2>1. /\ erasure' = [erasure EXCEPT !.step = s]
        /\ UNCHANGED <<customer, operation, card, subscription, customers, checkout, refund,
                       refunded, attached, preferred, plan, event, handler, request>>
        /\ UNCHANGED bounds /\ UNCHANGED <<superseded, late>>
    BY <1>2 DEF ListSubscriptions, tables, stripe, history
  <2>2. s \in {"none", "requested", "cancel", "done"}
    OBVIOUS
  <2> HIDE DEF s
  <2>3. erasure' \in [step: {"none", "requested", "cancel", "done"}, customer: BOOLEAN]
    BY <1>1, <2>1, <2>2 DEF PlainOK
  <2>4. PlainOK'
    BY <1>1, <2>1, <2>3 DEF PlainOK, bounds
  <2> QED
    BY <2>1, <2>4, CardsStay, SameRefunds, RequestsStay, OtherSide
<1>3. ASSUME CancelCustomerSubscriptions PROVE MoneyInv'
  <2>1. /\ UNCHANGED <<customer, operation, card, subscription, customers, checkout, refund,
                       refunded, attached, preferred, handler, request>>
        /\ UNCHANGED <<superseded, late>>
        /\ \/ /\ plan' = [plan EXCEPT !.status = "canceled"]
              /\ event' = event \cup {<<"subscription", NoCard>>}
           \/ UNCHANGED <<plan, event>>
        /\ \/ erasure' = [erasure EXCEPT !.step = "done"]
           \/ erasure' = [erasure EXCEPT !.step = "requested"]
        /\ UNCHANGED bounds \/ Spend
    BY <1>3 DEF CancelCustomerSubscriptions, tables, history
  <2>2. /\ attached' \subseteq Cards /\ preferred \in attached' \cup {NoCard}
        /\ event' \subseteq Events /\ event \subseteq event'
    BY <1>1, <2>1, EventFacts DEF CardsOK
  <2>3. erasure' \in [step: {"none", "requested", "cancel", "done"}, customer: BOOLEAN]
    BY <1>1, <2>1 DEF PlainOK
  <2>4. plan' \in [status: Status, ending: BOOLEAN]
    BY <1>1, <2>1 DEF PlainOK, Status
  <2>5. calls' \in Nat /\ changes' \in 0..MaxChanges /\ faults' \in 0..MaxFaults
        /\ topic' \in {"refunds", "cards", "subscription"}
    BY <1>1, <2>1, BillingAssumption DEF PlainOK, bounds, Spend
  <2>6. PlainOK'
    BY <1>1, <2>1, <2>3, <2>4, <2>5 DEF PlainOK
  <2> QED
    BY <2>1, <2>2, <2>6, EventsGrow, SameRefunds, RequestsStay, OtherSide
<1> QED
  BY <1>2, <1>3 DEF ErasureStep

-----------------------------------------------------------------------------
(* Workers.                                                                 *)

\* What a worker may hold.
LEMMA HandlerFacts ==
    /\ Waiting \in Handler /\ Waiting.event = NoEvent
    /\ NoEvent # <<"customer", NoCard>>
    /\ \A e \in Events : /\ e # NoEvent
                         /\ e[1] \in {"setup", "detached"} => e[2] \in Cards
                         /\ e[1] \in {"setup", "detached"} => e # <<"customer", NoCard>>
                         /\ e[1] = "subscription" => e # <<"customer", NoCard>>
                         /\ e[1] \in {"setup", "detached", "customer", "subscription"}
BY DEF Waiting, Handler, NoEvent, Status, Events

\* A worker that gives up an event that is not of the default loses no news.
LEMMA NewsStays ==
    ASSUME MoneyInv, NEW h \in Handlers, handler' = [handler EXCEPT ![h] = Waiting],
           event \subseteq event',
           handler[h].event = <<"customer", NoCard>> => <<"customer", NoCard>> \in event'
    PROVE  handler' \in [Handlers -> Handler] /\ (Told => Told')
<1>1. handler \in [Handlers -> Handler]
  BY DEF MoneyInv, CardsOK
<1>2. /\ handler' \in [Handlers -> Handler]
      /\ \A g \in Handlers \ {h} : handler'[g] = handler[g]
  BY <1>1, HandlerFacts
<1>3. Told => Told'
  BY <1>2 DEF Told
<1> QED
  BY <1>2, <1>3

\* A worker takes an event, or fails.
LEMMA WorkersKeep ==
    ASSUME MoneyInv, NEW h \in Handlers
    PROVE  /\ \A e \in Events : RetrieveObject(h, e) => MoneyInv'
           /\ HandlerFails(h) => MoneyInv'
<1>1. PlainOK /\ CardsOK /\ handler \in [Handlers -> Handler]
  BY DEF MoneyInv, CardsOK
<1>2. ASSUME NEW e \in Events, RetrieveObject(h, e) PROVE MoneyInv'
  <2> DEFINE s == IF e[1] = "subscription" THEN plan.status ELSE "none"
             p == IF e[1] = "customer" THEN preferred ELSE NoCard
             v == [event |-> e, status |-> s, preferred |-> p]
  <2>1. /\ ~Busy(h) /\ e \in event /\ event' = event \ {e}
        /\ handler' = [handler EXCEPT ![h] = v]
        /\ UNCHANGED <<customer, operation, card, subscription, customers, checkout, refund,
                       refunded, attached, preferred, plan, request, erasure>>
        /\ UNCHANGED bounds /\ UNCHANGED <<superseded, late>>
    BY <1>2 DEF RetrieveObject, tables, stripe, history
  <2>2. s \in Status /\ p \in Cards \cup {NoCard}
    BY <1>1 DEF PlainOK, CardsOK, Status
  <2> HIDE DEF s, p
  <2>3. v \in Handler /\ v.event = e
    BY <2>2 DEF Handler
  <2> HIDE DEF v
  <2>4. /\ handler' \in [Handlers -> Handler] /\ handler'[h].event = e
        /\ \A g \in Handlers \ {h} : handler'[g] = handler[g]
    BY <1>1, <2>1, <2>3
  <2>5. handler[h].event = NoEvent
    BY <2>1 DEF Busy
  <2>6. Told => Told'
    <3>1. CASE <<"customer", NoCard>> \in event
      BY <2>1, <2>4, <3>1 DEF Told
    <3>2. CASE \E g \in Handlers : handler[g].event = <<"customer", NoCard>>
      <4>1. PICK g \in Handlers : handler[g].event = <<"customer", NoCard>>
        BY <3>2
      <4>2. g # h
        BY <2>5, <4>1, HandlerFacts
      <4>3. handler'[g].event = <<"customer", NoCard>>
        BY <2>4, <4>1, <4>2
      <4> QED
        BY <4>3 DEF Told
    <3> QED
      BY <3>1, <3>2 DEF Told
  <2>7. CardsOK'
    BY <1>1, <2>1, <2>4, <2>6 DEF CardsOK, DefaultIsSaved, FollowsInv, Defaults, Saved
  <2> QED
    BY <2>1, <2>7, PlainStays, SameRefunds, RequestsStay, OtherSide
<1>3. ASSUME HandlerFails(h) PROVE MoneyInv'
  <2>1. /\ Busy(h) /\ Spend /\ event' = event \cup {handler[h].event}
        /\ handler' = [handler EXCEPT ![h] = Waiting]
        /\ UNCHANGED <<customer, operation, card, subscription, customers, checkout, refund,
                       refunded, attached, preferred, plan, request, erasure>>
        /\ UNCHANGED <<superseded, late>>
    BY <1>3 DEF HandlerFails, tables, stripe, history
  <2>2. event' \subseteq Events
    BY <1>1, <2>1 DEF Busy, CardsOK, Handler
  <2>3. handler' \in [Handlers -> Handler] /\ (Told => Told')
    BY <2>1, NewsStays
  <2>4. CardsOK'
    BY <1>1, <2>1, <2>2, <2>3 DEF CardsOK, DefaultIsSaved, FollowsInv, Defaults, Saved
  <2>5. PlainOK'
    BY <1>1, <2>1, BillingAssumption DEF PlainOK, Spend
  <2> QED
    BY <2>1, <2>4, <2>5, SameRefunds, RequestsStay, OtherSide
<1> QED
  BY <1>2, <1>3

\* The card of a setup intent is saved again.
LEMMA SetupProjected ==
    ASSUME MoneyInv, NEW h \in Handlers, ProjectEvent(h), handler[h].event[1] = "setup"
    PROVE  CardsOK'
<1> DEFINE c == handler[h].event[2]
           v == [card[c] EXCEPT !.saved = TRUE]
<1>1. /\ card \in [Cards -> Card] /\ superseded \in BOOLEAN /\ Defaults \subseteq Saved
      /\ handler[h].event \in Events
  BY DEF MoneyInv, CardsOK, DefaultIsSaved, ProjectEvent, Busy, Handler
<1>2. c \in Cards /\ handler[h].event # <<"customer", NoCard>>
  BY <1>1, HandlerFacts
<1>3. /\ card' = [card EXCEPT ![c] = v]
      /\ superseded' = (superseded \/ (preferred = c /\ ~card[c].saved))
      /\ handler' = [handler EXCEPT ![h] = Waiting]
      /\ UNCHANGED <<attached, preferred, event>>
  BY DEF ProjectEvent, ProjectAttachedPaymentMethod, stripe
<1>4. v \in Card /\ v.saved = TRUE /\ v.default = card[c].default
  BY <1>1, <1>2 DEF Card
<1> HIDE DEF c, v
<1>5. card' \in [Cards -> Card] /\ Defaults' = Defaults /\ Saved' = Saved \cup {c}
  BY <1>1, <1>2, <1>3, <1>4 DEF Defaults, Saved
<1>6. handler' \in [Handlers -> Handler] /\ (Told => Told')
  BY <1>2, <1>3, NewsStays
<1>7. superseded' \in BOOLEAN /\ (superseded => superseded')
  BY <1>1, <1>3
<1>8. superseded' \/ (Defaults = {preferred} \cap Saved => Defaults' = {preferred} \cap Saved')
  <2>1. card[c].saved <=> c \in Saved
    BY <1>2 DEF Saved
  <2>2. superseded' <=> (superseded \/ (preferred = c /\ c \notin Saved))
    BY <1>3, <2>1
  <2> QED
    BY <1>5, <2>2
<1> QED
  BY <1>1, <1>3, <1>5, <1>6, <1>7, <1>8, CardsMove

\* The default that was retrieved is written.
LEMMA CustomerProjected ==
    ASSUME MoneyInv, NEW h \in Handlers, ProjectEvent(h), handler[h].event[1] = "customer"
    PROVE  CardsOK'
<1> DEFINE p == handler[h].preferred
<1>1. card \in [Cards -> Card] /\ superseded \in BOOLEAN /\ handler \in [Handlers -> Handler]
  BY DEF MoneyInv, CardsOK
<1>2. /\ card' = [c \in Cards |-> [card[c] EXCEPT !.default = c = p /\ card[c].saved]]
      /\ superseded' = (superseded \/ preferred # p)
      /\ handler' = [handler EXCEPT ![h] = Waiting]
      /\ UNCHANGED <<attached, preferred, event>>
  BY DEF ProjectEvent, ProjectCustomer, stripe
<1> HIDE DEF p
<1>3. ASSUME NEW c \in Cards
      PROVE  /\ card'[c] \in Card /\ card'[c].saved = card[c].saved
             /\ card'[c].default = (c = p /\ card[c].saved)
  <2> DEFINE x == (c = p /\ card[c].saved)
  <2>1. x \in BOOLEAN /\ card[c] \in Card
    BY <1>1
  <2>2. card'[c] = [card[c] EXCEPT !.default = x]
    BY <1>2
  <2> HIDE DEF x
  <2>3. card'[c] \in Card /\ card'[c].saved = card[c].saved /\ card'[c].default = x
    BY <2>1, <2>2 DEF Card
  <2> QED
    BY <2>3 DEF x
<1>4. card' \in [Cards -> Card] /\ Saved' = Saved
  BY <1>2, <1>3 DEF Saved
<1>5. Defaults' = {p} \cap Saved
  <2>1. \A c \in Cards : card'[c].default <=> (c = p /\ card[c].saved)
    BY <1>3
  <2> QED
    BY <2>1 DEF Defaults, Saved
<1>6. superseded' \in BOOLEAN /\ (superseded => superseded') /\ (superseded' \/ preferred = p)
  BY <1>1, <1>2
<1>7. handler' \in [Handlers -> Handler]
  BY <1>1, <1>2, HandlerFacts
<1> QED
  BY <1>2, <1>4, <1>5, <1>6, <1>7, CardsMove

\* A worker projects an event.
LEMMA ProjectKeeps ==
    ASSUME MoneyInv, NEW h \in Handlers, ProjectEvent(h)
    PROVE  MoneyInv'
<1> DEFINE e == handler[h].event
<1>1. /\ PlainOK /\ CardsOK /\ handler[h] \in Handler
      /\ e \in Events /\ e[1] \in {"setup", "detached", "customer", "subscription"}
  BY HandlerFacts DEF MoneyInv, CardsOK, ProjectEvent, Busy, Handler
<1>2. /\ UNCHANGED <<customer, operation, customers, checkout, refund, refunded, attached,
                     preferred, plan, event, request, erasure>>
      /\ UNCHANGED bounds /\ late' = late /\ handler' = [handler EXCEPT ![h] = Waiting]
  BY DEF ProjectEvent, stripe
<1>3. subscription' \in Status
  BY <1>1 DEF ProjectEvent, ProjectSubscription, PlainOK, Handler
<1>4. PlainOK'
  BY <1>1, <1>2, <1>3 DEF PlainOK, bounds
<1>5. CardsOK'
  <2>1. CASE e[1] = "setup"
    BY <2>1, SetupProjected
  <2>2. CASE e[1] = "customer"
    BY <2>2, CustomerProjected
  <2>3. CASE e[1] = "detached"
    <3>1. e[2] \in Cards /\ e # <<"customer", NoCard>>
      BY <1>1, <2>3, HandlerFacts
    <3>2. card' = [card EXCEPT ![e[2]] = IF @.saved THEN Gone ELSE @]
      BY <2>3, <3>1 DEF ProjectEvent, ProjectDetached
    <3>3. superseded' = superseded
      BY <1>1, <2>3 DEF ProjectEvent, CardsOK
    <3>4. handler' \in [Handlers -> Handler] /\ (Told => Told')
      BY <1>2, <3>1, NewsStays
    <3> QED
      BY <1>2, <3>1, <3>2, <3>3, <3>4, CardGone
  <2>4. CASE e[1] = "subscription"
    <3>1. e # <<"customer", NoCard>>
      BY <1>1, <2>4, HandlerFacts
    <3>2. card' = card
      BY <2>4 DEF ProjectEvent
    <3>3. superseded' = superseded
      BY <1>1, <2>4 DEF ProjectEvent, CardsOK
    <3>4. handler' \in [Handlers -> Handler] /\ (Told => Told')
      BY <1>2, <3>1, NewsStays
    <3>5. UNCHANGED <<Defaults, Saved>>
      BY <3>2 DEF Defaults, Saved
    <3> QED
      BY <1>1, <1>2, <3>2, <3>3, <3>4, <3>5, CardsMove DEF CardsOK, DefaultIsSaved
  <2> QED
    BY <1>1, <2>1, <2>2, <2>3, <2>4
<1> QED
  BY <1>2, <1>4, <1>5, SameRefunds, RequestsStay, OtherSide


-----------------------------------------------------------------------------
(* The theorems.                                                            *)

\* The invariant holds in the beginning.
LEMMA MoneyInit == Init => MoneyInv
<1> SUFFICES ASSUME Init PROVE MoneyInv
  OBVIOUS
<1>1. PICK known \in BOOLEAN :
        /\ topic \in {"refunds", "cards", "subscription"}
        /\ customer = IF known THEN 1 ELSE 0
        /\ operation = [k \in Keys |-> NoOperation]
        /\ card = [c \in Cards |-> [saved |-> known, default |-> FALSE]]
        /\ subscription = IF known THEN "active" ELSE "none"
        /\ customers = customer
        /\ refund = [k \in Keys |-> <<>>] /\ refunded = 0
        /\ attached = IF known THEN Cards ELSE {}
        /\ preferred = NoCard
        /\ plan = [status |-> subscription, ending |-> FALSE]
        /\ checkout = FALSE
        /\ event = {} /\ handler = [h \in Handlers |-> Waiting]
        /\ request = [r \in Requests |-> Idle]
        /\ erasure = [step |-> "none", customer |-> FALSE]
        /\ calls = 0 /\ changes = 0 /\ faults = 0
        /\ superseded = FALSE /\ late = FALSE
  BY DEF Init
<1>2. PlainOK
  <2>1. subscription \in Status /\ customer \in {0, 1}
    BY <1>1 DEF Status, Live
  <2>2. changes \in 0..MaxChanges /\ faults \in 0..MaxFaults
    BY <1>1, BillingAssumption
  <2> QED
    BY <1>1, <2>1, <2>2 DEF PlainOK
<1>3. CardsOK
  <2>1. Defaults = {} /\ card \in [Cards -> Card]
    BY <1>1 DEF Defaults, Card
  <2>2. {preferred} \cap Saved = {}
    BY <1>1, BillingAssumption DEF Saved
  <2>3. attached \subseteq Cards /\ preferred \in attached \cup {NoCard}
        /\ event \subseteq Events /\ superseded \in BOOLEAN
    BY <1>1
  <2>4. handler \in [Handlers -> Handler]
    BY <1>1, HandlerFacts
  <2> QED
    BY <2>1, <2>2, <2>3, <2>4 DEF CardsOK, DefaultIsSaved, FollowsInv
<1>4. RefundsOK
  <2>1. /\ NoOperation \in Operation /\ NoOperation.exists = FALSE
        /\ NoOperation.requested = 0 /\ NoOperation.refund = 0
    BY BillingAssumption DEF NoOperation, Operation, Inputs, Amounts
  <2>2. refunded \in Amounts /\ <<>> \in RefundList
    BY <1>1, BillingAssumption DEF Amounts, RefundList
  <2>3. ASSUME NEW k \in Keys PROVE KeyOK(k)
    BY <1>1, <2>1, <2>2 DEF KeyOK
  <2> QED
    BY <1>1, <2>1, <2>2, <2>3 DEF RefundsOK
<1>5. RequestsOK
  <2>1. Idle \in Request /\ Idle.step = "idle"
    BY DEF Idle, Request, Inputs
  <2>2. ASSUME NEW r \in Requests PROVE RequestOK(r)
    BY <1>1, <2>1 DEF RequestOK
  <2> QED
    BY <1>1, <2>1, <2>2 DEF RequestsOK
<1> QED
  BY <1>2, <1>3, <1>4, <1>5 DEF MoneyInv

\* No step breaks it.
LEMMA MoneyStep == MoneyInv /\ [Next]_vars => MoneyInv'
<1> SUFFICES ASSUME MoneyInv, [Next]_vars PROVE MoneyInv'
  OBVIOUS
<1>1. ASSUME NEW r \in Requests, Refunding(r) PROVE MoneyInv'
  BY <1>1, TargetKeeps, OperationsKeep, StripeKeeps DEF Refunding
<1>2. ASSUME NEW r \in Requests, Saving(r) PROVE MoneyInv'
  BY <1>2, CallsKeep, CustomerKeeps, CardRequestsKeep DEF Saving
<1>3. ASSUME NEW r \in Requests, Subscribing(r) \/ Deleting(r) \/ Crash(r) PROVE MoneyInv'
  BY <1>3, CallsKeep, PlainRequestsKeep DEF Subscribing, Deleting
<1>4. ASSUME NEW h \in Handlers,
             (\E e \in Events : RetrieveObject(h, e)) \/ ProjectEvent(h) \/ HandlerFails(h)
      PROVE  MoneyInv'
  BY <1>4, WorkersKeep, ProjectKeeps
<1>5. CASE UNCHANGED vars
  <2>1. /\ UNCHANGED <<customer, customers, subscription, plan, checkout, erasure>>
        /\ UNCHANGED bounds /\ UNCHANGED <<superseded, late>>
        /\ UNCHANGED <<card, attached, preferred, event, handler>>
        /\ UNCHANGED <<operation, refund, refunded>> /\ UNCHANGED request
    BY <1>5 DEF vars, tables, stripe, history
  <2> QED
    BY <2>1, PlainStays, CardsStay, SameRefunds, RequestsStay, OtherSide
<1> QED
  BY <1>1, <1>2, <1>3, <1>4, <1>5, AtStripeKeeps, ErasureKeeps DEF Next, HandlerStep

\* It contains the invariants of the run.
LEMMA MoneyImplies == MoneyInv => BillingInv /\ RefundOnce
<1> SUFFICES ASSUME MoneyInv PROVE BillingInv /\ RefundOnce
  OBVIOUS
<1>1. PlainOK /\ CardsOK /\ RefundsOK /\ RequestsOK
  BY DEF MoneyInv
<1>2. ASSUME NEW k \in Keys
      PROVE  /\ Len(refund[k]) <= 1
             /\ operation[k].refund \in 0..Len(refund[k])
             /\ \A i \in DOMAIN refund[k] :
                   /\ refund[k][i] \in Amounts \ {0}
                   /\ operation[k].exists
                   /\ refund[k][i] <= operation[k].requested
                   /\ operation[k].requested <= RefundLimit
  <2>1. KeyOK(k) /\ refund[k] \in RefundList
    BY <1>1 DEF RefundsOK
  <2>2. CASE refund[k] = <<>>
    BY <2>1, <2>2 DEF KeyOK
  <2>3. CASE \E a \in Amounts \ {0} : refund[k] = <<a>>
    <3>1. PICK a \in Amounts \ {0} : refund[k] = <<a>>
      BY <2>3
    <3>2. Len(refund[k]) = 1 /\ DOMAIN refund[k] = {1} /\ refund[k][1] = a /\ refund[k] # <<>>
      BY <3>1
    <3>3. operation[k].refund \in {0, 1}
      BY <2>1 DEF KeyOK
    <3>4. operation[k].exists /\ a <= operation[k].requested
          /\ operation[k].requested <= RefundLimit
      BY <2>1, <3>2 DEF KeyOK
    <3> QED
      BY <3>2, <3>3, <3>4
  <2> QED
    BY <2>1, <2>2, <2>3 DEF RefundList
<1>3. RefundOnce
  BY <1>2 DEF RefundOnce
<1>4. TypeOK
  BY <1>1, <1>2 DEF TypeOK, PlainOK, CardsOK, RefundsOK, RequestsOK
<1>5. Quiet => ~Told
  BY HandlerFacts DEF Quiet, Busy, Told
<1>6. DefaultIsSaved /\ DefaultFollowsStripe
  BY <1>1, <1>5 DEF CardsOK, FollowsInv, DefaultFollowsStripe
<1> QED
  BY <1>3, <1>4, <1>6 DEF BillingInv

\* Types hold, a default card is always a saved one, and once everything has
\* been processed the rows name the default Stripe has, whatever the order of
\* requests, portal changes, detachments, events and failures of workers, unless
\* a default was written that had been replaced meanwhile.
THEOREM BillingTheorem == Spec => []BillingInv
<1>1. Spec => []MoneyInv
  BY MoneyInit, MoneyStep, PTL DEF Spec
<1> QED
  BY <1>1, MoneyImplies, PTL

\* A business key refunds once at most, within the amount the operation recorded
\* and the policy allowed (createRefund), through lost answers, crashes, retries
\* and concurrent requests under the same key.
THEOREM RefundTheorem == Spec => []RefundOnce
<1>1. Spec => []MoneyInv
  BY MoneyInit, MoneyStep, PTL DEF Spec
<1> QED
  BY <1>1, MoneyImplies, PTL

\* The customer in the user's row is never replaced by another (ensureCustomer),
\* although any number of requests may create it at the same time.
THEOREM CustomerTheorem == Spec => CustomerStable
<1>1. Spec => []MoneyInv
  BY MoneyInit, MoneyStep, PTL DEF Spec
<1>2. MoneyInv /\ MoneyInv' => (customer # 0 => customer' \in {0, customer})
  BY DEF MoneyInv, PlainOK
<1> QED
  BY <1>1, <1>2, PTL DEF CustomerStable

=============================================================================
