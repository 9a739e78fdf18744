-------------------------- MODULE IdempotencyProofs --------------------------
(***************************************************************************)
(* Proofs about runIdempotent and runIdempotentTransaction, for any number   *)
(* of callers, requests, rows and crashes, and any bound of the clock.        *)
(***************************************************************************)
EXTENDS IdempotencyLease, IdempotentTransaction, TLAPS

-----------------------------------------------------------------------------
(* runIdempotent.                                                           *)


(* Type correctness.                                                        *)

\* The id of the next row stays below the bound.
LEMMA NextId == ASSUME NEW n \in Ids, n < MaxRecords PROVE n + 1 \in Ids
BY BoundAssumption DEF Ids

\* Moving a call that is in flight, ending it, and reading the row's id into
\* it keep the calls' types.
LEMMA CallMoves ==
    ASSUME CallsOK, NEW c \in Callers
    PROVE  /\ Return(c) => CallsOK'
           /\ \A s \in {"create", "operate", "release"} :
                 ~At(c, "idle") /\ Goto(c, s) => CallsOK'
           /\ \A s \in {"purge", "acquire", "operate"}, i \in Ids :
                 (/\ ~At(c, "idle")
                  /\ call' = [call EXCEPT ![c] = [@ EXCEPT !.step = s, !.id = i]])
                    => CallsOK'
           /\ \A answer \in Responses :
                 (/\ ~At(c, "idle")
                  /\ call' = [call EXCEPT ![c] = [@ EXCEPT !.step = "save",
                                                  !.response = answer]])
                    => CallsOK'
<1>1. Return(c) => CallsOK'
  BY BoundAssumption DEF CallsOK, Return, Calls, NoCall, At, Ids
<1>2. ASSUME NEW s \in {"create", "operate", "release"},
             ~At(c, "idle"), Goto(c, s)
      PROVE  CallsOK'
  BY <1>2 DEF CallsOK, Goto, Calls, At
<1>3. ASSUME NEW s \in {"purge", "acquire", "operate"}, NEW i \in Ids,
             ~At(c, "idle"),
             call' = [call EXCEPT ![c] = [@ EXCEPT !.step = s, !.id = i]]
      PROVE  CallsOK'
  BY ZenonT(40), <1>3 DEF CallsOK, Calls, At
<1>4. ASSUME NEW answer \in Responses, ~At(c, "idle"),
             call' = [call EXCEPT ![c] = [@ EXCEPT !.step = "save",
                                                   !.response = answer]]
      PROVE  CallsOK'
  BY ZenonT(40), <1>4 DEF CallsOK, Calls, At
<1>5. QED BY <1>1, <1>2, <1>3, <1>4

\* The initial state is typed.
LEMMA TypeInit == Init => TypeOK
<1>1. Init => ProviderOK
  BY DEF Init, ProviderOK
<1>2. QED
  BY <1>1, NoneAssumption, BoundAssumption
     DEF Init, TypeOK, CallsOK, NoCall, NoRecord, Calls, IdempotencyRecord,
         Remembered, Ids, At

\* Every step keeps the types of the row, of the callers and of the histories.
LEMMA TypeStep == ASSUME TypeOK, [Next]_vars PROVE TypeOK'
<1>0. ProviderOK'
  BY DEF TypeOK, ProviderOK, Next, vars
<1> USE NoneAssumption, BoundAssumption, <1>0
<1>1. CASE UNCHANGED vars
  BY <1>1 DEF TypeOK, vars, history, CallsOK, At
<1>2. ASSUME NEW c \in Callers, NEW request \in Requests, NEW token \in Tokens,
             Begin(c, request, token)
      PROVE  TypeOK'
  <2>1. 0 \in Ids
    BY DEF Ids
  <2>2. CallsOK'
    BY <1>2, <2>1 DEF TypeOK, Begin, CallsOK, Calls, At
  <2>3. QED BY <1>2, <2>2 DEF TypeOK, Begin, history
<1>3. record.id \in Ids /\ 0 \in Ids
  BY DEF TypeOK, IdempotencyRecord, Ids
<1>4. NoRecord \in IdempotencyRecord
  BY <1>3 DEF IdempotencyRecord, NoRecord
<1>5. ASSUME NEW c \in Callers, CallerStep(c) PROVE TypeOK'
  <2> USE CallMoves
  <2>1. CASE FindNothing(c)
    BY <2>1 DEF TypeOK, FindNothing, history, At
  <2>2. CASE FindExpired(c)
    BY <1>3, <2>2 DEF TypeOK, FindExpired, history, At
  <2>3. CASE FindDifferentRequest(c)
    BY <2>3 DEF TypeOK, FindDifferentRequest, history
  <2>4. CASE Replay(c)
    <3>1. <<record.id, record.response>> \in Ids \X Responses
      BY <2>4 DEF TypeOK, Replay, IdempotencyRecord, Completed, Responses
    <3>2. QED BY <2>4, <3>1 DEF TypeOK, Replay
  <2>5. CASE FindUnfinished(c)
    BY <1>3, <2>5 DEF TypeOK, FindUnfinished, history, At
  <2>6. CASE PurgeExpired(c)
    BY <1>4, <2>6 DEF TypeOK, PurgeExpired, history, At
  <2>7. CASE Acquire(c)
    <3>1. record' \in IdempotencyRecord
      BY <2>7 DEF TypeOK, CallsOK, Acquire, IdempotencyRecord, At
    <3>2. QED BY <2>7, <3>1 DEF TypeOK, Acquire, history, At
  <2>8. CASE AcquireConflict(c)
    BY <2>8 DEF TypeOK, AcquireConflict, history
  <2>9. CASE Create(c)
    <3>1. lastId + 1 \in Ids
      <4>1. lastId \in Ids /\ lastId < MaxRecords
        BY <2>9 DEF TypeOK, Create
      <4>2. QED BY <4>1, NextId
    <3>2. record' \in IdempotencyRecord
      BY <2>9, <3>1 DEF TypeOK, CallsOK, Create, IdempotencyRecord, At
    <3>3. QED BY <2>9, <3>1, <3>2 DEF TypeOK, Create, history, At
  <2>10. CASE CreateConflict(c)
    BY <2>10 DEF TypeOK, CreateConflict, history
  <2>11. ASSUME At(c, "operate"), Perform(c)
         PROVE  /\ provider' \in Remembered
                /\ effects' \subseteq
                      [id: Ids, request: Requests, response: Responses]
                /\ provider' # Nothing
    <3>1. /\ call[c].request \in Requests /\ call[c].token \in Tokens
          /\ call[c].id \in Ids
      BY <2>11 DEF TypeOK, CallsOK, Calls, At
    <3>2. CASE Recalls
      BY <2>11, <3>2 DEF TypeOK, Perform, Recalls
    <3>3. CASE ~Recalls
      <4>1. provider' = [request |-> call[c].request, response |-> call[c].token]
        BY <2>11, <3>3 DEF Perform
      <4>2. provider' # Nothing
        BY <3>1, <4>1 DEF Nothing
      <4>3. provider' \in Remembered
        BY <3>1, <4>1 DEF Remembered, Responses
      <4>4. [id |-> call[c].id, request |-> call[c].request,
             response |-> call[c].token]
                \in [id: Ids, request: Requests, response: Responses]
        BY <3>1 DEF Responses
      <4>5. effects' = effects \cup {[id |-> call[c].id,
                                     request |-> call[c].request,
                                     response |-> call[c].token]}
        BY <2>11, <3>3 DEF Perform
      <4>6. QED BY <4>2, <4>3, <4>4, <4>5 DEF TypeOK
    <3>4. QED BY <3>2, <3>3
  <2>12. CASE OperationSucceeds(c)
    <3>1. provider'.response \in Responses
      BY <2>11, <2>12 DEF OperationSucceeds, Remembered
    <3>2. CallsOK'
      BY <2>12, <3>1 DEF TypeOK, OperationSucceeds, At
    <3>3. QED BY <2>11, <2>12, <3>2 DEF TypeOK, OperationSucceeds
  <2>13. CASE OperationFails(c)
    BY <2>11, <2>13 DEF TypeOK, OperationFails, At
  <2>14. ASSUME At(c, "save"), StoreResponse(c)
         PROVE  /\ record' \in IdempotencyRecord
                /\ <<call[c].id, call[c].response>> \in Ids \X Responses
                /\ saved' \subseteq (Ids \X Responses)
    <3>1. call[c].response \in Responses /\ call[c].id \in Ids
      BY <2>14 DEF TypeOK, CallsOK, Calls
    <3>2. record' \in IdempotencyRecord
      BY <2>14, <3>1 DEF TypeOK, StoreResponse, IdempotencyRecord
    <3>3. saved' = saved \cup {<<call[c].id, call[c].response>>}
      BY <2>14 DEF StoreResponse
    <3>4. <<call[c].id, call[c].response>> \in Ids \X Responses
      BY <3>1
    <3>5. QED BY <3>2, <3>3, <3>4 DEF TypeOK
  <2>15. CASE Save(c)
    BY <2>14, <2>15 DEF TypeOK, Save
  <2>16. CASE SaveUnacknowledged(c)
    BY <2>14, <2>16 DEF TypeOK, SaveUnacknowledged, At
  <2>17. CASE SaveFails(c)
    BY <2>17 DEF TypeOK, SaveFails, history, At
  <2>18. CASE Release(c)
    <3>1. record' \in IdempotencyRecord
      BY <2>18 DEF TypeOK, Release, IdempotencyRecord
    <3>2. QED BY <2>18, <3>1 DEF TypeOK, Release, history
  <2>19. QED
    BY <1>5, <2>1, <2>2, <2>3, <2>4, <2>5, <2>6, <2>7, <2>8, <2>9, <2>10,
       <2>12, <2>13, <2>15, <2>16, <2>17, <2>18 DEF CallerStep
<1>6. ASSUME NEW c \in Callers, Crash(c) PROVE TypeOK'
  <2>1. crashes' \in 0..MaxCrashes
    BY <1>6 DEF TypeOK, Crash
  <2>2. QED BY <1>6, <2>1, CallMoves DEF TypeOK, Crash, history
<1>7. CASE LapseLease
  BY <1>7 DEF TypeOK, LapseLease, history, IdempotencyRecord, CallsOK, At
<1>8. CASE PassExpiry
  BY <1>8 DEF TypeOK, PassExpiry, history, IdempotencyRecord, CallsOK, At
<1>9. CASE RetentionPurge
  BY <1>4, <1>9 DEF TypeOK, RetentionPurge, history, CallsOK, At
<1>10. CASE EraseAccount
  BY <1>3, <1>4, <1>10 DEF TypeOK, EraseAccount, CallsOK, At
<1>11. CASE ProviderForgets
  BY <1>11 DEF TypeOK, ProviderForgets, history, Remembered, CallsOK, At
<1>12. QED
  BY <1>1, <1>2, <1>5, <1>6, <1>7, <1>8, <1>9, <1>10, <1>11 DEF Next, Step

\* The row, the callers' local state and the histories always have their types.
THEOREM TypeCorrect == Spec => []TypeOK
<1>1. Init => TypeOK
  BY TypeInit
<1>2. TypeOK /\ [Next]_vars => TypeOK'
  BY TypeStep
<1>3. QED BY <1>1, <1>2, PTL DEF Spec

-----------------------------------------------------------------------------
(* What a step may do to the row and to a call.                             *)

\* The row stays the same row, with its request and its response.
RowKept ==
    /\ record'.id = record.id
    /\ record'.request = record.request
    /\ record'.response = record.response
    /\ record.id = 0 => record' = record
    /\ Completed => record'.lease = record.lease
    /\ UNCHANGED <<lastId, saved, erased>>

\* The lease holder stores its response in the unfinished row.
RowSaved(c) ==
    /\ At(c, "save")
    /\ record.id = call[c].id /\ ~Completed
    /\ record'.id = record.id
    /\ record'.request = record.request
    /\ record'.response = call[c].response
    /\ record'.lease = "none"
    /\ saved' = saved \cup {<<call[c].id, call[c].response>>}
    /\ UNCHANGED <<lastId, erased>>

\* A new row is bound to its creator's request.
RowCreated(c) ==
    /\ At(c, "create")
    /\ record.id = 0
    /\ lastId' = lastId + 1
    /\ record'.id = lastId + 1
    /\ record'.request = call[c].request
    /\ record'.response = NoToken
    /\ record'.lease = "held"
    /\ UNCHANGED <<saved, erased>>

\* The row is deleted: it is complete, or goes with the account.
RowDropped ==
    /\ record.id # 0
    /\ record' = NoRecord
    /\ \/ Completed /\ erased' = erased
       \/ erased' = erased \cup {record.id}
    /\ UNCHANGED <<lastId, saved>>

RowMoves ==
    \/ RowKept /\ answers' = answers
    \/ /\ RowKept /\ record.id # 0 /\ Completed
       /\ answers' = answers \cup {<<record.id, record.response>>}
    \/ \E c \in Callers :
          /\ RowSaved(c)
          /\ \/ answers' = answers
             \/ answers' = answers \cup {<<call[c].id, call[c].response>>}
    \/ (\E c \in Callers : RowCreated(c)) /\ answers' = answers
    \/ RowDropped /\ answers' = answers

\* Effects come from calls that operate, and leave the row alone.
EffectMoves ==
    \/ effects' = effects
    \/ \E c \in Callers :
          /\ At(c, "operate")
          /\ effects' = effects \cup {[id |-> call[c].id,
                                       request |-> call[c].request,
                                       response |-> call[c].token]}
          /\ dedupes => provider = Nothing /\ provider' # Nothing
          /\ UNCHANGED <<record, lastId, saved, erased>>

\* The steps at which a call knows its row.
Knowing == {"acquire", "operate", "save", "release"}

CallMovesOn(c) ==
    call'[c].step \in Knowing =>
        \/ /\ call[c].step \in Knowing
           /\ call'[c].id = call[c].id
           /\ call'[c].request = call[c].request
           /\ call'[c].step = "acquire" => At(c, "acquire")
           /\ call'[c].step = "operate" =>
                 \/ At(c, "operate")
                 \/ /\ At(c, "acquire") /\ record.id = call[c].id
                    /\ ~Completed
                    /\ RowKept /\ effects' = effects
                    /\ provider' = provider
        \/ /\ call'[c].step = "acquire"
           /\ record.id # 0 /\ call'[c].id = record.id
           /\ call'[c].request = record.request
           /\ RowKept /\ effects' = effects
        \/ /\ RowCreated(c) /\ call'[c].step = "operate"
           /\ call'[c].id = lastId + 1
           /\ call'[c].request = call[c].request
           /\ effects' = effects

\* No row has id 0, a complete row is not leased, and a call that knows its
\* row knows a row that was created.
RowInv ==
    /\ record.id = 0 => record = NoRecord
    /\ Completed => record.lease = "none"
    /\ record.id <= lastId
    /\ \A c \in Callers :
          call[c].step \in Knowing => call[c].id # 0 /\ call[c].id <= lastId

\* Every step moves the row in one of these ways.
LEMMA RowStep == ASSUME TypeOK, RowInv, [Next]_vars PROVE RowMoves
<1>1. CASE UNCHANGED <<record, lastId, saved, erased, answers>>
  BY <1>1 DEF RowMoves, RowKept
<1>2. ASSUME NEW c \in Callers, CallerStep(c) PROVE RowMoves
  <2>1. CASE Replay(c)
    BY <2>1 DEF Replay, RowMoves, RowKept, RowExists, Completed
  <2>2. CASE PurgeExpired(c)
    <3>1. CASE UNCHANGED record
      BY <2>2, <3>1 DEF PurgeExpired, RowMoves, RowKept, history
    <3>2. CASE record' # record
      <4>1. record' = NoRecord /\ Completed
        BY <2>2, <3>2 DEF PurgeExpired
      <4>2. record.id # 0
        BY <3>2, <4>1 DEF RowInv
      <4>3. QED BY <2>2, <4>1, <4>2 DEF PurgeExpired, RowMoves, RowDropped, history
    <3>3. QED BY <3>1, <3>2
  <2>3. CASE Acquire(c)
    <3>1. record.id # 0 /\ ~Completed
      BY <2>3 DEF Acquire, Acquirable, RowInv, Knowing, At
    <3>2. /\ record'.id = record.id /\ record'.request = record.request
          /\ record'.response = record.response
      BY <2>3 DEF Acquire, TypeOK, IdempotencyRecord
    <3>3. QED BY <2>3, <3>1, <3>2 DEF Acquire, RowMoves, RowKept, history
  <2>4. CASE Create(c)
    BY <2>4 DEF Create, RowMoves, RowCreated, RowExists, history
  <2>5. ASSUME At(c, "save"), HoldsLease(c), StoreResponse(c),
               UNCHANGED <<lastId, erased>>
        PROVE  RowSaved(c)
    BY <2>5 DEF RowSaved, HoldsLease, StoreResponse, TypeOK, IdempotencyRecord
  <2>6. CASE Save(c)
    BY <2>5, <2>6 DEF Save, RowMoves
  <2>7. CASE SaveUnacknowledged(c)
    BY <2>5, <2>7 DEF SaveUnacknowledged, RowMoves
  <2>8. CASE Release(c)
    <3>1. CASE ~HoldsLease(c)
      BY <2>8, <3>1 DEF Release, RowMoves, RowKept, history
    <3>2. CASE HoldsLease(c)
      <4>1. record.id # 0 /\ ~Completed
        BY <2>8, <3>2 DEF Release, HoldsLease, RowInv, Knowing, At
      <4>2. /\ record'.id = record.id /\ record'.request = record.request
            /\ record'.response = record.response
        BY <2>8, <3>2 DEF Release, TypeOK, IdempotencyRecord
      <4>3. QED BY <2>8, <4>1, <4>2 DEF Release, RowMoves, RowKept, history
    <3>3. QED BY <3>1, <3>2
  <2>9. QED
    BY <1>1, <1>2, <2>1, <2>2, <2>3, <2>4, <2>6, <2>7, <2>8
       DEF CallerStep, FindNothing, FindExpired, FindDifferentRequest,
           FindUnfinished, AcquireConflict, CreateConflict, OperationSucceeds,
           OperationFails, SaveFails, history
<1>3. CASE LapseLease
  <2>1. record.id # 0 /\ ~Completed
    BY <1>3 DEF LapseLease, RowInv, NoRecord
  <2>2. /\ record'.id = record.id /\ record'.request = record.request
        /\ record'.response = record.response
    BY <1>3 DEF LapseLease, TypeOK, IdempotencyRecord
  <2>3. QED BY <1>3, <2>1, <2>2 DEF LapseLease, RowMoves, RowKept, history
<1>4. CASE PassExpiry
  BY <1>4 DEF PassExpiry, RowExists, TypeOK, IdempotencyRecord, RowMoves,
             RowKept, history
<1>5. CASE RetentionPurge
  BY <1>5 DEF RetentionPurge, RowMoves, RowDropped, RowExists, history
<1>6. CASE EraseAccount
  BY <1>6 DEF EraseAccount, RowMoves, RowDropped, RowExists
<1>7. QED
  BY <1>1, <1>2, <1>3, <1>4, <1>5, <1>6
     DEF Next, Step, vars, history, Begin, Crash, ProviderForgets

\* Every step moves the effects in one of these ways.
LEMMA EffectStep == ASSUME TypeOK, [Next]_vars PROVE EffectMoves
<1>1. CASE UNCHANGED effects
  BY <1>1 DEF EffectMoves
<1>2. ASSUME NEW c \in Callers, OperationSucceeds(c) \/ OperationFails(c)
      PROVE  EffectMoves
  <2>1. At(c, "operate") /\ UNCHANGED <<record, lastId, saved, erased>>
    BY <1>2 DEF OperationSucceeds, OperationFails
  <2>2. CASE effects' # effects
    <3>1. Perform(c) /\ ~Recalls
      BY <1>2, <2>2 DEF OperationSucceeds, OperationFails, Perform
    <3>2. provider' # Nothing
      BY <2>1, <3>1, NoneAssumption
         DEF Perform, Nothing, TypeOK, CallsOK, At
    <3>3. QED BY <2>1, <3>1, <3>2 DEF EffectMoves, Perform, Recalls
  <2>3. QED BY <1>1, <2>2
<1>3. QED
  BY <1>1, <1>2
     DEF Next, Step, vars, history, Begin, Crash, ProviderForgets, LapseLease,
         PassExpiry, RetentionPurge, EraseAccount, CallerStep, FindNothing,
         FindExpired, FindDifferentRequest, Replay, FindUnfinished,
         PurgeExpired, Acquire, AcquireConflict, Create, CreateConflict, Save,
         SaveUnacknowledged, SaveFails, Release

\* Every step moves every call in one of these ways.
LEMMA CallStep ==
    ASSUME TypeOK, RowInv, [Next]_vars, NEW d \in Callers
    PROVE  CallMovesOn(d)
<1>1. ASSUME call'[d] = call[d] PROVE CallMovesOn(d)
  BY <1>1 DEF CallMovesOn, At
<1>2. ASSUME NEW c \in Callers, Return(c) PROVE CallMovesOn(d)
  BY <1>1, <1>2 DEF Return, NoCall, CallMovesOn, Knowing, TypeOK, CallsOK
<1>3. ASSUME NEW c \in Callers, NEW s, Goto(c, s), s \in {"create", "release"},
             call[c].step \in {"find", "purge"} => s = "create",
             call[c].step \in Knowing \cup {"find", "purge"}
      PROVE  CallMovesOn(d)
  BY <1>1, <1>3 DEF Goto, CallMovesOn, Knowing, TypeOK, CallsOK, Calls
<1>4. ASSUME NEW c \in Callers, CallerStep(c) PROVE CallMovesOn(d)
  <2>1. CASE FindNothing(c)
    BY <1>3, <2>1 DEF FindNothing, At
  <2>2. CASE FindExpired(c)
    BY <1>1, <2>2 DEF FindExpired, CallMovesOn, Knowing, TypeOK, CallsOK, Calls
  <2>3. CASE FindUnfinished(c)
    <3>1. RowKept /\ effects' = effects /\ record.id # 0
      BY <2>3 DEF FindUnfinished, RowKept, history, RowExists
    <3>2. CASE d = c
      BY <2>3, <3>1, <3>2
         DEF FindUnfinished, CallMovesOn, TypeOK, CallsOK, Calls,
             AssertSameRequest
    <3>3. QED BY <1>1, <2>3, <3>2 DEF FindUnfinished, TypeOK, CallsOK
  <2>4. CASE PurgeExpired(c)
    BY <1>3, <2>4 DEF PurgeExpired, At
  <2>5. CASE Acquire(c)
    <3>1. record.id # 0 /\ ~Completed
      BY <2>5 DEF Acquire, Acquirable, RowInv, Knowing, At
    <3>2. RowKept /\ UNCHANGED <<effects, provider>>
      BY <2>5, <3>1 DEF Acquire, RowKept, TypeOK, IdempotencyRecord, history
    <3>3. CASE d = c
      BY <2>5, <3>1, <3>2, <3>3
         DEF Acquire, Goto, At, CallMovesOn, Knowing, TypeOK, CallsOK, Calls
    <3>4. QED BY <1>1, <2>5, <3>3 DEF Acquire, Goto, TypeOK, CallsOK
  <2>6. CASE Create(c)
    <3>1. RowCreated(c) /\ effects' = effects
      BY <2>6 DEF Create, RowCreated, RowExists, history
    <3>2. CASE d = c
      BY <2>6, <3>1, <3>2 DEF Create, CallMovesOn, TypeOK, CallsOK, Calls
    <3>3. QED BY <1>1, <2>6, <3>2 DEF Create, TypeOK, CallsOK
  <2>7. CASE OperationSucceeds(c)
    <3>1. CASE d = c
      BY <2>7, <3>1
         DEF OperationSucceeds, CallMovesOn, Knowing, At, TypeOK, CallsOK, Calls
    <3>2. QED BY <1>1, <2>7, <3>1 DEF OperationSucceeds, TypeOK, CallsOK
  <2>8. CASE OperationFails(c)
    BY <1>3, <2>8 DEF OperationFails, At, Knowing
  <2>9. CASE SaveUnacknowledged(c)
    BY <1>3, <2>9 DEF SaveUnacknowledged, At, Knowing
  <2>10. CASE SaveFails(c)
    BY <1>3, <2>10 DEF SaveFails, At, Knowing
  <2>11. QED
    BY <1>2, <1>4, <2>1, <2>2, <2>3, <2>4, <2>5, <2>6, <2>7, <2>8, <2>9, <2>10
       DEF CallerStep, FindDifferentRequest, Replay, AcquireConflict,
           CreateConflict, Save, Release
<1>5. ASSUME NEW c \in Callers, NEW request \in Requests, NEW token \in Tokens,
             Begin(c, request, token)
      PROVE  CallMovesOn(d)
  BY <1>1, <1>5 DEF Begin, CallMovesOn, Knowing, TypeOK, CallsOK
<1>6. QED
  BY <1>1, <1>2, <1>4, <1>5
     DEF Next, Step, vars, Crash, ProviderForgets, LapseLease, PassExpiry,
         RetentionPurge, EraseAccount

-----------------------------------------------------------------------------
(* The invariants.                                                          *)

\* Everything the histories mention is a row that was created, and a row that
\* exists was not erased.
HistoryInv ==
    /\ \A p \in saved : p[1] # 0 /\ p[1] <= lastId
    /\ \A f \in effects : f.id # 0 /\ f.id <= lastId
    /\ \A i \in erased : i # 0 /\ i <= lastId /\ i # record.id

\* The row shows what was saved for it.
SavedInv ==
    /\ Completed => <<record.id, record.response>> \in saved
    /\ \A p \in saved :
          p[1] = record.id => Completed /\ p[2] = record.response
    /\ SameAnswer

\* The steps at which a call is bound to the request of its row.
Acting == {"acquire", "operate"}

\* Row, calls and effects of one id agree on the request.
RequestInv ==
    /\ \A c \in Callers :
          call[c].step \in Acting /\ call[c].id = record.id =>
              call[c].request = record.request
    /\ \A c, d \in Callers :
          (/\ call[c].step \in Acting /\ call[d].step \in Acting
           /\ call[c].id = call[d].id) => call[c].request = call[d].request
    /\ \A c \in Callers, f \in effects :
          call[c].step \in Acting /\ call[c].id = f.id =>
              f.request = call[c].request
    /\ \A f \in effects : f.id = record.id => f.request = record.request
    /\ OneRequestPerRow

\* What becomes of a row: it exists, was erased, or has its response.
Accounted(i) ==
    i = record.id \/ i \in erased \/ \E p \in saved : p[1] = i

AccountedNext(i) ==
    i = record'.id \/ i \in erased' \/ \E p \in saved' : p[1] = i

AccountInv ==
    /\ \A c \in Callers : At(c, "operate") => Accounted(call[c].id)
    /\ \A f \in effects : Accounted(f.id)

\* Ids are numbers, so that they can be compared.
LEMMA IdsAreNumbers ==
    ASSUME TypeOK
    PROVE  /\ lastId \in Nat /\ record.id \in Nat
           /\ \A c \in Callers : call[c].id \in Nat
           /\ \A p \in saved : p[1] \in Nat
           /\ \A f \in effects : f.id \in Nat
           /\ \A i \in erased : i \in Nat
<1>1. Ids \subseteq Nat
  BY BoundAssumption DEF Ids
<1>2. QED BY <1>1 DEF TypeOK, IdempotencyRecord, CallsOK, Calls

\* Every step keeps RowInv.
LEMMA RowInvStep == ASSUME TypeOK, RowInv, [Next]_vars PROVE RowInv'
<1> USE IdsAreNumbers
<1>1. lastId <= lastId' /\ lastId' \in Nat
  BY RowStep DEF RowMoves, RowKept, RowSaved, RowCreated, RowDropped
<1>2. CASE RowKept
  BY <1>1, <1>2, CallStep
     DEF RowKept, RowInv, Completed, CallMovesOn, RowCreated
<1>3. ASSUME NEW c \in Callers, RowSaved(c) PROVE RowInv'
  <2>1. record.id # 0
    BY <1>3 DEF RowSaved, RowInv, Knowing, At
  <2>2. QED
    BY <1>1, <1>3, <2>1, CallStep
       DEF RowSaved, RowInv, Completed, CallMovesOn, RowCreated
<1>4. ASSUME NEW c \in Callers, RowCreated(c) PROVE RowInv'
  <2>1. record'.id # 0 /\ record'.id <= lastId' /\ ~(Completed)'
    BY <1>1, <1>4 DEF RowCreated, Completed
  <2>2. ASSUME NEW d \in Callers, call'[d].step \in Knowing
        PROVE  call'[d].id # 0 /\ call'[d].id <= lastId'
    BY <1>1, <1>4, <2>2, CallStep DEF RowCreated, RowInv, CallMovesOn
  <2>3. QED BY <2>1, <2>2 DEF RowInv
<1>5. CASE RowDropped
  <2>1. record' = NoRecord /\ record'.id = 0 /\ ~(Completed)'
    BY <1>5 DEF RowDropped, NoRecord, Completed
  <2>2. ASSUME NEW d \in Callers, call'[d].step \in Knowing
        PROVE  call'[d].id # 0 /\ call'[d].id <= lastId'
    BY <1>1, <1>5, <2>2, CallStep
       DEF RowDropped, RowInv, CallMovesOn, RowCreated, RowKept, NoRecord
  <2>3. QED BY <1>1, <2>1, <2>2 DEF RowInv
<1>6. QED BY <1>2, <1>3, <1>4, <1>5, RowStep DEF RowMoves

\* Every step keeps HistoryInv.
LEMMA HistoryStep ==
    ASSUME TypeOK, RowInv, HistoryInv, [Next]_vars
    PROVE  HistoryInv'
<1> USE IdsAreNumbers
<1>1. lastId <= lastId'
  BY RowStep DEF RowMoves, RowKept, RowSaved, RowCreated, RowDropped
<1>2. lastId' \in Nat
  BY RowStep DEF RowMoves, RowKept, RowSaved, RowCreated, RowDropped
<1>3. ASSUME NEW p \in saved' PROVE p[1] # 0 /\ p[1] <= lastId'
  <2>1. CASE p \in saved
    BY <1>1, <1>2, <2>1 DEF HistoryInv
  <2>2. CASE p \notin saved
    <3>1. PICK c \in Callers : RowSaved(c)
      BY <1>3, <2>2, RowStep
         DEF RowMoves, RowKept, RowCreated, RowDropped
    <3>2. p = <<call[c].id, call[c].response>> /\ lastId' = lastId
      BY <1>3, <2>2, <3>1 DEF RowSaved
    <3>3. QED BY <3>1, <3>2 DEF RowSaved, RowInv, Knowing, At
  <2>3. QED BY <2>1, <2>2
<1>4. ASSUME NEW f \in effects' PROVE f.id # 0 /\ f.id <= lastId'
  <2>1. CASE f \in effects
    BY <1>1, <1>2, <2>1 DEF HistoryInv
  <2>2. CASE f \notin effects
    <3>1. PICK c \in Callers : At(c, "operate") /\ f.id = call[c].id
      BY <1>4, <2>2, EffectStep DEF EffectMoves
    <3>2. QED BY <1>1, <1>2, <3>1 DEF RowInv, Knowing, At
  <2>3. QED BY <2>1, <2>2
<1>5. ASSUME NEW i \in erased' PROVE i # 0 /\ i <= lastId' /\ i # record'.id
  BY <1>1, <1>2, <1>5, RowStep
     DEF RowMoves, RowKept, RowSaved, RowCreated, RowDropped, HistoryInv,
         RowInv, NoRecord
<1>6. QED BY <1>3, <1>4, <1>5 DEF HistoryInv

\* Every step keeps SavedInv: only the first response of a row is stored.
LEMMA SavedStep ==
    ASSUME TypeOK, RowInv, HistoryInv, SavedInv, [Next]_vars
    PROVE  SavedInv'
<1> USE IdsAreNumbers DEF SavedInv, SameAnswer
<1>1. CASE RowKept /\ answers' \subseteq
                         answers \cup {<<record.id, record.response>>}
           /\ (answers' # answers => Completed)
  BY <1>1 DEF RowKept, Completed
<1>2. ASSUME NEW c \in Callers, RowSaved(c),
             answers' \subseteq
                answers \cup {<<call[c].id, call[c].response>>}
      PROVE  SavedInv'
  <2>1. \A p \in saved : p[1] # call[c].id
    BY <1>2 DEF RowSaved
  <2>2. call[c].response # NoToken
    BY <1>2, NoneAssumption DEF RowSaved, TypeOK, CallsOK, Responses
  <2>3. QED BY <1>2, <2>1, <2>2 DEF RowSaved, Completed
<1>3. ASSUME NEW c \in Callers, RowCreated(c), answers' = answers
      PROVE  SavedInv'
  BY <1>3 DEF RowCreated, HistoryInv, Completed
<1>4. CASE RowDropped /\ answers' = answers
  BY <1>4 DEF RowDropped, NoRecord, HistoryInv, Completed
<1>5. QED
  BY <1>1, <1>2, <1>3, <1>4, RowStep DEF RowMoves

\* The binding of an id to a request, whoever mentions it.
Bound(i, q) ==
    \/ i # 0 /\ record.id = i /\ record.request = q
    \/ \E c \in Callers : /\ call[c].step \in Acting
                          /\ call[c].id = i /\ call[c].request = q
    \/ \E f \in effects : f.id = i /\ f.request = q

BoundNext(i, q) ==
    \/ i # 0 /\ record'.id = i /\ record'.request = q
    \/ \E c \in Callers : /\ call'[c].step \in Acting
                          /\ call'[c].id = i /\ call'[c].request = q
    \/ \E f \in effects' : f.id = i /\ f.request = q

\* RequestInv says that a binding is unique ...
LEMMA BoundOnce ==
    ASSUME TypeOK, RowInv, HistoryInv, RequestInv,
           NEW i, NEW q, NEW r, Bound(i, q), Bound(i, r)
    PROVE  q = r
BY DEF Bound, RequestInv, OneRequestPerRow

\* ... and a step binds an id only as it was bound, or a new id to one request.
LEMMA BoundStep ==
    ASSUME TypeOK, RowInv, HistoryInv, [Next]_vars,
           NEW i, NEW q, BoundNext(i, q)
    PROVE  \/ Bound(i, q)
           \/ /\ i = lastId + 1 /\ q = record'.request
              /\ \E c \in Callers : RowCreated(c)
<1> USE IdsAreNumbers
<1>1. CASE i # 0 /\ record'.id = i /\ record'.request = q
  BY <1>1, RowStep
     DEF RowMoves, RowKept, RowSaved, RowCreated, RowDropped, Bound, NoRecord
<1>2. ASSUME NEW c \in Callers, call'[c].step \in Acting,
             call'[c].id = i, call'[c].request = q
      PROVE  \/ Bound(i, q)
             \/ /\ i = lastId + 1 /\ q = record'.request /\ RowCreated(c)
  BY <1>2, CallStep
     DEF CallMovesOn, Acting, Knowing, At, Bound, RowCreated
<1>3. ASSUME NEW f \in effects', f.id = i, f.request = q PROVE Bound(i, q)
  BY <1>3, EffectStep DEF EffectMoves, Bound, Acting, At
<1>4. QED BY <1>1, <1>2, <1>3 DEF BoundNext

\* Every step keeps RequestInv.
LEMMA RequestStep ==
    ASSUME TypeOK, RowInv, HistoryInv, RequestInv, [Next]_vars
    PROVE  RequestInv'
<1> USE IdsAreNumbers
<1>1. ASSUME NEW i, NEW q, Bound(i, q) PROVE i # lastId + 1
  BY <1>1 DEF Bound, RowInv, HistoryInv, Acting, Knowing
<1>2. ASSUME NEW i, NEW q, NEW r, BoundNext(i, q), BoundNext(i, r)
      PROVE  q = r
  BY <1>1, <1>2, BoundStep, BoundOnce
<1>3. RowInv' /\ HistoryInv'
  BY RowInvStep, HistoryStep
<1>4. ASSUME NEW c \in Callers, call'[c].step \in Acting
      PROVE  call'[c].id # 0 /\ BoundNext(call'[c].id, call'[c].request)
  BY <1>3, <1>4 DEF BoundNext, RowInv, Acting, Knowing
<1>5. ASSUME NEW f \in effects' PROVE f.id # 0 /\ BoundNext(f.id, f.request)
  BY <1>3, <1>5 DEF BoundNext, HistoryInv
<1>6. record'.id # 0 => BoundNext(record'.id, record'.request)
  BY DEF BoundNext
<1>7. QED BY <1>2, <1>4, <1>5, <1>6 DEF RequestInv, OneRequestPerRow

\* Every step keeps AccountInv: a row goes only with its response or its
\* account.
LEMMA AccountStep ==
    ASSUME TypeOK, RowInv, HistoryInv, SavedInv, AccountInv, [Next]_vars
    PROVE  AccountInv'
<1> USE IdsAreNumbers
<1>1. ASSUME NEW i, i # 0, Accounted(i) PROVE AccountedNext(i)
  <2>1. saved \subseteq saved' /\ erased \subseteq erased'
    BY RowStep DEF RowMoves, RowKept, RowSaved, RowCreated, RowDropped
  <2>2. CASE i = record.id /\ record'.id # record.id
    BY <1>1, <2>1, <2>2, RowStep
       DEF RowMoves, RowKept, RowSaved, RowCreated, RowDropped, SavedInv,
           Accounted, AccountedNext
  <2>3. QED BY <1>1, <2>1, <2>2 DEF Accounted, AccountedNext
<1>2. ASSUME NEW c \in Callers, call'[c].step = "operate"
      PROVE  AccountedNext(call'[c].id)
  <2>1. CASE call'[c].id = record'.id
    BY <2>1 DEF AccountedNext
  <2>2. CASE At(c, "operate") /\ call'[c].id = call[c].id
    BY <1>1, <2>2 DEF AccountInv, RowInv, Knowing, At
  <2>3. QED
    BY <1>2, <2>1, <2>2, CallStep
       DEF CallMovesOn, Knowing, RowKept, RowCreated
<1>3. ASSUME NEW f \in effects' PROVE AccountedNext(f.id)
  <2>1. f.id # 0 /\ Accounted(f.id)
    BY <1>3, EffectStep
       DEF EffectMoves, AccountInv, HistoryInv, RowInv, Knowing, At
  <2>2. QED BY <1>1, <2>1
<1>4. QED BY <1>2, <1>3 DEF AccountInv, At, Accounted, AccountedNext

\* The conjunction is inductive.
LeaseInv ==
    TypeOK /\ RowInv /\ HistoryInv /\ SavedInv /\ RequestInv /\ AccountInv

\* The inductive invariant holds in every reachable state.
LEMMA LeaseInvariant == Spec => []LeaseInv
<1>1. Init => LeaseInv
  <2>1. Init => TypeOK
    BY TypeInit
  <2>2. Init => RowInv /\ HistoryInv /\ SavedInv /\ RequestInv /\ AccountInv
    BY DEF Init, NoCall, NoRecord, RowInv, HistoryInv, SavedInv, RequestInv,
           AccountInv, Knowing, Acting, Completed, SameAnswer,
           OneRequestPerRow, At
  <2>3. QED BY <2>1, <2>2 DEF LeaseInv
<1>2. LeaseInv /\ [Next]_vars => LeaseInv'
  BY TypeStep, RowInvStep, HistoryStep, SavedStep, RequestStep, AccountStep
     DEF LeaseInv
<1>3. QED BY <1>1, <1>2, PTL DEF Spec

\* All callers of a row are given its one stored response.
THEOREM SameAnswerAlways == Spec => []SameAnswer
<1>1. LeaseInv => SameAnswer
  BY DEF LeaseInv, SavedInv
<1>2. QED BY <1>1, LeaseInvariant, PTL

\* No two requests ever act under the same row.
THEOREM OneRequestPerRowAlways == Spec => []OneRequestPerRow
<1>1. LeaseInv => OneRequestPerRow
  BY DEF LeaseInv, RequestInv
<1>2. QED BY <1>1, LeaseInvariant, PTL

\* No effect loses its row before its response is stored, unless the account
\* is erased.
THEOREM EffectsAccountedForAlways == Spec => []EffectsAccountedFor
<1>1. LeaseInv => EffectsAccountedFor
  BY DEF LeaseInv, AccountInv, Accounted, EffectsAccountedFor
<1>2. QED BY <1>1, LeaseInvariant, PTL

-----------------------------------------------------------------------------
(* One effect per row, given a provider that deduplicates.                  *)

\* While the provider remembers nothing, no row that had an effect can have
\* another: nobody operates on it and it cannot be acquired.
EffectInv ==
    /\ \A f \in effects :
          provider = Nothing =>
             /\ \A c \in Callers : At(c, "operate") => call[c].id # f.id
             /\ record.id = f.id => Completed
    /\ EffectsUnique

\* The provider forgets only by ProviderForgets.
LEMMA ProviderStep ==
    ASSUME TypeOK, [Next]_vars, provider' = Nothing
    PROVE  provider = Nothing \/ ProviderForgets
<1>1. ASSUME NEW c \in Callers, At(c, "operate"), Perform(c)
      PROVE  provider = Nothing
  <2>1. provider' = provider
    BY <1>1, NoneAssumption DEF Perform, Nothing, TypeOK, CallsOK, At
  <2>2. QED BY <2>1
<1>2. QED
  BY <1>1
     DEF Next, Step, vars, Begin, Crash, LapseLease, PassExpiry, RetentionPurge,
         EraseAccount, CallerStep, FindNothing, FindExpired,
         FindDifferentRequest, Replay, FindUnfinished, PurgeExpired, Acquire,
         AcquireConflict, Create, CreateConflict, OperationSucceeds,
         OperationFails, Save, SaveUnacknowledged, SaveFails, Release

\* Every step keeps EffectInv.
LEMMA EffectInvStep ==
    ASSUME dedupes, TypeOK, RowInv, HistoryInv, EffectInv, [Next]_vars
    PROVE  EffectInv'
<1> USE IdsAreNumbers
<1>1. EffectsUnique'
  <2>1. CASE effects' = effects
    BY <2>1 DEF EffectInv, EffectsUnique
  <2>2. ASSUME NEW c \in Callers, At(c, "operate"), provider = Nothing,
               effects' = effects \cup {[id |-> call[c].id,
                                        request |-> call[c].request,
                                        response |-> call[c].token]}
        PROVE  EffectsUnique'
    BY <2>2 DEF EffectInv, EffectsUnique
  <2>3. QED BY <2>1, <2>2, EffectStep DEF EffectMoves
<1>2. ASSUME NEW f \in effects', provider' = Nothing
      PROVE  /\ \A c \in Callers :
                   call'[c].step = "operate" => call'[c].id # f.id
             /\ record'.id = f.id => (Completed)'
  <2>1. CASE ProviderForgets
    <3>1. \A c \in Callers : call'[c].step # "operate"
      BY <2>1 DEF ProviderForgets, At
    <3>2. f.id # 0
      BY <1>2, <2>1 DEF ProviderForgets, history, HistoryInv
    <3>3. QED
      BY <2>1, <3>1, <3>2 DEF ProviderForgets, RowExists, Completed
  <2>2. CASE provider = Nothing
    <3>1. effects' = effects
      BY <1>2, <2>2, EffectStep DEF EffectMoves
    <3>2. f.id # 0 /\ f.id <= lastId /\ (record.id = f.id => Completed)
      BY <1>2, <2>2, <3>1 DEF HistoryInv, EffectInv
    <3>3. ASSUME NEW c \in Callers, call'[c].step = "operate"
          PROVE  call'[c].id # f.id
      BY <1>2, <2>2, <3>1, <3>2, <3>3, CallStep
         DEF CallMovesOn, Knowing, EffectInv, RowCreated
    <3>4. ASSUME record'.id = f.id PROVE (Completed)'
      <4>1. CASE RowKept
        BY <3>2, <3>4, <4>1 DEF RowKept, Completed
      <4>2. ASSUME NEW c \in Callers, RowSaved(c) PROVE (Completed)'
        BY <4>2, NoneAssumption
           DEF RowSaved, TypeOK, CallsOK, Responses, Completed
      <4>3. ASSUME NEW c \in Callers, RowCreated(c) PROVE FALSE
        BY <3>2, <3>4, <4>3 DEF RowCreated
      <4>4. CASE RowDropped
        BY <3>2, <3>4, <4>4 DEF RowDropped, NoRecord
      <4>5. QED BY <4>1, <4>2, <4>3, <4>4, RowStep DEF RowMoves
    <3>5. QED BY <3>3, <3>4
  <2>3. QED BY <1>2, <2>1, <2>2, ProviderStep
<1>3. QED BY <1>1, <1>2 DEF EffectInv, At

\* With a provider that deduplicates on the forwarded key, a row leads to at
\* most one effect.
THEOREM OneEffectPerRowAlways == Spec => []OneEffectPerRow
<1> DEFINE Inv == dedupes => EffectInv
<1>1. Init => Inv
  BY DEF Init, EffectInv, EffectsUnique
<1>2. LeaseInv /\ Inv /\ [Next]_vars => Inv'
  <2>1. [Next]_vars => (dedupes' => dedupes)
    BY DEF Next, vars
  <2>2. QED BY <2>1, EffectInvStep DEF LeaseInv
<1>3. Inv => OneEffectPerRow
  BY DEF EffectInv, OneEffectPerRow
<1>4. QED BY <1>1, <1>2, <1>3, LeaseInvariant, PTL DEF Spec

-----------------------------------------------------------------------------
(* The lease.                                                               *)

\* A lease that has not lapsed ends by its holder's step, or with the account.
THEOREM LeaseRespectedAlways == Spec => LeaseRespected
<1>1. ASSUME LeaseInv, Next, record.lease = "held",
             record'.lockToken # record.lockToken, erased' = erased
      PROVE  \E c \in Callers :
                call[c].token = record.lockToken /\ call'[c] # call[c]
  <2>1. record.id # 0 /\ ~Completed
    BY <1>1 DEF LeaseInv, RowInv, NoRecord
  <2>2. PICK c \in Callers : CallerStep(c)
    <3>1. ~EraseAccount
      BY <1>1, <2>1 DEF EraseAccount, LeaseInv, HistoryInv
    <3>2. ~RetentionPurge
      BY <2>1 DEF RetentionPurge
    <3>3. QED
      BY <1>1, <3>1, <3>2
         DEF Next, Step, Begin, Crash, LapseLease, PassExpiry, ProviderForgets,
             LeaseInv, TypeOK, IdempotencyRecord
  <2>3. At(c, "save") \/ At(c, "release")
    BY <1>1, <2>1, <2>2
       DEF CallerStep, FindNothing, FindExpired, FindDifferentRequest, Replay,
           FindUnfinished, PurgeExpired, Acquire, Acquirable, AcquireConflict,
           Create, RowExists, CreateConflict, OperationSucceeds,
           OperationFails, Save, SaveUnacknowledged, SaveFails, Release
  <2>4. HoldsLease(c)
    BY <1>1, <2>2, <2>3
       DEF At, CallerStep, FindNothing, FindExpired, FindDifferentRequest,
           Replay, FindUnfinished, PurgeExpired, Acquire, AcquireConflict,
           Create, CreateConflict, OperationSucceeds, OperationFails, Save,
           SaveUnacknowledged, SaveFails, Release
  <2>5. call'[c] # call[c]
    <3>1. \/ Save(c) \/ SaveUnacknowledged(c) \/ SaveFails(c)
          \/ Release(c)
      BY <2>2, <2>3
         DEF At, CallerStep, FindNothing, FindExpired, FindDifferentRequest,
             Replay, FindUnfinished, PurgeExpired, Acquire, AcquireConflict,
             Create, CreateConflict, OperationSucceeds, OperationFails
    <3>2. call[c].step # "idle" /\ call \in [Callers -> Calls]
      BY <1>1, <2>3 DEF At, LeaseInv, TypeOK, CallsOK
    <3>3. CASE Return(c)
      BY <3>2, <3>3 DEF Return, NoCall
    <3>4. CASE Goto(c, "release") /\ At(c, "save")
      BY <3>2, <3>4 DEF Goto, At, Calls
    <3>5. Return(c) \/ (Goto(c, "release") /\ At(c, "save"))
      BY <3>1 DEF Save, SaveUnacknowledged, SaveFails, Release
    <3>6. QED BY <3>3, <3>4, <3>5
  <2>6. QED BY <2>4, <2>5 DEF HoldsLease
<1>2. LeaseInv /\ [Next]_vars =>
        [(/\ record.lease = "held"
          /\ record'.lockToken # record.lockToken
          /\ erased' = erased) =>
              \E c \in Callers : /\ call[c].token = record.lockToken
                                 /\ call'[c] # call[c]]_vars
  BY <1>1
<1>3. QED BY <1>2, LeaseInvariant, PTL DEF Spec, LeaseRespected

-----------------------------------------------------------------------------
(* runIdempotentTransaction.                                                *)
(*                                                                          *)
(* OneMutationPerLife is not inductive: it is joined by who may be writing   *)
(* (WriterInv), how old a running request can be (AgeInv), and what remains  *)
(* of a mutation whose row is gone (LivesInv).                               *)


\* The writer is about to insert, into an empty or an expired slot.
WriterInv ==
    \A c \in Clients :
        /\ writer = c =>
              /\ execution[c].step \in {"create", "operate", "commit"}
              /\ stored = NotStored \/ stored.expiresAt <= execution[c].now
        /\ execution[c].step \in {"operate", "commit"} => writer = c

\* A running request came at most one life of a row ago, and deletes only a
\* row that it saw expired.
AgeInv ==
    \A c \in Clients :
        /\ Running(c) => /\ execution[c].now <= clock
                         /\ clock <= execution[c].now + 1
        /\ execution[c].step = "delete" =>
              execution[c].seen.expiresAt <= execution[c].now

\* Every mutation has outlived its row, or is not younger than the row there is.
LivesInv ==
    \A m \in mutations :
        \/ m.row.expiresAt < clock
        \/ stored # NotStored /\ m.row.expiresAt <= stored.expiresAt

\* A row is committed together with its mutation.
StoredInv == stored # NotStored => \E m \in mutations : m.row = stored

\* A client that has not been answered has changed nothing.
OwnInv ==
    \A c \in Clients :
        execution[c].step # "done" => execution[c].outcome = "none" /\ Own(c) = {}

TxInv ==
    /\ TxTypeOK
    /\ WriterInv
    /\ AgeInv
    /\ LivesInv
    /\ StoredInv
    /\ OneMutationPerLife
    /\ OwnInv
    /\ AnswersTellTheTruth

-----------------------------------------------------------------------------
(* What one client's step does to the executions.                            *)

\* Answer ends the call of one client.
LEMMA AnswerStep ==
    ASSUME TxTypeOK, NEW c \in Clients, NEW o \in Outcomes,
           NEW r \in Clients \cup {NoClient}, Answer(c, o, r)
    PROVE  /\ execution' \in [Clients -> Execution]
           /\ execution'[c].step = "done"
           /\ execution'[c].outcome = o
           /\ execution'[c].response = r
           /\ execution'[c].body = execution[c].body
           /\ execution'[c].now = execution[c].now
           /\ \A d \in Clients : d # c => execution'[d] = execution[d]
  BY DEF TxTypeOK, Execution, Answer

\* Reaches moves one client on.
LEMMA ReachesStep ==
    ASSUME TxTypeOK, NEW c \in Clients,
           NEW s \in {"create", "operate", "commit", "winner"}, Reaches(c, s)
    PROVE  /\ execution' \in [Clients -> Execution]
           /\ execution'[c].step = s
           /\ execution'[c].outcome = execution[c].outcome
           /\ execution'[c].response = execution[c].response
           /\ execution'[c].body = execution[c].body
           /\ execution'[c].now = execution[c].now
           /\ \A d \in Clients : d # c => execution'[d] = execution[d]
  BY DEF TxTypeOK, Execution, Reaches

\* A replay answers with the row that was read, or refuses.
LEMMA ReplayStep ==
    ASSUME TxTypeOK, NEW c \in Clients, ReplayStored(c, stored)
    PROVE  \/ /\ stored.body = execution[c].body
              /\ Answer(c, "replayed", stored.by)
           \/ Answer(c, "refused", NoClient)
  BY DEF ReplayStored

-----------------------------------------------------------------------------
(* Steps that commit nothing.                                                *)

\* What depends on the committed state alone survives such a step.
LEMMA QuietStep ==
    ASSUME TxInv, UNCHANGED <<clock, stored, mutations>>
    PROVE  /\ LivesInv' /\ StoredInv' /\ OneMutationPerLife'
           /\ \A d \in Clients : Own(d)' = Own(d)
  BY DEF TxInv, LivesInv, StoredInv, OneMutationPerLife, Own

\* A client that is answered without a commit leaves everything in order, if a
\* replayed answer is that of a mutation of its request.
LEMMA AnswerPreserves ==
    ASSUME TxInv, NEW c \in Clients, Running(c),
           NEW o \in {"refused", "failed", "replayed"},
           NEW r \in Clients \cup {NoClient}, Answer(c, o, r), RollBack(c),
           UNCHANGED <<clock, stored, mutations>>,
           o = "replayed" => \E m \in mutations :
                                 m.row.by = r /\ m.row.body = execution[c].body
    PROVE  TxInv'
  <1>1. /\ execution' \in [Clients -> Execution]
        /\ execution'[c].step = "done"
        /\ execution'[c].outcome = o
        /\ execution'[c].response = r
        /\ execution'[c].body = execution[c].body
        /\ \A d \in Clients : d # c => execution'[d] = execution[d]
    BY AnswerStep DEF TxInv, Outcomes
  <1>2. writer' = IF writer = c THEN NoClient ELSE writer
    BY DEF RollBack
  <1>3. TxTypeOK'
    BY <1>1, <1>2 DEF TxInv, TxTypeOK
  <1>4. WriterInv'
    BY <1>1, <1>2, ClientAssumption DEF TxInv, WriterInv
  <1>5. AgeInv'
    BY <1>1 DEF TxInv, AgeInv, Running
  <1>6. OwnInv'
    BY <1>1, QuietStep DEF TxInv, OwnInv
  <1>7. Own(c) = {}
    BY DEF TxInv, OwnInv, Running
  <1>8. AnswersTellTheTruth'
    <2> SUFFICES ASSUME NEW d \in Clients
                 PROVE  /\ execution'[d].outcome \in {"refused", "failed", "replayed"}
                              => Own(d) = {}
                        /\ execution'[d].outcome \in {"created", "unknown"} =>
                              \E m \in mutations : Own(d) = {m}
                        /\ execution'[d].outcome = "replayed" =>
                              \E m \in mutations :
                                  /\ m.row.by = execution'[d].response
                                  /\ m.row.body = execution'[d].body
      BY QuietStep DEF AnswersTellTheTruth
    <2>1. CASE d = c
      BY <2>1, <1>1, <1>7
    <2>2. CASE d # c
      BY <2>2, <1>1 DEF TxInv, AnswersTellTheTruth
    <2> QED  BY <2>1, <2>2
  <1> QED  BY <1>3, <1>4, <1>5, <1>6, <1>8, QuietStep DEF TxInv

\* A client that moves on unanswered leaves the histories in order.
LEMMA MovePreserves ==
    ASSUME TxInv, NEW c \in Clients, Running(c),
           UNCHANGED <<clock, stored, mutations>>,
           execution' \in [Clients -> Execution],
           execution'[c].step # "done",
           execution'[c].outcome = execution[c].outcome,
           \A d \in Clients : d # c => execution'[d] = execution[d],
           writer' \in Clients \cup {NoClient}
    PROVE  /\ TxTypeOK' /\ OwnInv' /\ AnswersTellTheTruth'
           /\ LivesInv' /\ StoredInv' /\ OneMutationPerLife'
  <1>1. TxTypeOK'
    BY DEF TxInv, TxTypeOK
  <1>2. execution[c].outcome = "none" /\ Own(c) = {}
    BY DEF TxInv, OwnInv, Running
  <1>3. OwnInv'
    BY <1>2, QuietStep DEF TxInv, OwnInv
  <1>4. AnswersTellTheTruth'
    <2> SUFFICES ASSUME NEW d \in Clients
                 PROVE  /\ execution'[d].outcome \in {"refused", "failed", "replayed"}
                              => Own(d) = {}
                        /\ execution'[d].outcome \in {"created", "unknown"} =>
                              \E m \in mutations : Own(d) = {m}
                        /\ execution'[d].outcome = "replayed" =>
                              \E m \in mutations :
                                  /\ m.row.by = execution'[d].response
                                  /\ m.row.body = execution'[d].body
      BY QuietStep DEF AnswersTellTheTruth
    <2>1. CASE d = c
      BY <2>1, <1>2
    <2>2. CASE d # c
      BY <2>2 DEF TxInv, AnswersTellTheTruth
    <2> QED  BY <2>1, <2>2
  <1> QED  BY <1>1, <1>3, <1>4, QuietStep

-----------------------------------------------------------------------------
(* One lemma per action that is more than an answer.                         *)

\* A row that is found leads to an answer that is true.
LEMMA ReplayPreserves ==
    ASSUME TxInv, NEW c \in Clients, Running(c), stored # NotStored, writer # c,
           ReplayStored(c, stored), UNCHANGED <<clock, stored, writer, mutations>>
    PROVE  TxInv'
  <1>1. stored.by \in Clients \cup {NoClient}
    BY DEF TxInv, TxTypeOK, Stored
  <1>2. RollBack(c)
    BY DEF RollBack
  <1>3. CASE stored.body = execution[c].body /\ Answer(c, "replayed", stored.by)
    <2>1. \E m \in mutations :
              m.row.by = stored.by /\ m.row.body = execution[c].body
      BY <1>3 DEF TxInv, StoredInv
    <2> QED  BY <1>1, <1>2, <1>3, <2>1, AnswerPreserves
  <1>4. CASE Answer(c, "refused", NoClient)
    BY <1>2, <1>4, AnswerPreserves
  <1> QED  BY <1>3, <1>4, ReplayStep DEF TxInv

\* The read that takes the snapshot, and a replay.
LEMMA FindPreserves ==
    ASSUME TxInv, NEW c \in Clients, FindStored(c)
    PROVE  TxInv'
  <1>1. Running(c) /\ writer # c
    BY DEF TxInv, WriterInv, FindStored, Running
  <1>2. CASE stored # NotStored /\ ~Expired(stored, c)
    BY <1>1, <1>2, ReplayPreserves DEF FindStored
  <1>3. CASE ~(stored # NotStored /\ ~Expired(stored, c))
    <2> DEFINE s == IF stored = NotStored THEN "create" ELSE "delete"
    <2>1. execution' = [execution EXCEPT ![c] =
                          [@ EXCEPT !.step = s, !.seen = stored]]
      BY <1>3 DEF FindStored
    <2>4. s = "delete" => stored.expiresAt <= execution[c].now
      BY <1>3 DEF Expired
    <2>5. s \in {"create", "delete"}
      OBVIOUS
    <2> HIDE DEF s
    <2>2. UNCHANGED <<clock, stored, writer, mutations>>
      BY DEF FindStored
    <2>3. /\ execution' \in [Clients -> Execution]
          /\ execution'[c].step = s
          /\ execution'[c].seen = stored
          /\ execution'[c].now = execution[c].now
          /\ execution'[c].outcome = execution[c].outcome
          /\ \A d \in Clients : d # c => execution'[d] = execution[d]
      BY <2>1, <2>5 DEF TxInv, TxTypeOK, Execution
    <2>6. WriterInv'
      BY <1>1, <2>2, <2>3, <2>5 DEF TxInv, WriterInv
    <2>7. AgeInv'
      BY <1>1, <2>2, <2>3, <2>4 DEF TxInv, AgeInv, Running
    <2>8. writer' \in Clients \cup {NoClient}
      BY <2>2 DEF TxInv, TxTypeOK
    <2> QED  BY <1>1, <2>2, <2>3, <2>5, <2>6, <2>7, <2>8, MovePreserves DEF TxInv
  <1> QED  BY <1>2, <1>3

\* The deletion of an expired row makes the client the writer.
LEMMA DeletePreserves ==
    ASSUME TxInv, NEW c \in Clients, DeleteExpired(c)
    PROVE  TxInv'
  <1>1. Running(c)
    BY DEF DeleteExpired, Running
  <1>2. /\ execution' \in [Clients -> Execution]
        /\ execution'[c].step = "create"
        /\ execution'[c].outcome = execution[c].outcome
        /\ execution'[c].now = execution[c].now
        /\ \A d \in Clients : d # c => execution'[d] = execution[d]
    BY ReachesStep DEF TxInv, DeleteExpired
  <1>3. writer = NoClient /\ writer' = c /\ UNCHANGED <<clock, stored, mutations>>
    BY DEF DeleteExpired
  <1>4. stored.expiresAt <= execution[c].now
    BY DEF DeleteExpired, TxInv, AgeInv
  <1>5. WriterInv'
    BY <1>2, <1>3, <1>4, ClientAssumption DEF TxInv, WriterInv
  <1>6. AgeInv'
    BY <1>1, <1>2, <1>3 DEF TxInv, AgeInv, Running
  <1> QED  BY <1>1, <1>2, <1>3, <1>5, <1>6, MovePreserves DEF TxInv

\* The insertion finds an empty slot, or the one the client emptied.
LEMMA CreatePreserves ==
    ASSUME TxInv, NEW c \in Clients, CreateStored(c)
    PROVE  TxInv'
  <1>1. Running(c)
    BY DEF CreateStored, Running
  <1>2. /\ execution' \in [Clients -> Execution]
        /\ execution'[c].step = "operate"
        /\ execution'[c].outcome = execution[c].outcome
        /\ execution'[c].now = execution[c].now
        /\ \A d \in Clients : d # c => execution'[d] = execution[d]
    BY ReachesStep DEF TxInv, CreateStored
  <1>3. /\ writer \in {c, NoClient} /\ writer' = c
        /\ UNCHANGED <<clock, stored, mutations>>
    BY DEF CreateStored
  <1>4. stored = NotStored \/ stored.expiresAt <= execution[c].now
    BY <1>3 DEF CreateStored, KeyTaken, TxInv, WriterInv
  <1>5. WriterInv'
    BY <1>2, <1>3, <1>4, ClientAssumption DEF TxInv, WriterInv
  <1>6. AgeInv'
    BY <1>1, <1>2, <1>3 DEF TxInv, AgeInv, Running
  <1> QED  BY <1>1, <1>2, <1>3, <1>5, <1>6, MovePreserves DEF TxInv

\* Losing the unique key changes nothing but the client's next step.
LEMMA TakenPreserves ==
    ASSUME TxInv, NEW c \in Clients, CreateTaken(c)
    PROVE  TxInv'
  <1>1. Running(c) /\ writer # c
    BY DEF CreateTaken, Running, KeyTaken
  <1>2. /\ execution' \in [Clients -> Execution]
        /\ execution'[c].step = "winner"
        /\ execution'[c].outcome = execution[c].outcome
        /\ execution'[c].now = execution[c].now
        /\ \A d \in Clients : d # c => execution'[d] = execution[d]
    BY ReachesStep DEF TxInv, CreateTaken
  <1>3. UNCHANGED <<clock, stored, writer, mutations>>
    BY DEF CreateTaken
  <1>4. WriterInv'
    BY <1>1, <1>2, <1>3 DEF TxInv, WriterInv
  <1>5. AgeInv'
    BY <1>1, <1>2, <1>3 DEF TxInv, AgeInv, Running
  <1>6. writer' \in Clients \cup {NoClient}
    BY <1>3 DEF TxInv, TxTypeOK
  <1> QED  BY <1>1, <1>2, <1>3, <1>4, <1>5, <1>6, MovePreserves DEF TxInv

\* The winner of the key is replayed.
LEMMA WinnerPreserves ==
    ASSUME TxInv, NEW c \in Clients, ReadWinner(c)
    PROVE  TxInv'
  <1>1. Running(c) /\ writer # c
    BY DEF TxInv, WriterInv, ReadWinner, Running
  <1>2. UNCHANGED <<clock, stored, writer, mutations>>
    BY DEF ReadWinner
  <1>3. CASE stored = NotStored
    <2>1. Answer(c, "failed", NoClient) /\ RollBack(c)
      BY <1>1, <1>2, <1>3 DEF ReadWinner, RollBack
    <2> QED  BY <1>1, <1>2, <2>1, AnswerPreserves
  <1>4. CASE stored # NotStored
    BY <1>1, <1>2, <1>4, ReplayPreserves DEF ReadWinner
  <1> QED  BY <1>3, <1>4

\* The operation goes on to the commit or is rolled back.
LEMMA OperatePreserves ==
    ASSUME TxInv, NEW c \in Clients, Operate(c)
    PROVE  TxInv'
  <1>1. Running(c) /\ writer = c
    BY DEF TxInv, WriterInv, Operate, Running
  <1>2. UNCHANGED <<clock, stored, mutations>>
    BY DEF Operate
  <1>3. CASE Reaches(c, "commit") /\ UNCHANGED writer
    <2>1. /\ execution' \in [Clients -> Execution]
          /\ execution'[c].step = "commit"
          /\ execution'[c].outcome = execution[c].outcome
          /\ execution'[c].now = execution[c].now
          /\ \A d \in Clients : d # c => execution'[d] = execution[d]
      BY <1>3, ReachesStep DEF TxInv
    <2>2. WriterInv'
      BY <1>1, <1>2, <1>3, <2>1 DEF TxInv, WriterInv
    <2>3. AgeInv'
      BY <1>1, <1>2, <2>1 DEF TxInv, AgeInv, Running
    <2> QED  BY <1>1, <1>2, <1>3, <2>1, <2>2, <2>3, MovePreserves DEF TxInv
  <1>4. CASE Answer(c, "failed", NoClient) /\ RollBack(c)
    BY <1>1, <1>2, <1>4, AnswerPreserves
  <1> QED  BY <1>3, <1>4 DEF Operate

\* A serialization failure rolls back and starts again, or gives up.
LEMMA AbortPreserves ==
    ASSUME TxInv, NEW c \in Clients, SerializationAbort(c)
    PROVE  TxInv'
  <1>1. Running(c) /\ RollBack(c)
    BY DEF SerializationAbort, Running
  <1>2. UNCHANGED <<clock, stored, mutations>>
    BY DEF SerializationAbort
  <1>3. CASE execution[c].attempt < 2
    <2> DEFINE a == execution[c].attempt + 1
    <2>1. execution' = [execution EXCEPT ![c] =
                          [@ EXCEPT !.step = "find", !.attempt = a,
                                    !.seen = NotStored]]
      BY <1>3 DEF SerializationAbort
    <2>2. a \in 0..2
      BY <1>3 DEF TxInv, TxTypeOK, Execution
    <2> HIDE DEF a
    <2>3. NotStored \in Stored
      BY ClockAssumption DEF NotStored, Stored
    <2>4. /\ execution' \in [Clients -> Execution]
          /\ execution'[c].step = "find"
          /\ execution'[c].outcome = execution[c].outcome
          /\ execution'[c].now = execution[c].now
          /\ \A d \in Clients : d # c => execution'[d] = execution[d]
      BY <2>1, <2>2, <2>3 DEF TxInv, TxTypeOK, Execution
    <2>5. writer' = IF writer = c THEN NoClient ELSE writer
      BY <1>1 DEF RollBack
    <2>6. WriterInv'
      BY <1>2, <2>4, <2>5, ClientAssumption DEF TxInv, WriterInv
    <2>7. AgeInv'
      BY <1>1, <1>2, <2>4 DEF TxInv, AgeInv, Running
    <2>8. writer' \in Clients \cup {NoClient}
      BY <2>5 DEF TxInv, TxTypeOK
    <2> QED  BY <1>1, <1>2, <2>4, <2>6, <2>7, <2>8, MovePreserves DEF TxInv
  <1>4. CASE ~(execution[c].attempt < 2)
    <2>1. Answer(c, "failed", NoClient)
      BY <1>4 DEF SerializationAbort
    <2> QED  BY <1>1, <1>2, <2>1, AnswerPreserves
  <1> QED  BY <1>3, <1>4

\* A process that dies leaves nothing behind.
LEMMA DiesPreserves ==
    ASSUME TxInv, NEW c \in Clients, ProcessDies(c)
    PROVE  TxInv'
  BY AnswerPreserves DEF ProcessDies

\* A committed mutation starts its life when every earlier one has ended.
LEMMA CommitPreserves ==
    ASSUME TxInv, NEW c \in Clients, CommitStored(c)
    PROVE  TxInv'
  <1> DEFINE n == execution[c].now
             row == [by |-> c, body |-> execution[c].body, expiresAt |-> n + 1]
             mutation == [row |-> row, now |-> n]
  <1>1. /\ execution[c].step = "commit" /\ writer = c /\ Running(c)
        /\ stored' = row /\ mutations' = mutations \cup {mutation}
        /\ writer' = NoClient /\ UNCHANGED clock
    BY DEF TxInv, WriterInv, CommitStored, Running
  <1>2. PICK o \in {"created", "unknown"}, r \in Clients \cup {NoClient} :
            Answer(c, o, r)
    BY DEF CommitStored
  <1>3. /\ execution' \in [Clients -> Execution]
        /\ execution'[c].step = "done"
        /\ execution'[c].outcome = o
        /\ \A d \in Clients : d # c => execution'[d] = execution[d]
    BY <1>2, AnswerStep DEF TxInv, Outcomes
  <1>4. /\ clock \in 0..MaxClock /\ n \in 0..MaxClock
        /\ n <= clock /\ clock <= n + 1
    BY <1>1 DEF TxInv, TxTypeOK, AgeInv, Execution
  <1>5. row \in Stored /\ row # NotStored
    BY <1>4, ClockAssumption, ClientAssumption
       DEF TxInv, TxTypeOK, Execution, Stored, NotStored
  <1>6. \A m \in mutations : m.row.expiresAt \in Int /\ m.now \in Int
    BY ClockAssumption DEF TxInv, TxTypeOK, Stored
  <1>7. stored = NotStored \/ stored.expiresAt <= n
    BY <1>1 DEF TxInv, WriterInv
  <1>8. stored.expiresAt \in Int
    BY ClockAssumption DEF TxInv, TxTypeOK, Stored
  <1>9. \A m \in mutations : m.row.expiresAt <= n
    BY <1>4, <1>6, <1>7, <1>8, ClockAssumption DEF TxInv, LivesInv
  <1>10. mutation.row.expiresAt = n + 1 /\ mutation.now = n /\ mutation.row = row
         /\ mutation.row.by = c
    OBVIOUS
  <1>11. mutation \in [row: Stored, now: 0..MaxClock]
    BY <1>4, <1>5
  <1> HIDE DEF n, row, mutation
  <1>12. row.expiresAt = n + 1
    BY <1>10
  <1>13. TxTypeOK'
    BY <1>1, <1>3, <1>5, <1>11 DEF TxInv, TxTypeOK
  <1>14. WriterInv'
    BY <1>1, <1>3, ClientAssumption DEF TxInv, WriterInv
  <1>15. AgeInv'
    BY <1>1, <1>3 DEF TxInv, AgeInv, Running
  <1>16. LivesInv'
    <2> SUFFICES ASSUME NEW m \in mutations \cup {mutation}
                 PROVE  row # NotStored /\ m.row.expiresAt <= row.expiresAt
      BY <1>1 DEF LivesInv
    <2>1. CASE m = mutation
      BY <1>4, <1>5, <1>10, <1>12, <2>1
    <2>2. CASE m \in mutations
      BY <1>4, <1>5, <1>6, <1>9, <1>12, <2>2
    <2> QED  BY <2>1, <2>2
  <1>17. StoredInv'
    BY <1>1, <1>10 DEF StoredInv
  <1>18. OneMutationPerLife'
    BY <1>1, <1>9, <1>10 DEF TxInv, OneMutationPerLife
  <1>19. Own(c) = {} /\ Own(c)' = {mutation}
    BY <1>1, <1>10 DEF TxInv, OwnInv, Own
  <1>20. \A d \in Clients : d # c => Own(d)' = Own(d)
    BY <1>1, <1>10 DEF Own
  <1>21. OwnInv'
    BY <1>3, <1>20 DEF TxInv, OwnInv
  <1>22. AnswersTellTheTruth'
    <2> SUFFICES ASSUME NEW d \in Clients
                 PROVE  /\ execution'[d].outcome \in {"refused", "failed", "replayed"}
                              => Own(d)' = {}
                        /\ execution'[d].outcome \in {"created", "unknown"} =>
                              \E m \in mutations' : Own(d)' = {m}
                        /\ execution'[d].outcome = "replayed" =>
                              \E m \in mutations' :
                                  /\ m.row.by = execution'[d].response
                                  /\ m.row.body = execution'[d].body
      BY DEF AnswersTellTheTruth
    <2>1. CASE d = c
      BY <2>1, <1>1, <1>2, <1>3, <1>19
    <2>2. CASE d # c
      BY <2>2, <1>1, <1>3, <1>20 DEF TxInv, AnswersTellTheTruth
    <2> QED  BY <2>1, <2>2
  <1> QED  BY <1>13, <1>14, <1>15, <1>16, <1>17, <1>18, <1>21, <1>22 DEF TxInv

\* A request arrives with the time of its arrival.
LEMMA SubmitPreserves ==
    ASSUME TxInv, NEW c \in Clients, NEW body \in Bodies, Submit(c, body)
    PROVE  TxInv'
  <1>1. /\ execution[c].step = "idle"
        /\ UNCHANGED <<clock, stored, writer, mutations>>
    BY DEF Submit
  <1>2. clock \in 0..MaxClock
    BY DEF TxInv, TxTypeOK
  <1>3. execution[c].outcome = "none"
    BY <1>1 DEF TxInv, OwnInv
  <1>4. /\ execution' \in [Clients -> Execution]
        /\ execution'[c].step = "find"
        /\ execution'[c].outcome = "none"
        /\ execution'[c].now = clock
        /\ \A d \in Clients : d # c => execution'[d] = execution[d]
    BY <1>1, <1>2, <1>3 DEF Submit, Execution, TxInv, TxTypeOK
  <1>5. TxTypeOK'
    BY <1>1, <1>4 DEF TxInv, TxTypeOK
  <1>6. WriterInv'
    BY <1>1, <1>4 DEF TxInv, WriterInv
  <1>7. AgeInv'
    BY <1>1, <1>2, <1>4 DEF TxInv, AgeInv, Running
  <1>8. OwnInv'
    BY <1>1, <1>4, QuietStep DEF TxInv, OwnInv
  <1>9. AnswersTellTheTruth'
    <2> SUFFICES ASSUME NEW d \in Clients
                 PROVE  /\ execution'[d].outcome \in {"refused", "failed", "replayed"}
                              => Own(d) = {}
                        /\ execution'[d].outcome \in {"created", "unknown"} =>
                              \E m \in mutations : Own(d) = {m}
                        /\ execution'[d].outcome = "replayed" =>
                              \E m \in mutations :
                                  /\ m.row.by = execution'[d].response
                                  /\ m.row.body = execution'[d].body
      BY <1>1, QuietStep DEF AnswersTellTheTruth
    <2>1. CASE d = c
      BY <2>1, <1>4
    <2>2. CASE d # c
      BY <2>2, <1>4 DEF TxInv, AnswersTellTheTruth
    <2> QED  BY <2>1, <2>2
  <1> QED  BY <1>1, <1>5, <1>6, <1>7, <1>8, <1>9, QuietStep DEF TxInv

\* Time makes no running request older than one life of a row.
LEMMA TickPreserves ==
    ASSUME TxInv, Tick
    PROVE  TxInv'
  <1>1. /\ clock' = clock + 1 /\ clock < MaxClock
        /\ UNCHANGED <<stored, writer, execution, mutations>>
        /\ \A c \in Clients : Running(c) => execution[c].now = clock
    BY DEF Tick
  <1>2. clock \in 0..MaxClock
    BY DEF TxInv, TxTypeOK
  <1>3. TxTypeOK'
    BY <1>1, <1>2, ClockAssumption DEF TxInv, TxTypeOK
  <1>4. AgeInv'
    BY <1>1, <1>2, ClockAssumption DEF TxInv, AgeInv, Running
  <1>5. LivesInv'
    <2>1. \A m \in mutations : m.row.expiresAt \in Int
      BY ClockAssumption DEF TxInv, TxTypeOK, Stored
    <2> QED  BY <1>1, <1>2, <2>1, ClockAssumption DEF TxInv, LivesInv
  <1>6. WriterInv' /\ StoredInv' /\ OneMutationPerLife' /\ OwnInv' /\ AnswersTellTheTruth'
    BY <1>1 DEF TxInv, WriterInv, StoredInv, OneMutationPerLife, OwnInv,
                AnswersTellTheTruth, Own
  <1> QED  BY <1>3, <1>4, <1>5, <1>6 DEF TxInv

\* A row that is purged has ended its life.
LEMMA PurgePreserves ==
    ASSUME TxInv, PurgeStored
    PROVE  TxInv'
  <1>1. /\ stored.expiresAt < clock /\ writer = NoClient /\ stored' = NotStored
        /\ UNCHANGED <<clock, writer, execution, mutations>>
    BY DEF PurgeStored
  <1>2. TxTypeOK'
    BY <1>1, ClockAssumption DEF TxInv, TxTypeOK, Stored, NotStored
  <1>3. WriterInv'
    BY <1>1 DEF TxInv, WriterInv
  <1>4. LivesInv'
    <2>1. \A m \in mutations : m.row.expiresAt \in Int
      BY ClockAssumption DEF TxInv, TxTypeOK, Stored
    <2>2. stored.expiresAt \in Int /\ clock \in Int
      BY ClockAssumption DEF TxInv, TxTypeOK, Stored
    <2> QED  BY <1>1, <2>1, <2>2 DEF TxInv, LivesInv
  <1>5. StoredInv'
    BY <1>1 DEF StoredInv
  <1>6. AgeInv' /\ OneMutationPerLife' /\ OwnInv' /\ AnswersTellTheTruth'
    BY <1>1 DEF TxInv, AgeInv, Running, OneMutationPerLife, OwnInv,
                AnswersTellTheTruth, Own
  <1> QED  BY <1>2, <1>3, <1>4, <1>5, <1>6 DEF TxInv

-----------------------------------------------------------------------------
\* The invariant holds in the beginning ...
LEMMA TxInvInit ==
    ASSUME TxInit
    PROVE  TxInv
  <1>1. NotStored \in Stored
    BY ClockAssumption DEF NotStored, Stored
  <1>2. NotStarted \in Execution
    BY <1>1, ClockAssumption DEF NotStarted, Execution, Outcomes
  <1>3. TxTypeOK
    BY <1>1, <1>2, ClockAssumption DEF TxInit, TxTypeOK
  <1>4. \A c \in Clients : /\ execution[c].step = "idle"
                           /\ execution[c].outcome = "none"
                           /\ Own(c) = {}
    BY DEF TxInit, NotStarted, Own
  <1>5. WriterInv /\ AgeInv
    BY <1>4, ClientAssumption DEF TxInit, WriterInv, AgeInv, Running
  <1>6. LivesInv /\ StoredInv /\ OneMutationPerLife
    BY DEF TxInit, LivesInv, StoredInv, OneMutationPerLife
  <1>7. OwnInv /\ AnswersTellTheTruth
    BY <1>4 DEF OwnInv, AnswersTellTheTruth
  <1> QED  BY <1>3, <1>5, <1>6, <1>7 DEF TxInv

\* ... and every step keeps it.
LEMMA TxInvNext ==
    ASSUME TxInv, [TxNext]_txVars
    PROVE  TxInv'
  <1>1. CASE Tick
    BY <1>1, TickPreserves
  <1>2. CASE PurgeStored
    BY <1>2, PurgePreserves
  <1>3. ASSUME NEW c \in Clients, NEW body \in Bodies, Submit(c, body)
        PROVE  TxInv'
    BY <1>3, SubmitPreserves
  <1>4. ASSUME NEW c \in Clients, TxStep(c)
        PROVE  TxInv'
    BY <1>4, FindPreserves, DeletePreserves, CreatePreserves, TakenPreserves,
       WinnerPreserves, OperatePreserves, CommitPreserves, AbortPreserves,
       DiesPreserves DEF TxStep
  <1>5. CASE UNCHANGED txVars
    BY <1>5 DEF txVars, TxInv, TxTypeOK, WriterInv, AgeInv, Running, LivesInv,
                StoredInv, OneMutationPerLife, OwnInv, AnswersTellTheTruth, Own
  <1> QED  BY <1>1, <1>2, <1>3, <1>4, <1>5 DEF TxNext

\* The inductive invariant of runIdempotentTransaction.
LEMMA TxInvariant == TxSpec => []TxInv
  <1>1. TxInit => TxInv
    BY TxInvInit
  <1>2. TxInv /\ [TxNext]_txVars => TxInv'
    BY TxInvNext
  <1> QED  BY <1>1, <1>2, PTL DEF TxSpec

\* The row, the transactions and the history keep their types, for any number
\* of clients and any clock.
THEOREM TxTypeCorrect == TxSpec => []TxTypeOK
  <1>1. TxInv => TxTypeOK
    BY DEF TxInv
  <1> QED  BY <1>1, TxInvariant, PTL

\* Requests that race under one key, however many and however often they are
\* aborted, purged or retried, perform the mutation once per life of its row.
THEOREM OneMutationPerLifeAlways == TxSpec => []OneMutationPerLife
  <1>1. TxInv => OneMutationPerLife
    BY DEF TxInv
  <1> QED  BY <1>1, TxInvariant, PTL

\* Whatever a client is told about the mutation is so: what failed changed
\* nothing, what succeeded changed the database once, and a replay is the answer
\* of a committed mutation of the same request.
THEOREM AnswersTellTheTruthAlways == TxSpec => []AnswersTellTheTruth
  <1>1. TxInv => AnswersTellTheTruth
    BY DEF TxInv
  <1> QED  BY <1>1, TxInvariant, PTL

=============================================================================
