--------------------------- MODULE Exchange_proofs ---------------------------
(***************************************************************************)
(* Theorems about the whole exchange, for any users, orders, engines,      *)
(* workers, cancelers and faults, and about it with its stream of ticks.   *)
(***************************************************************************)
EXTENDS PriceFeed, Ledger_proofs, Sums_proofs

-----------------------------------------------------------------------------
(* What an order locks is an amount on an account of its user.              *)

\* The accounts and the amount that the services compute for an order are well typed.
LEMMA OrderAmounts ==
  ASSUME NEW o \in OrderIds
  PROVE  /\ LockAccount(o) \in Accounts
         /\ BuyAccount(o) \in Accounts
         /\ LockAmount(o) \in Nat
<1>1. Req[o] \in Request
  BY OrdersAssumption
<1>2. Req[o].user \in Users /\ Base \in Assets /\ Quote \in Assets
  BY <1>1, OrdersAssumption DEF Request
<1>3. Req[o].size \in Nat /\ Req[o].price \in Nat
  BY <1>1 DEF Request
<1>4. \A x, y \in Nat : x * y \in Nat
  OBVIOUS
<1>5. LockAmount(o) \in Nat
  BY <1>3, <1>4 DEF LockAmount
<1>6. QED
  BY <1>2, <1>5 DEF LockAccount, BuyAccount, Accounts

-----------------------------------------------------------------------------
(* The statements on the orders table.                                      *)

\* A row changes only by being inserted, which keeps its version, or by a status
\* change of an existing row, which counts its version up by one.
Advances(old, new) ==
  \/ new = old
  \/ /\ old.status = "absent" /\ new.status = "open"
     /\ new.version = old.version
  \/ /\ old.status # "absent" /\ new.status # "absent"
     /\ new.version = old.version + 1

\* What UpdateStatus does to the table, and to no other row of it.
LEMMA UpdateStatusEffect ==
  ASSUME OrdersTypeOK, NEW o \in OrderIds, NEW s \in Statuses, s # "absent", NEW v,
         UpdateStatus(o, s, v)
  PROVE  /\ OrdersTypeOK'
         /\ orders[o].version = v /\ v \in Nat /\ orders[o].status # "absent"
         /\ orders' = [orders EXCEPT ![o] = [status |-> s, version |-> v + 1]]
         /\ orders'[o] = [status |-> s, version |-> v + 1]
         /\ orders'[o].status = s /\ orders'[o].version = v + 1
         /\ \A q \in OrderIds : q # o => orders'[q] = orders[q]
         /\ \A q \in OrderIds : Advances(orders[q], orders'[q])
<1>1. /\ orders[o].version = v /\ orders[o].status # "absent"
      /\ orders' = [orders EXCEPT ![o] = [status |-> s, version |-> v + 1]]
  BY DEF UpdateStatus, VersionIs, SetStatus
<1>2. orders \in [OrderIds -> Row] /\ v \in Nat
  BY <1>1 DEF OrdersTypeOK, Row
<1>3. [status |-> s, version |-> v + 1] \in Row
  BY <1>2 DEF Row
<1>4. OrdersTypeOK'
  BY <1>1, <1>2, <1>3 DEF OrdersTypeOK
<1>5. /\ orders'[o] = [status |-> s, version |-> v + 1]
      /\ orders'[o].status = s /\ orders'[o].version = v + 1
  BY <1>1, <1>2
<1>6. \A q \in OrderIds : q # o => orders'[q] = orders[q]
  BY <1>1, <1>2
<1>7. \A q \in OrderIds : Advances(orders[q], orders'[q])
  BY <1>1, <1>5, <1>6 DEF Advances
<1>8. QED
  BY <1>1, <1>2, <1>4, <1>5, <1>6, <1>7

\* What a cancel's UpdateStatus does to the table.
LEMMA CanceledEffect ==
  ASSUME OrdersTypeOK, NEW o \in OrderIds, NEW v, UpdateStatus(o, "canceled", v)
  PROVE  /\ \A q \in OrderIds : Advances(orders[q], orders'[q])
         /\ \A q \in OrderIds : q # o => orders'[q] = orders[q]
         /\ orders'[o].status = "canceled" /\ orders[o].version = v
<1>1. /\ orders[o].version = v /\ orders[o].status # "absent"
      /\ orders' = [orders EXCEPT ![o] = [status |-> "canceled", version |-> v + 1]]
  BY DEF UpdateStatus, VersionIs, SetStatus
<1>2. orders \in [OrderIds -> Row]
  BY DEF OrdersTypeOK
<1>3. orders'[o] = [status |-> "canceled", version |-> v + 1]
  BY <1>1, <1>2
<1>4. \A q \in OrderIds : q # o => orders'[q] = orders[q]
  BY <1>1, <1>2
<1>5. \A q \in OrderIds : Advances(orders[q], orders'[q])
  BY <1>1, <1>3, <1>4 DEF Advances
<1>6. QED
  BY <1>1, <1>3, <1>4, <1>5

\* What Insert does.
LEMMA InsertEffect ==
  ASSUME OrdersTypeOK, NEW o \in OrderIds, Insert(o)
  PROVE  /\ OrdersTypeOK'
         /\ orders[o].status = "absent"
         /\ orders'[o].status = "open" /\ orders'[o].version = orders[o].version
         /\ \A q \in OrderIds : q # o => orders'[q] = orders[q]
         /\ \A q \in OrderIds : Advances(orders[q], orders'[q])
<1>1. /\ orders[o].status = "absent"
      /\ orders' = [orders EXCEPT ![o].status = "open"]
  BY DEF Insert
<1>2. orders \in [OrderIds -> Row]
  BY DEF OrdersTypeOK
<1>3. orders'[o].status = "open" /\ orders'[o].version = orders[o].version
  BY <1>1, <1>2 DEF Row
<1>4. \A q \in OrderIds : q # o => orders'[q] = orders[q]
  BY <1>1, <1>2
<1>5. OrdersTypeOK'
  BY <1>1, <1>2 DEF OrdersTypeOK, Row, Statuses
<1>6. \A q \in OrderIds : Advances(orders[q], orders'[q])
  BY <1>1, <1>3, <1>4 DEF Advances
<1>7. QED
  BY <1>1, <1>3, <1>4, <1>5, <1>6

-----------------------------------------------------------------------------
(* The local states that carry an order.                                    *)

\* A cancel under way has an order and the row it read.
LEMMA CancelRow ==
  ASSUME OrderServiceTypeOK, NEW c \in Cancelers, cancel[c].pc # "idle"
  PROVE  cancel[c] \in [pc : {"release", "update"}, order : OrderIds, row : Row]
BY DEF OrderServiceTypeOK, CancelState, Idle

\* A worker with a message has an order.
LEMMA WorkerLoaded ==
  ASSUME ExecutorTypeOK, NEW w \in Workers, worker[w].pc = "load"
  PROVE  worker[w] \in [pc : {"load"}, order : OrderIds]
BY DEF ExecutorTypeOK, WorkerState, Resting, ExecutePcs

\* A worker that has loaded its order has the row it read.
LEMMA WorkerRow ==
  ASSUME ExecutorTypeOK, NEW w \in Workers, worker[w].pc \in ExecutePcs
  PROVE  worker[w] \in [pc : ExecutePcs, order : OrderIds, row : Row]
BY DEF ExecutorTypeOK, WorkerState, Resting, ExecutePcs

-----------------------------------------------------------------------------
(* Type correctness, process by process.                                    *)

\* Every release the services ask for is of an order's lock.
LEMMA OrderReleaseType ==
  ASSUME LedgerTypeOK, NEW o \in OrderIds,
         ReleaseFunds(LockAccount(o), LockAmount(o), o) \/ UNCHANGED ledgerVars
  PROVE  LedgerTypeOK'
<1>1. CASE ReleaseFunds(LockAccount(o), LockAmount(o), o)
  BY <1>1, OrderAmounts, ReleaseFundsType
<1>2. CASE UNCHANGED ledgerVars
  BY <1>2 DEF ledgerVars, LedgerTypeOK
<1>3. QED
  BY <1>1, <1>2

\* Each part of the state that a step leaves alone keeps its type.
LEMMA UnchangedTypes ==
  /\ LedgerTypeOK /\ UNCHANGED ledgerVars => LedgerTypeOK'
  /\ OrdersTypeOK /\ UNCHANGED orders => OrdersTypeOK'
  /\ OrderServiceTypeOK /\ UNCHANGED orderServiceVars => OrderServiceTypeOK'
  /\ TriggerEngineTypeOK /\ UNCHANGED triggerEngineVars => TriggerEngineTypeOK'
  /\ ExecutorTypeOK /\ UNCHANGED executorVars => ExecutorTypeOK'
BY DEF ledgerVars, LedgerTypeOK, OrdersTypeOK, orderServiceVars, OrderServiceTypeOK,
       triggerEngineVars, TriggerEngineTypeOK, executorVars, ExecutorTypeOK

\* The API's requests.
LEMMA CreateTypes ==
  ASSUME OrdersTypeOK, LedgerTypeOK, OrderServiceTypeOK, NEW o \in OrderIds,
         CreateStep(o) \/ CreateCrash(o)
  PROVE  OrdersTypeOK' /\ LedgerTypeOK' /\ OrderServiceTypeOK'
<1>1. ASSUME NEW phase \in CreatePhases, CreateGoes(o, phase), UNCHANGED cancel
      PROVE  OrderServiceTypeOK'
  BY <1>1 DEF OrderServiceTypeOK, CreateGoes
<1> USE DEF CreatePhases
<1>2. CASE CreateCheck(o)
  <2>1. PICK phase \in {"checked", "rejected"} : CreateGoes(o, phase)
    BY <1>2 DEF CreateCheck
  <2>2. QED
    BY <1>1, <1>2, <2>1, UnchangedTypes DEF CreateCheck
<1>3. CASE CreateLock(o)
  <2>1. OrderServiceTypeOK'
    BY <1>1, <1>3 DEF CreateLock
  <2>2. LedgerTypeOK'
    BY <1>3, OrderAmounts, LockFundsType, UnchangedTypes DEF CreateLock
  <2>3. QED
    BY <1>3, <2>1, <2>2, UnchangedTypes DEF CreateLock
<1>4. CASE CreateInsert(o)
  BY <1>1, <1>4, InsertEffect, UnchangedTypes DEF CreateInsert
<1>5. CASE CreateUndo(o)
  BY <1>1, <1>5, OrderReleaseType, UnchangedTypes DEF CreateUndo
<1>6. CASE CreateCrash(o)
  BY <1>1, <1>6, UnchangedTypes DEF CreateCrash
<1>7. QED
  BY <1>2, <1>3, <1>4, <1>5, <1>6 DEF CreateStep

\* The cancel requests (CancelOrder) keep the types.
LEMMA CancelTypes ==
  ASSUME OrdersTypeOK, LedgerTypeOK, OrderServiceTypeOK, NEW c \in Cancelers,
         \/ \E u \in Users, o \in OrderIds : CancelRead(c, u, o)
         \/ CancelStep(c)
         \/ CancelCrash(c)
  PROVE  OrdersTypeOK' /\ LedgerTypeOK' /\ OrderServiceTypeOK'
<1>1. ASSUME NEW state \in CancelState, CancelGoes(c, state), UNCHANGED create
      PROVE  OrderServiceTypeOK'
  BY <1>1 DEF OrderServiceTypeOK, CancelGoes
<1>2. Idle \in CancelState
  BY DEF CancelState
<1>3. ASSUME NEW u \in Users, NEW o \in OrderIds, CancelRead(c, u, o)
      PROVE  OrdersTypeOK' /\ LedgerTypeOK' /\ OrderServiceTypeOK'
  <2>1. orders[o] \in Row
    BY DEF OrdersTypeOK
  <2>2. [pc |-> "release", order |-> o, row |-> orders[o]] \in CancelState
    BY <2>1 DEF CancelState
  <2>3. QED
    BY <1>1, <1>3, <2>2, UnchangedTypes DEF CancelRead
<1>4. CASE CancelRelease(c)
  <2>1. cancel[c] \in [pc : {"release", "update"}, order : OrderIds, row : Row]
    BY <1>4, CancelRow DEF CancelRelease
  <2>2. cancel[c].order \in OrderIds
    BY <2>1
  <2>3. [cancel[c] EXCEPT !.pc = "update"] \in CancelState
    BY <2>1 DEF CancelState
  <2>4. OrderServiceTypeOK'
    BY <1>1, <1>2, <1>4, <2>3 DEF CancelRelease
  <2>5. LedgerTypeOK'
    BY <1>4, <2>2, OrderReleaseType DEF CancelRelease
  <2>6. QED
    BY <1>4, <2>4, <2>5, UnchangedTypes DEF CancelRelease
<1>5. CASE CancelUpdate(c)
  <2>1. cancel[c] \in [pc : {"release", "update"}, order : OrderIds, row : Row]
    BY <1>5, CancelRow DEF CancelUpdate
  <2>2. cancel[c].order \in OrderIds
    BY <2>1
  <2>3. OrderServiceTypeOK'
    BY <1>1, <1>2, <1>5 DEF CancelUpdate
  <2>4. OrdersTypeOK'
    BY <1>5, <2>2, UpdateStatusEffect, UnchangedTypes DEF CancelUpdate, Statuses
  <2>5. QED
    BY <1>5, <2>3, <2>4, UnchangedTypes DEF CancelUpdate
<1>6. CASE CancelCrash(c)
  BY <1>1, <1>2, <1>6, UnchangedTypes DEF CancelCrash
<1>7. QED
  BY <1>3, <1>4, <1>5, <1>6 DEF CancelStep

\* The trigger engines.
LEMMA EngineTypes ==
  ASSUME OrdersTypeOK, TriggerEngineTypeOK, TriggerEngineNext
  PROVE  OrdersTypeOK' /\ TriggerEngineTypeOK'
<1>1. PICK e \in Engines :
        (\E p \in Prices : EngineTick(e, p)) \/ EngineStep(e) \/ EngineCrash(e)
  BY DEF TriggerEngineNext
<1>2. /\ batch \in [Engines -> SUBSET Snapshot]
      /\ toPublish \in [Engines -> SUBSET OrderIds]
      /\ stream \in Seq(OrderIds)
  BY DEF TriggerEngineTypeOK
<1>3. ASSUME NEW p \in Prices, EngineTick(e, p)
      PROVE  OrdersTypeOK' /\ TriggerEngineTypeOK'
  <2> DEFINE found == {[order |-> o, row |-> orders[o]] :
                         o \in {q \in OpenOrdersForTrigger(BatchSize) : ShouldTrigger(q, p)}}
  <2>1. \A o \in OpenOrdersForTrigger(BatchSize) : o \in OrderIds /\ orders[o] \in Row
    BY DEF OpenOrdersForTrigger, OpenOrders, OrdersTypeOK
  <2>2. found \in SUBSET Snapshot
    BY <2>1 DEF Snapshot
  <2>3. batch' = [batch EXCEPT ![e] = found]
    BY <1>3 DEF EngineTick
  <2> HIDE DEF found
  <2>4. batch' \in [Engines -> SUBSET Snapshot]
    BY <1>2, <2>2, <2>3
  <2>5. QED
    BY <1>2, <1>3, <2>4, UnchangedTypes DEF EngineTick, TriggerEngineTypeOK
<1>4. CASE EngineTrigger(e)
  <2>1. PICK s \in batch[e] :
          /\ batch' = [batch EXCEPT ![e] = @ \ {s}]
          /\ \/ /\ TriggerOrder(s.order, s.row.version)
                /\ toPublish' = [toPublish EXCEPT ![e] = {s.order}]
             \/ UNCHANGED <<orders, toPublish>>
    BY <1>4 DEF EngineTrigger
  <2>2. s.order \in OrderIds /\ batch[e] \ {s} \in SUBSET Snapshot
    BY <1>2 DEF Snapshot
  <2>3. batch' \in [Engines -> SUBSET Snapshot]
    BY <1>2, <2>1, <2>2
  <2>4. OrdersTypeOK'
    <3>1. CASE TriggerOrder(s.order, s.row.version)
      BY <2>2, <3>1, UpdateStatusEffect DEF TriggerOrder, Statuses
    <3>2. QED
      BY <2>1, <3>1, UnchangedTypes
  <2>5. toPublish' \in [Engines -> SUBSET OrderIds]
    BY <1>2, <2>1, <2>2
  <2>6. QED
    BY <1>2, <1>4, <2>3, <2>4, <2>5 DEF EngineTrigger, TriggerEngineTypeOK
<1>5. CASE EnginePublish(e)
  <2>1. PICK o \in toPublish[e] : stream' = Append(stream, o) \/ UNCHANGED stream
    BY <1>5 DEF EnginePublish, Publish
  <2>2. stream' \in Seq(OrderIds)
    BY <1>2, <2>1
  <2>3. toPublish' \in [Engines -> SUBSET OrderIds]
    BY <1>2, <1>5 DEF EnginePublish
  <2>4. QED
    BY <1>2, <1>5, <2>2, <2>3, UnchangedTypes DEF EnginePublish, TriggerEngineTypeOK
<1>6. CASE EngineCrash(e)
  BY <1>2, <1>6, UnchangedTypes DEF EngineCrash, TriggerEngineTypeOK
<1>7. QED
  BY <1>1, <1>3, <1>4, <1>5, <1>6 DEF EngineStep

\* The executor workers.
LEMMA WorkerTypes ==
  ASSUME TypeOK, NEW w \in Workers, WorkerStep(w) \/ WorkerCrash(w)
  PROVE  OrdersTypeOK' /\ LedgerTypeOK' /\ TriggerEngineTypeOK' /\ ExecutorTypeOK'
<1> USE UnchangedTypes
<1>1. /\ OrdersTypeOK /\ LedgerTypeOK /\ TriggerEngineTypeOK /\ ExecutorTypeOK
      /\ worker \in [Workers -> WorkerState] /\ swaps \in [OrderIds -> Nat]
  BY DEF TypeOK, ExecutorTypeOK
<1>2. ASSUME NEW state \in WorkerState, worker' = [worker EXCEPT ![w] = state],
             UNCHANGED swaps
      PROVE  ExecutorTypeOK'
  BY <1>1, <1>2 DEF ExecutorTypeOK
<1>3. ASSUME WorkerRests(w), UNCHANGED swaps PROVE ExecutorTypeOK'
  BY <1>2, <1>3 DEF WorkerRests, WorkerState
<1>4. ASSUME NEW pc \in ExecutePcs, WorkerGoes(w, pc), worker[w].pc \in ExecutePcs
      PROVE  /\ worker' \in [Workers -> WorkerState]
             /\ UNCHANGED swaps => ExecutorTypeOK'
  <2>1. worker[w] \in [pc : ExecutePcs, order : OrderIds, row : Row]
    BY <1>1, <1>4, WorkerRow
  <2>2. [worker[w] EXCEPT !.pc = pc] \in WorkerState
    BY <2>1 DEF WorkerState
  <2>3. worker' = [worker EXCEPT ![w] = [worker[w] EXCEPT !.pc = pc]]
    BY <1>4 DEF WorkerGoes
  <2>4. QED
    BY <1>1, <1>2, <2>2, <2>3
<1>5. worker[w].pc \in ExecutePcs => worker[w].order \in OrderIds
  BY <1>1, WorkerRow
<1>6. UNCHANGED triggerEngineVars => TriggerEngineTypeOK'
  BY <1>1
<1>7. CASE WorkerConsume(w)
  <2>1. stream \in Seq(OrderIds) /\ stream # <<>>
    BY <1>1, <1>7 DEF WorkerConsume, Consume, TriggerEngineTypeOK
  <2>2. Head(stream) \in OrderIds /\ Tail(stream) \in Seq(OrderIds)
    BY <2>1
  <2>3. [pc |-> "load", order |-> Head(stream)] \in WorkerState
    BY <2>2 DEF WorkerState
  <2>4. ExecutorTypeOK'
    BY <1>2, <1>7, <2>3 DEF WorkerConsume, Consume
  <2>5. TriggerEngineTypeOK'
    BY <1>1, <1>7, <2>2 DEF WorkerConsume, Consume, TriggerEngineTypeOK
  <2>6. QED
    BY <1>1, <1>7, <2>4, <2>5 DEF WorkerConsume
<1>8. CASE WorkerLoad(w)
  <2>1. worker[w].order \in OrderIds /\ orders[worker[w].order] \in Row
    BY <1>1, <1>8, WorkerLoaded DEF WorkerLoad, OrdersTypeOK
  <2>2. [pc |-> "claim", order |-> worker[w].order, row |-> orders[worker[w].order]]
          \in WorkerState
    BY <2>1 DEF WorkerState, ExecutePcs
  <2>3. ExecutorTypeOK'
    BY <1>2, <1>3, <1>8, <2>2 DEF WorkerLoad
  <2>4. QED
    BY <1>1, <1>8, <2>3 DEF WorkerLoad
<1>9. CASE WorkerClaim(w)
  <2>1. ExecutorTypeOK'
    BY <1>3, <1>4, <1>9 DEF WorkerClaim, ExecutePcs
  <2>2. OrdersTypeOK'
    BY <1>1, <1>5, <1>9, UpdateStatusEffect DEF WorkerClaim, ExecutePcs, Statuses
  <2>3. QED
    BY <1>1, <1>9, <2>1, <2>2 DEF WorkerClaim
<1>10. CASE WorkerQuoteFails(w)
  <2>1. ExecutorTypeOK'
    BY <1>4, <1>10 DEF WorkerQuoteFails, ExecutePcs
  <2>2. QED
    BY <1>1, <1>10, <2>1 DEF WorkerQuoteFails
<1>11. CASE WorkerSubmit(w)
  <2>1. worker' \in [Workers -> WorkerState]
    BY <1>4, <1>11 DEF WorkerSubmit, ExecutePcs
  <2>2. swaps' \in [OrderIds -> Nat]
    <3>1. worker[w].order \in OrderIds
      BY <1>5, <1>11 DEF WorkerSubmit, ExecutePcs
    <3>2. swaps[worker[w].order] + 1 \in Nat
      BY <1>1, <3>1
    <3>3. QED
      BY <1>1, <1>11, <3>2 DEF WorkerSubmit
  <2>3. QED
    BY <1>1, <1>11, <2>1, <2>2 DEF WorkerSubmit, ExecutorTypeOK
<1>12. CASE WorkerConfirmed(w)
  <2>1. ExecutorTypeOK'
    BY <1>4, <1>12 DEF WorkerConfirmed, ExecutePcs
  <2>2. QED
    BY <1>1, <1>12, <2>1 DEF WorkerConfirmed
<1>13. CASE WorkerFill(w)
  <2>1. ExecutorTypeOK'
    BY <1>3, <1>4, <1>13 DEF WorkerFill, ExecutePcs
  <2>2. OrdersTypeOK'
    BY <1>1, <1>5, <1>13, UpdateStatusEffect DEF WorkerFill, ExecutePcs, Statuses
  <2>3. QED
    BY <1>1, <1>13, <2>1, <2>2 DEF WorkerFill
<1>14. CASE WorkerSettle(w)
  <2>1. worker[w].order \in OrderIds
    BY <1>5, <1>14 DEF WorkerSettle, ExecutePcs
  <2>2. LedgerTypeOK'
    <3>1. ASSUME NEW out \in QuoteOut,
                 ProcessFillWithLockRelease(
                   LockAccount(worker[w].order), LockAccount(worker[w].order),
                   BuyAccount(worker[w].order), LockAmount(worker[w].order),
                   LockAmount(worker[w].order), out, worker[w].order)
          PROVE  LedgerTypeOK'
      BY <1>1, <2>1, <3>1, OrderAmounts, FillType, ExecutorAssumption
    <3>2. QED
      BY <1>1, <1>14, <3>1 DEF WorkerSettle
  <2>3. QED
    BY <1>1, <1>3, <1>14, <2>2 DEF WorkerSettle
<1>15. CASE WorkerFail(w)
  <2>1. ExecutorTypeOK'
    BY <1>4, <1>15 DEF WorkerFail, ExecutePcs
  <2>2. OrdersTypeOK'
    BY <1>1, <1>5, <1>15, UpdateStatusEffect DEF WorkerFail, ExecutePcs, Statuses
  <2>3. QED
    BY <1>1, <1>15, <2>1, <2>2 DEF WorkerFail
<1>16. CASE WorkerRelease(w)
  <2>1. LedgerTypeOK'
    BY <1>1, <1>5, <1>16, OrderReleaseType DEF WorkerRelease, ExecutePcs
  <2>2. QED
    BY <1>1, <1>3, <1>16, <2>1 DEF WorkerRelease
<1>17. CASE WorkerCrash(w)
  BY <1>1, <1>3, <1>17 DEF WorkerCrash
<1>18. QED
  BY <1>7, <1>8, <1>9, <1>10, <1>11, <1>12, <1>13, <1>14, <1>15, <1>16, <1>17
  DEF WorkerStep

\* Every step of every process keeps the types.
LEMMA StepTypes ==
  ASSUME TypeOK, [Next]_vars
  PROVE  TypeOK'
<1> USE UnchangedTypes DEF TypeOK
<1>1. CASE OrderServiceNext /\ UNCHANGED <<triggerEngineVars, executorVars>>
  <2>1. OrdersTypeOK' /\ LedgerTypeOK' /\ OrderServiceTypeOK'
    BY <1>1, CreateTypes, CancelTypes DEF OrderServiceNext
  <2>2. QED
    BY <1>1, <2>1
<1>2. CASE TriggerEngineNext /\ UNCHANGED <<ledgerVars, orderServiceVars, executorVars>>
  BY <1>2, EngineTypes
<1>3. CASE ExecutorNext /\ UNCHANGED orderServiceVars
  BY <1>3, WorkerTypes DEF ExecutorNext
<1>4. CASE UNCHANGED vars
  BY <1>4 DEF vars
<1>5. QED
  BY <1>1, <1>2, <1>3, <1>4 DEF Next

\* The initial state is well typed.
LEMMA InitTypes == Init => TypeOK
<1> SUFFICES ASSUME Init PROVE TypeOK
  OBVIOUS
<1>1. OrdersTypeOK
  BY DEF Init, OrdersInit, OrdersTypeOK, Row, Statuses
<1>2. LedgerTypeOK
  BY LedgerAssumption DEF Init, LedgerInit, LedgerTypeOK, EntryTypes
<1>3. OrderServiceTypeOK
  BY DEF Init, OrderServiceInit, OrderServiceTypeOK, CreatePhases, CancelState
<1>4. TriggerEngineTypeOK
  BY DEF Init, TriggerEngineInit, TriggerEngineTypeOK
<1>5. ExecutorTypeOK
  BY DEF Init, ExecutorInit, ExecutorTypeOK, WorkerState
<1>6. QED
  BY <1>1, <1>2, <1>3, <1>4, <1>5 DEF TypeOK

\* Every table, goroutine and message keeps its shape in every run of the exchange;
\* no locked balance ever goes below zero.
THEOREM ExchangeTypes == Spec => []TypeOK
<1>1. TypeOK /\ [Next]_vars => TypeOK'
  BY StepTypes
<1>2. QED
  BY <1>1, InitTypes, PTL DEF Spec

-----------------------------------------------------------------------------
(* The rows the processes hold.                                             *)

\* A row that agrees with the table agrees with it after a change of the table.
LEMMA AgreesKept ==
  ASSUME NEW row \in Row, NEW old \in Row, NEW new \in Row,
         Agrees(row, old), Advances(old, new)
  PROVE  Agrees(row, new)
BY DEF Agrees, Advances, Row

\* If the tables' rows advance and each canceler either keeps the row it has or takes
\* the current one, the cancelers' rows go on agreeing with the table; so for the
\* engines and the workers below.
LEMMA CancelersAgree ==
  ASSUME IInv, TypeOK', \A q \in OrderIds : Advances(orders[q], orders'[q]),
         \A c \in Cancelers :
           cancel'[c].pc # "idle" =>
             \/ /\ cancel[c].pc # "idle" /\ cancel'[c].order = cancel[c].order
                /\ cancel'[c].row = cancel[c].row
             \/ /\ cancel'[c].row = orders'[cancel'[c].order]
                /\ cancel'[c].row.status \in {"open", "triggered"}
  PROVE  \A c \in Cancelers :
           cancel'[c].pc # "idle" =>
             /\ Agrees(cancel'[c].row, orders'[cancel'[c].order])
             /\ cancel'[c].row.status \in {"open", "triggered"}
<1> SUFFICES ASSUME NEW c \in Cancelers, cancel'[c].pc # "idle"
             PROVE  /\ Agrees(cancel'[c].row, orders'[cancel'[c].order])
                    /\ cancel'[c].row.status \in {"open", "triggered"}
  OBVIOUS
<1>1. orders \in [OrderIds -> Row] /\ orders' \in [OrderIds -> Row] /\ OrderServiceTypeOK
  BY DEF IInv, TypeOK, OrdersTypeOK
<1>2. CASE /\ cancel[c].pc # "idle" /\ cancel'[c].order = cancel[c].order
           /\ cancel'[c].row = cancel[c].row
  <2>1. cancel[c].order \in OrderIds /\ cancel[c].row \in Row
    BY <1>1, <1>2, CancelRow
  <2>2. /\ Agrees(cancel[c].row, orders[cancel[c].order])
        /\ cancel[c].row.status \in {"open", "triggered"}
    BY <1>2 DEF IInv, VersionsAgree, HeldStatuses
  <2>3. Advances(orders[cancel[c].order], orders'[cancel[c].order])
    BY <2>1
  <2>4. Agrees(cancel[c].row, orders'[cancel[c].order])
    BY <1>1, <2>1, <2>2, <2>3, AgreesKept
  <2>5. QED
    BY <1>2, <2>2, <2>4
<1>3. CASE /\ cancel'[c].row = orders'[cancel'[c].order]
           /\ cancel'[c].row.status \in {"open", "triggered"}
  <2>1. OrderServiceTypeOK'
    BY DEF TypeOK
  <2>2. cancel'[c] \in CancelState
    BY <2>1 DEF OrderServiceTypeOK
  <2>3. cancel'[c].row \in Row
    BY <2>2 DEF CancelState, Idle
  <2>4. QED
    BY <1>3, <2>3 DEF Agrees, Row
<1>4. QED
  BY <1>2, <1>3

\* When rows only advance, what the engines hold still agrees with the table.
LEMMA EnginesAgree ==
  ASSUME IInv, TypeOK', \A q \in OrderIds : Advances(orders[q], orders'[q]),
         \A e \in Engines : \A s \in batch'[e] :
           \/ s \in batch[e]
           \/ s.row = orders'[s.order] /\ s.row.status = "open"
  PROVE  \A e \in Engines : \A s \in batch'[e] :
           Agrees(s.row, orders'[s.order]) /\ s.row.status = "open"
<1> SUFFICES ASSUME NEW e \in Engines, NEW s \in batch'[e]
             PROVE  Agrees(s.row, orders'[s.order]) /\ s.row.status = "open"
  OBVIOUS
<1>1. orders \in [OrderIds -> Row] /\ orders' \in [OrderIds -> Row]
  BY DEF IInv, TypeOK, OrdersTypeOK
<1>2. s \in Snapshot
  BY DEF TypeOK, TriggerEngineTypeOK
<1>3. s.order \in OrderIds /\ s.row \in Row
  BY <1>2 DEF Snapshot
<1>4. CASE s \in batch[e]
  <2>1. Agrees(s.row, orders[s.order]) /\ s.row.status = "open"
    BY <1>4 DEF IInv, VersionsAgree, HeldStatuses
  <2>2. Advances(orders[s.order], orders'[s.order])
    BY <1>3
  <2>3. QED
    BY <1>1, <1>3, <2>1, <2>2, AgreesKept
<1>5. CASE s.row = orders'[s.order] /\ s.row.status = "open"
  BY <1>3, <1>5 DEF Agrees, Row
<1>6. QED
  BY <1>4, <1>5

\* When rows only advance, what a worker holds before its claim still agrees.
LEMMA WorkersAgree ==
  ASSUME IInv, TypeOK', \A q \in OrderIds : Advances(orders[q], orders'[q]),
         \A w \in Workers :
           worker'[w].pc = "claim" =>
             \/ worker'[w] = worker[w]
             \/ /\ worker'[w].row = orders'[worker'[w].order]
                /\ worker'[w].row.status = "triggered"
  PROVE  \A w \in Workers :
           worker'[w].pc = "claim" =>
             /\ Agrees(worker'[w].row, orders'[worker'[w].order])
             /\ worker'[w].row.status = "triggered"
<1> SUFFICES ASSUME NEW w \in Workers, worker'[w].pc = "claim"
             PROVE  /\ Agrees(worker'[w].row, orders'[worker'[w].order])
                    /\ worker'[w].row.status = "triggered"
  OBVIOUS
<1>1. orders \in [OrderIds -> Row] /\ orders' \in [OrderIds -> Row] /\ ExecutorTypeOK
  BY DEF IInv, TypeOK, OrdersTypeOK
<1>2. CASE worker'[w] = worker[w]
  <2>1. worker[w].order \in OrderIds /\ worker[w].row \in Row
    BY <1>1, <1>2, WorkerRow DEF ExecutePcs
  <2>2. /\ Agrees(worker[w].row, orders[worker[w].order])
        /\ worker[w].row.status = "triggered"
    BY <1>2 DEF IInv, VersionsAgree, HeldStatuses
  <2>3. Advances(orders[worker[w].order], orders'[worker[w].order])
    BY <2>1
  <2>4. QED
    BY <1>1, <1>2, <2>1, <2>2, <2>3, AgreesKept
<1>3. CASE /\ worker'[w].row = orders'[worker'[w].order]
           /\ worker'[w].row.status = "triggered"
  <2>1. worker'[w] \in WorkerState
    BY DEF TypeOK, ExecutorTypeOK
  <2>2. worker'[w].row \in Row
    BY <2>1 DEF WorkerState, Resting, ExecutePcs
  <2>3. QED
    BY <1>3, <2>2 DEF Agrees, Row
<1>4. QED
  BY <1>2, <1>3

-----------------------------------------------------------------------------
(* The steps of the lifecycle that the steps of the exchange are.           *)

LifecycleStep == [Lifecycle!Next]_(Lifecycle!vars)

\* A status change is the lifecycle's, a step that changes neither table a stutter.
LEMMA StatusStep ==
  ASSUME OrdersTypeOK, NEW o \in OrderIds, NEW s \in Statuses, s # "absent", NEW v,
         UpdateStatus(o, s, v), UNCHANGED swaps
  PROVE  Lifecycle!Become(o, orders[o].status, s)
<1>1. /\ \A q \in OrderIds : q # o => orders'[q] = orders[q]
      /\ orders'[o].status = s
  BY UpdateStatusEffect
<1>2. [q \in OrderIds |-> orders'[q].status]
        = [[q \in OrderIds |-> orders[q].status] EXCEPT ![o] = s]
  BY <1>1
<1>3. [q \in OrderIds |-> orders[q].status][o] = orders[o].status
  OBVIOUS
<1>4. QED
  BY <1>2, <1>3 DEF Lifecycle!Become

\* The insert of an order is the creation of the lifecycle.
LEMMA InsertStep ==
  ASSUME OrdersTypeOK, NEW o \in OrderIds, Insert(o), UNCHANGED swaps
  PROVE  LifecycleStep
<1>1. /\ \A q \in OrderIds : q # o => orders'[q] = orders[q]
      /\ orders'[o].status = "open" /\ orders[o].status = "absent"
  BY InsertEffect
<1>2. [q \in OrderIds |-> orders'[q].status]
        = [[q \in OrderIds |-> orders[q].status] EXCEPT ![o] = "open"]
  BY <1>1
<1>3. [q \in OrderIds |-> orders[q].status][o] = orders[o].status
  OBVIOUS
<1>4. Lifecycle!Create(o)
  BY <1>1, <1>2, <1>3 DEF Lifecycle!Create, Lifecycle!Become
<1>5. QED
  BY <1>4 DEF LifecycleStep, Lifecycle!Next

\* A step that changes neither orders nor swaps is none of the lifecycle.
LEMMA StutterStep ==
  ASSUME UNCHANGED orders, UNCHANGED swaps
  PROVE  LifecycleStep
BY DEF LifecycleStep, Lifecycle!vars

-----------------------------------------------------------------------------
(* The inductive invariant, and the lifecycle, under each process's steps.  *)

\* What the API and the engines may do to a row: never touch one that is executing.
Foreign(old, new) ==
  \/ new = old
  \/ /\ old.status \in {"absent", "open", "triggered"}
     /\ new.status \in {"open", "triggered", "canceled"}

\* Steps that touch no submitting row leave every worker's order to it.
LEMMA ForeignSteps ==
  ASSUME IInv, TypeOK', UNCHANGED <<worker, swaps>>,
         \A q \in OrderIds : Foreign(orders[q], orders'[q])
  PROVE  ExclusiveExecution' /\ SwapsMatch'
<1>1. /\ orders \in [OrderIds -> Row] /\ swaps \in [OrderIds -> Nat] /\ ExecutorTypeOK
  BY DEF IInv, TypeOK, OrdersTypeOK, ExecutorTypeOK
<1>2. ASSUME NEW w \in Workers, Executing(w)
      PROVE  orders'[worker[w].order] = orders[worker[w].order]
  <2>1. worker[w].order \in OrderIds
    BY <1>1, <1>2, WorkerRow DEF Executing, ExecutePcs
  <2>2. orders[worker[w].order].status = "submitting"
    <3>1. orders[worker[w].order] = [status |-> "submitting",
                                     version |-> worker[w].row.version + 1]
      BY <1>2 DEF IInv, ExclusiveExecution
    <3>2. QED
      BY <3>1
  <2>3. QED
    BY <2>1, <2>2 DEF Foreign
<1>3. ExclusiveExecution'
  BY <1>2 DEF IInv, ExclusiveExecution, Executing
<1>4. ASSUME NEW o \in OrderIds, orders'[o].status \notin {"submitting", "filled"}
      PROVE  swaps'[o] = 0
  BY <1>4 DEF Foreign, IInv, SwapsMatch
<1>5. SwapsMatch'
  BY <1>4 DEF IInv, SwapsMatch
<1>6. QED
  BY <1>3, <1>5

\* A request to create an order.
LEMMA CreateInv ==
  ASSUME IInv, TypeOK', NEW o \in OrderIds, CreateStep(o) \/ CreateCrash(o),
         UNCHANGED <<triggerEngineVars, executorVars>>
  PROVE  IInv' /\ LifecycleStep
<1>1. OrdersTypeOK /\ UNCHANGED <<cancel, batch, worker, swaps>>
  BY DEF IInv, TypeOK, triggerEngineVars, executorVars, CreateStep, CreateCheck,
         CreateLock, CreateInsert, CreateUndo, CreateCrash
<1>2. Insert(o) \/ UNCHANGED orders
  BY DEF CreateStep, CreateCheck, CreateLock, CreateInsert, CreateUndo, CreateCrash
<1>3. \A q \in OrderIds : Advances(orders[q], orders'[q])
  BY <1>1, <1>2, InsertEffect DEF Advances
<1>4. \A q \in OrderIds : Foreign(orders[q], orders'[q])
  BY <1>1, <1>2, InsertEffect DEF Foreign
<1>5. VersionsAgree' /\ HeldStatuses'
  BY <1>1, <1>3, CancelersAgree, EnginesAgree, WorkersAgree DEF VersionsAgree, HeldStatuses
<1>6. ExclusiveExecution' /\ SwapsMatch'
  BY <1>1, <1>4, ForeignSteps
<1>7. LifecycleStep
  BY <1>1, <1>2, InsertStep, StutterStep
<1>8. QED
  BY <1>5, <1>6, <1>7 DEF IInv

\* A request to cancel one.
LEMMA CancelInv ==
  ASSUME IInv, TypeOK', NEW c \in Cancelers,
         \/ \E u \in Users, o \in OrderIds : CancelRead(c, u, o)
         \/ CancelStep(c)
         \/ CancelCrash(c),
         UNCHANGED <<triggerEngineVars, executorVars>>
  PROVE  IInv' /\ LifecycleStep
<1>1. /\ OrdersTypeOK /\ OrderServiceTypeOK /\ UNCHANGED <<batch, worker, swaps>>
      /\ orders \in [OrderIds -> Row] /\ cancel \in [Cancelers -> CancelState]
  BY DEF IInv, TypeOK, triggerEngineVars, executorVars, OrdersTypeOK, OrderServiceTypeOK
<1>2. ASSUME \A q \in OrderIds : Advances(orders[q], orders'[q]),
             \A q \in OrderIds : Foreign(orders[q], orders'[q]),
             \A d \in Cancelers :
               cancel'[d].pc # "idle" =>
                 \/ /\ cancel[d].pc # "idle" /\ cancel'[d].order = cancel[d].order
                    /\ cancel'[d].row = cancel[d].row
                 \/ /\ cancel'[d].row = orders'[cancel'[d].order]
                    /\ cancel'[d].row.status \in {"open", "triggered"}
      PROVE  IInv'
  <2>1. VersionsAgree' /\ HeldStatuses'
    BY <1>1, <1>2, CancelersAgree, EnginesAgree, WorkersAgree
    DEF VersionsAgree, HeldStatuses
  <2>2. ExclusiveExecution' /\ SwapsMatch'
    BY <1>1, <1>2, ForeignSteps
  <2>3. QED
    BY <2>1, <2>2 DEF IInv
<1>3. ASSUME UNCHANGED orders
      PROVE  /\ \A q \in OrderIds : Advances(orders[q], orders'[q])
             /\ \A q \in OrderIds : Foreign(orders[q], orders'[q])
             /\ LifecycleStep
  BY <1>1, <1>3, StutterStep DEF Advances, Foreign
<1>4. ASSUME CancelGoes(c, Idle), NEW d \in Cancelers, cancel'[d].pc # "idle"
      PROVE  cancel'[d] = cancel[d] /\ cancel[d].pc # "idle"
  BY <1>1, <1>4 DEF CancelGoes, Idle
<1>5. ASSUME NEW u \in Users, NEW o \in OrderIds, CancelRead(c, u, o)
      PROVE  IInv' /\ LifecycleStep
  <2>1. UNCHANGED orders /\ orders[o].status \in {"open", "triggered"}
    BY <1>5 DEF CancelRead
  <2>2. cancel' = [cancel EXCEPT ![c] = [pc |-> "release", order |-> o, row |-> orders[o]]]
    BY <1>5 DEF CancelRead, CancelGoes
  <2>3. QED
    BY <1>1, <1>2, <1>3, <2>1, <2>2
<1>6. CASE CancelRelease(c)
  <2>1. UNCHANGED orders /\ cancel[c].pc = "release"
    BY <1>6 DEF CancelRelease
  <2>2. cancel[c] \in [pc : {"release", "update"}, order : OrderIds, row : Row]
    BY <1>1, <2>1, CancelRow
  <2>3. CancelGoes(c, [cancel[c] EXCEPT !.pc = "update"]) \/ CancelGoes(c, Idle)
    BY <1>6 DEF CancelRelease
  <2>4. ASSUME NEW d \in Cancelers, cancel'[d].pc # "idle"
        PROVE  /\ cancel[d].pc # "idle" /\ cancel'[d].order = cancel[d].order
               /\ cancel'[d].row = cancel[d].row
    BY <1>1, <1>4, <2>1, <2>2, <2>3, <2>4 DEF CancelGoes
  <2>5. QED
    BY <1>2, <1>3, <2>1, <2>4
<1>7. CASE CancelUpdate(c)
  <2> DEFINE o == cancel[c].order
             v == cancel[c].row.version
  <2>1. cancel[c].pc = "update" /\ CancelGoes(c, Idle)
        /\ (UpdateStatus(o, "canceled", v) \/ UNCHANGED orders)
    BY <1>7 DEF CancelUpdate
  <2>2. cancel[c] \in [pc : {"release", "update"}, order : OrderIds, row : Row]
    BY <1>1, <2>1, CancelRow
  <2>3. o \in OrderIds
    BY <2>2
  <2>4. CASE UNCHANGED orders
    BY <1>2, <1>3, <1>4, <2>1, <2>4
  <2>5. CASE UpdateStatus(o, "canceled", v)
    <3>1. "canceled" \in Statuses
      BY DEF Statuses
    <3>2. /\ \A q \in OrderIds : Advances(orders[q], orders'[q])
          /\ \A q \in OrderIds : q # o => orders'[q] = orders[q]
          /\ orders'[o].status = "canceled" /\ orders[o].version = v
      <4>1. OrdersTypeOK
        BY <1>1
      <4>2. QED
        BY <2>3, <2>5, <4>1, CanceledEffect
    <3>3. orders[o].status \in {"open", "triggered"}
      <4>1. cancel[c].row.status \in {"open", "triggered"} /\ Agrees(cancel[c].row, orders[o])
        BY <2>1 DEF IInv, VersionsAgree, HeldStatuses
      <4>2. QED
        BY <3>2, <4>1 DEF Agrees
    <3>4. \A q \in OrderIds : Foreign(orders[q], orders'[q])
      BY <3>2, <3>3 DEF Foreign
    <3>5. Lifecycle!Become(o, orders[o].status, "canceled")
      BY <1>1, <2>3, <2>5, <3>1, StatusStep
    <3>6. LifecycleStep
      BY <2>3, <3>3, <3>5 DEF LifecycleStep, Lifecycle!Next, Lifecycle!Cancel
    <3>7. QED
      BY <1>2, <1>4, <2>1, <3>2, <3>4, <3>6
  <2>6. QED
    BY <2>1, <2>4, <2>5
<1>8. CASE CancelCrash(c)
  BY <1>2, <1>3, <1>4, <1>8 DEF CancelCrash
<1>9. QED
  BY <1>5, <1>6, <1>7, <1>8 DEF CancelStep

\* An engine's step.
LEMMA EngineInv ==
  ASSUME IInv, TypeOK', TriggerEngineNext,
         UNCHANGED <<ledgerVars, orderServiceVars, executorVars>>
  PROVE  IInv' /\ LifecycleStep
<1>1. PICK e \in Engines :
        (\E p \in Prices : EngineTick(e, p)) \/ EngineStep(e) \/ EngineCrash(e)
  BY DEF TriggerEngineNext
<1>2. /\ OrdersTypeOK /\ UNCHANGED <<cancel, worker, swaps>>
      /\ batch \in [Engines -> SUBSET Snapshot]
  BY DEF IInv, TypeOK, TriggerEngineTypeOK, orderServiceVars, executorVars
<1>3. ASSUME \A q \in OrderIds : Advances(orders[q], orders'[q]),
             \A q \in OrderIds : Foreign(orders[q], orders'[q]),
             \A f \in Engines : \A s \in batch'[f] :
               s \in batch[f] \/ (s.row = orders'[s.order] /\ s.row.status = "open")
      PROVE  IInv'
  <2>1. VersionsAgree' /\ HeldStatuses'
    BY <1>2, <1>3, CancelersAgree, EnginesAgree, WorkersAgree
    DEF VersionsAgree, HeldStatuses
  <2>2. ExclusiveExecution' /\ SwapsMatch'
    BY <1>2, <1>3, ForeignSteps
  <2>3. QED
    BY <2>1, <2>2 DEF IInv
<1>4. ASSUME UNCHANGED orders
      PROVE  /\ \A q \in OrderIds : Advances(orders[q], orders'[q])
             /\ \A q \in OrderIds : Foreign(orders[q], orders'[q])
             /\ LifecycleStep
  BY <1>2, <1>4, StutterStep DEF Advances, Foreign
<1>5. ASSUME NEW p \in Prices, EngineTick(e, p)
      PROVE  IInv' /\ LifecycleStep
  <2> DEFINE found == {[order |-> o, row |-> orders[o]] :
                         o \in {q \in OpenOrdersForTrigger(BatchSize) : ShouldTrigger(q, p)}}
  <2>1. \A s \in found : s.row = orders[s.order] /\ s.row.status = "open"
    <3>1. SUFFICES ASSUME NEW s \in found
                   PROVE  s.row = orders[s.order] /\ s.row.status = "open"
      OBVIOUS
    <3>2. PICK o \in OpenOrdersForTrigger(BatchSize) : s = [order |-> o, row |-> orders[o]]
      OBVIOUS
    <3>3. orders[o].status = "open"
      BY DEF OpenOrdersForTrigger, OpenOrders
    <3>4. s.order = o /\ s.row = orders[o]
      BY <3>2
    <3>5. QED
      BY <3>3, <3>4
  <2>2. batch' = [batch EXCEPT ![e] = found] /\ UNCHANGED orders
    BY <1>5 DEF EngineTick
  <2> HIDE DEF found
  <2>3. \A f \in Engines : \A s \in batch'[f] :
          s \in batch[f] \/ (s.row = orders'[s.order] /\ s.row.status = "open")
    BY <1>2, <2>1, <2>2
  <2>4. QED
    BY <1>3, <1>4, <2>2, <2>3
<1>6. CASE EngineTrigger(e)
  <2>1. PICK s \in batch[e] :
          /\ batch' = [batch EXCEPT ![e] = @ \ {s}]
          /\ TriggerOrder(s.order, s.row.version) \/ UNCHANGED orders
    BY <1>6 DEF EngineTrigger
  <2>2. s.order \in OrderIds
    BY <1>2 DEF Snapshot
  <2>3. \A f \in Engines : batch'[f] \subseteq batch[f]
    BY <1>2, <2>1
  <2>4. CASE UNCHANGED orders
    BY <1>3, <1>4, <2>3, <2>4
  <2>5. CASE TriggerOrder(s.order, s.row.version)
    <3>1. /\ UpdateStatus(s.order, "triggered", s.row.version)
          /\ orders[s.order].status = "open" /\ "triggered" \in Statuses
      BY <2>5 DEF TriggerOrder, Statuses
    <3>2. /\ \A q \in OrderIds : Advances(orders[q], orders'[q])
          /\ \A q \in OrderIds : q # s.order => orders'[q] = orders[q]
          /\ orders'[s.order].status = "triggered"
      BY <1>2, <2>2, <3>1, UpdateStatusEffect
    <3>3. \A q \in OrderIds : Foreign(orders[q], orders'[q])
      BY <3>1, <3>2 DEF Foreign
    <3>4. Lifecycle!Become(s.order, "open", "triggered")
      BY <1>2, <2>2, <3>1, StatusStep
    <3>5. LifecycleStep
      BY <2>2, <3>4 DEF LifecycleStep, Lifecycle!Next, Lifecycle!Trigger
    <3>6. QED
      BY <1>3, <2>3, <3>2, <3>3, <3>5
  <2>6. QED
    BY <2>1, <2>4, <2>5
<1>7. CASE EnginePublish(e)
  BY <1>3, <1>4, <1>7 DEF EnginePublish
<1>8. CASE EngineCrash(e)
  <2>1. \A f \in Engines : batch'[f] \subseteq batch[f]
    BY <1>2, <1>8 DEF EngineCrash
  <2>2. QED
    BY <1>3, <1>4, <1>8, <2>1 DEF EngineCrash
<1>9. QED
  BY <1>1, <1>5, <1>6, <1>7, <1>8 DEF EngineStep

-----------------------------------------------------------------------------
(* The executor's steps.                                                    *)

\* A worker that goes on keeps its order and its row; the others stay.
LEMMA WorkerMoves ==
  ASSUME ExecutorTypeOK, NEW w \in Workers, NEW pc,
         worker[w].pc \in ExecutePcs, WorkerGoes(w, pc)
  PROVE  /\ worker'[w].pc = pc
         /\ worker'[w].order = worker[w].order /\ worker'[w].row = worker[w].row
         /\ \A x \in Workers : x # w => worker'[x] = worker[x]
<1>1. worker[w] \in [pc : ExecutePcs, order : OrderIds, row : Row]
  BY WorkerRow
<1>2. worker \in [Workers -> WorkerState]
  BY DEF ExecutorTypeOK
<1>3. QED
  BY <1>1, <1>2 DEF WorkerGoes

\* A worker that returns is idle; the others stay.
LEMMA WorkerStops ==
  ASSUME ExecutorTypeOK, NEW w \in Workers, WorkerRests(w)
  PROVE  /\ worker'[w].pc = "idle"
         /\ \A x \in Workers : x # w => worker'[x] = worker[x]
BY DEF ExecutorTypeOK, WorkerRests, Resting

\* A step of a worker that changes neither the orders nor the swaps.
LEMMA LocalStep ==
  ASSUME IInv, TypeOK', UNCHANGED <<cancel, batch, orders, swaps>>, NEW w \in Workers,
         \A x \in Workers : x # w => worker'[x] = worker[x],
         \/ worker'[w].pc \notin {"claim", "swap", "confirm", "fill", "fail"}
         \/ /\ worker'[w].pc = "claim" /\ worker'[w].row = orders[worker'[w].order]
            /\ worker'[w].row.status = "triggered"
         \/ /\ \/ worker[w].pc = "swap" /\ worker'[w].pc = "fail"
               \/ worker[w].pc = "confirm" /\ worker'[w].pc = "fill"
            /\ worker'[w].order = worker[w].order /\ worker'[w].row = worker[w].row
  PROVE  IInv' /\ LifecycleStep
<1>1. \A q \in OrderIds : Advances(orders[q], orders'[q])
  BY DEF Advances
<1>2. \A x \in Workers :
        worker'[x].pc = "claim" =>
          \/ worker'[x] = worker[x]
          \/ /\ worker'[x].row = orders'[worker'[x].order]
             /\ worker'[x].row.status = "triggered"
  OBVIOUS
<1>3. VersionsAgree' /\ HeldStatuses'
  BY <1>1, <1>2, CancelersAgree, EnginesAgree, WorkersAgree DEF VersionsAgree, HeldStatuses
<1>4. \A x \in Workers :
        Executing(x)' => /\ Executing(x)
                         /\ worker'[x].order = worker[x].order
                         /\ worker'[x].row = worker[x].row
  BY DEF Executing
<1>5. ExclusiveExecution'
  <2> SUFFICES ASSUME NEW x \in Workers, Executing(x)'
               PROVE  /\ orders'[worker'[x].order]
                           = [status |-> "submitting", version |-> worker'[x].row.version + 1]
                      /\ \A y \in Workers :
                           Executing(y)' /\ worker'[y].order = worker'[x].order => y = x
    BY DEF ExclusiveExecution
  <2>1. QED
    BY <1>4 DEF IInv, ExclusiveExecution
<1>6. SwapsMatch'
  BY DEF IInv, SwapsMatch
<1>7. QED
  BY <1>3, <1>5, <1>6, StutterStep DEF IInv

\* A step of a worker that changes the status of its order, after which it executes
\* no other: the exclusive claim, or the last status change under it.
LEMMA StatusChange ==
  ASSUME IInv, TypeOK', UNCHANGED <<cancel, batch, swaps>>, NEW w \in Workers,
         NEW o \in OrderIds, NEW s \in {"submitting", "filled", "failed"}, NEW v,
         worker[w].order = o, worker'[w].order = o, worker'[w].row = worker[w].row,
         \A x \in Workers : x # w => worker'[x] = worker[x],
         UpdateStatus(o, s, v),
         \A x \in Workers : x # w /\ Executing(x) => worker[x].order # o,
         worker'[w].pc \in {"swap", "settle", "release"},
         worker'[w].pc = "swap" => /\ s = "submitting" /\ v = worker[w].row.version
                                   /\ swaps[o] = 0,
         s = "failed" => swaps[o] = 0
  PROVE  IInv'
<1>1. OrdersTypeOK /\ s \in Statuses /\ s # "absent"
  BY DEF IInv, TypeOK, Statuses
<1>2. /\ orders'[o] = [status |-> s, version |-> v + 1] /\ orders'[o].status = s
      /\ \A q \in OrderIds : q # o => orders'[q] = orders[q]
      /\ \A q \in OrderIds : Advances(orders[q], orders'[q])
  BY <1>1, UpdateStatusEffect
<1>3. VersionsAgree' /\ HeldStatuses'
  BY <1>2, CancelersAgree, EnginesAgree, WorkersAgree DEF VersionsAgree, HeldStatuses
<1>4. \A x \in Workers : Executing(x) => worker[x].order \in OrderIds
  BY WorkerRow DEF IInv, TypeOK, Executing, ExecutePcs
<1>5. ASSUME NEW x \in Workers, Executing(x)'
      PROVE  /\ orders'[worker'[x].order]
                  = [status |-> "submitting", version |-> worker'[x].row.version + 1]
             /\ \A y \in Workers :
                  Executing(y)' /\ worker'[y].order = worker'[x].order => y = x
  <2>1. CASE x = w
    <3>1. worker'[w].pc = "swap"
      BY <1>5, <2>1 DEF Executing
    <3>2. \A y \in Workers : y # w /\ Executing(y)' => worker'[y].order # o
      BY DEF Executing
    <3>3. QED
      BY <1>2, <2>1, <3>1, <3>2
  <2>2. CASE x # w
    <3>1. worker'[x] = worker[x] /\ Executing(x) /\ worker[x].order # o
      BY <1>5, <2>2 DEF Executing
    <3>2. orders'[worker[x].order] = orders[worker[x].order]
      BY <1>2, <1>4, <3>1
    <3>3. \A y \in Workers :
            Executing(y)' /\ worker'[y].order = worker'[x].order => y # w /\ Executing(y)
      BY <3>1 DEF Executing
    <3>4. QED
      BY <3>1, <3>2, <3>3 DEF IInv, ExclusiveExecution
  <2>3. QED
    BY <2>1, <2>2
<1>6. ExclusiveExecution'
  BY <1>5 DEF ExclusiveExecution
<1>7. SwapsMatch'
  BY <1>2 DEF IInv, SwapsMatch
<1>8. QED
  BY <1>3, <1>6, <1>7 DEF IInv

\* Every step of a worker keeps the invariant and is one of the lifecycle.
LEMMA WorkerInv ==
  ASSUME IInv, TypeOK', NEW w \in Workers, WorkerStep(w) \/ WorkerCrash(w),
         UNCHANGED orderServiceVars
  PROVE  IInv' /\ LifecycleStep
<1>1. /\ OrdersTypeOK /\ ExecutorTypeOK /\ TypeOK /\ UNCHANGED <<cancel, batch>>
      /\ worker \in [Workers -> WorkerState] /\ swaps \in [OrderIds -> Nat]
  BY DEF IInv, TypeOK, ExecutorTypeOK, orderServiceVars, triggerEngineVars, WorkerStep,
         WorkerConsume, WorkerLoad, WorkerClaim, WorkerQuoteFails, WorkerSubmit,
         WorkerConfirmed, WorkerFill, WorkerSettle, WorkerFail, WorkerRelease, WorkerCrash
<1>2. ASSUME WorkerRests(w), UNCHANGED <<orders, swaps>> PROVE IInv' /\ LifecycleStep
  BY <1>1, <1>2, WorkerStops, LocalStep
<1>3. worker[w].pc \in ExecutePcs => worker[w].order \in OrderIds
  BY <1>1, WorkerRow
<1> DEFINE o == worker[w].order
<1>4. ASSUME Executing(w)
      PROVE  /\ o \in OrderIds /\ orders[o].status = "submitting"
             /\ \A x \in Workers : x # w /\ Executing(x) => worker[x].order # o
  <2>1. o \in OrderIds
    BY <1>3, <1>4 DEF Executing, ExecutePcs
  <2>2. orders[o] = [status |-> "submitting", version |-> worker[w].row.version + 1]
    BY <1>4 DEF IInv, ExclusiveExecution
  <2>3. orders[o].status = "submitting"
    BY <2>2
  <2>4. QED
    BY <1>4, <2>1, <2>3 DEF IInv, ExclusiveExecution
<1>5. CASE WorkerConsume(w)
  <2>1. worker' = [worker EXCEPT ![w] = [pc |-> "load", order |-> Head(stream)]]
    BY <1>5 DEF WorkerConsume, Consume
  <2>2. worker'[w].pc = "load" /\ \A x \in Workers : x # w => worker'[x] = worker[x]
    BY <1>1, <2>1
  <2>3. QED
    BY <1>1, <1>5, <2>2, LocalStep DEF WorkerConsume
<1>6. CASE WorkerLoad(w)
  <2>1. CASE /\ orders[o].status = "triggered"
             /\ worker' = [worker EXCEPT ![w] = [pc |-> "claim", order |-> o,
                                                 row |-> orders[o]]]
    <3>1. /\ worker'[w].pc = "claim" /\ worker'[w].row = orders[worker'[w].order]
          /\ worker'[w].row.status = "triggered"
          /\ \A x \in Workers : x # w => worker'[x] = worker[x]
      BY <1>1, <2>1
    <3>2. QED
      BY <1>1, <1>6, <3>1, LocalStep DEF WorkerLoad
  <2>2. QED
    BY <1>2, <1>6, <2>1 DEF WorkerLoad
<1>7. CASE WorkerClaim(w)
  <2> DEFINE v == worker[w].row.version
  <2>1. worker[w].pc = "claim" /\ UNCHANGED swaps /\ worker[w].pc \in ExecutePcs
    BY <1>7 DEF WorkerClaim, ExecutePcs
  <2>2. CASE UpdateStatus(o, "submitting", v) /\ WorkerGoes(w, "swap")
    <3>1. /\ worker'[w].pc = "swap" /\ worker'[w].order = o
          /\ worker'[w].row = worker[w].row
          /\ \A x \in Workers : x # w => worker'[x] = worker[x]
      BY <1>1, <2>1, <2>2, WorkerMoves
    <3>2. o \in OrderIds /\ orders[o].version = v
      BY <1>3, <2>1, <2>2 DEF UpdateStatus, VersionIs
    <3>3. orders[o].status = "triggered"
      <4>1. worker[w].row.status = "triggered" /\ Agrees(worker[w].row, orders[o])
        BY <2>1 DEF IInv, VersionsAgree, HeldStatuses
      <4>2. QED
        BY <3>2, <4>1 DEF Agrees
    <3>4. swaps[o] = 0
      BY <3>2, <3>3 DEF IInv, SwapsMatch
    <3>5. ASSUME NEW x \in Workers, Executing(x) PROVE worker[x].order # o
      <4>1. orders[worker[x].order]
              = [status |-> "submitting", version |-> worker[x].row.version + 1]
        BY <3>5 DEF IInv, ExclusiveExecution
      <4>2. orders[worker[x].order].status = "submitting"
        BY <4>1
      <4>3. QED
        BY <3>3, <4>2
    <3>6. "submitting" \in Statuses
      BY DEF Statuses
    <3> HIDE DEF o, v
    <3>7. UpdateStatus(o, "submitting", v)
      BY <2>2
    <3>8. v = worker[w].row.version /\ worker[w].order = o
      BY DEF o, v
    <3>9. IInv'
      BY <1>1, <2>1, <3>1, <3>2, <3>4, <3>5, <3>7, <3>8, StatusChange
    <3>10. Lifecycle!Become(o, "triggered", "submitting")
      BY <1>1, <2>1, <3>2, <3>3, <3>6, <3>7, StatusStep
    <3>11. QED
      BY <3>2, <3>9, <3>10 DEF LifecycleStep, Lifecycle!Next, Lifecycle!Submit
  <2>3. QED
    BY <1>2, <1>7, <2>1, <2>2 DEF WorkerClaim
<1>8. CASE WorkerQuoteFails(w)
  <2>1. worker[w].pc = "swap" /\ worker[w].pc \in ExecutePcs /\ WorkerGoes(w, "fail")
        /\ UNCHANGED <<orders, swaps>>
    BY <1>8 DEF WorkerQuoteFails, ExecutePcs
  <2>2. QED
    BY <1>1, <2>1, WorkerMoves, LocalStep
<1>9. CASE WorkerSubmit(w)
  <2>1. /\ worker[w].pc = "swap" /\ worker[w].pc \in ExecutePcs /\ Executing(w)
        /\ WorkerGoes(w, "confirm") /\ UNCHANGED orders
        /\ swaps' = [swaps EXCEPT ![o] = @ + 1]
    BY <1>9 DEF WorkerSubmit, ExecutePcs, Executing
  <2>2. /\ worker'[w].pc = "confirm" /\ worker'[w].order = o
        /\ worker'[w].row = worker[w].row
        /\ \A x \in Workers : x # w => worker'[x] = worker[x]
    BY <1>1, <2>1, WorkerMoves
  <2>3. /\ o \in OrderIds /\ orders[o].status = "submitting" /\ swaps[o] = 0
        /\ \A x \in Workers : x # w /\ Executing(x) => worker[x].order # o
    BY <1>4, <2>1 DEF IInv, SwapsMatch
  <2>4. swaps'[o] = 1 /\ \A q \in OrderIds : q # o => swaps'[q] = swaps[q]
    BY <1>1, <2>1, <2>3
  <2>5. \A q \in OrderIds : Advances(orders[q], orders'[q])
    BY <2>1 DEF Advances
  <2>6. VersionsAgree' /\ HeldStatuses'
    BY <1>1, <2>1, <2>2, <2>5, CancelersAgree, EnginesAgree, WorkersAgree
    DEF VersionsAgree, HeldStatuses
  <2>7. \A x \in Workers :
          Executing(x)' => /\ Executing(x)
                           /\ worker'[x].order = worker[x].order
                           /\ worker'[x].row = worker[x].row
    BY <2>1, <2>2 DEF Executing
  <2>8. ASSUME NEW x \in Workers, Executing(x)'
        PROVE  /\ orders'[worker'[x].order]
                    = [status |-> "submitting", version |-> worker'[x].row.version + 1]
               /\ \A y \in Workers :
                    Executing(y)' /\ worker'[y].order = worker'[x].order => y = x
    BY <2>1, <2>7, <2>8 DEF IInv, ExclusiveExecution
  <2>9. ExclusiveExecution'
    BY <2>8 DEF ExclusiveExecution
  <2>10. SwapsMatch'
    <3>1. ASSUME NEW q \in OrderIds, orders'[q].status \notin {"submitting", "filled"}
          PROVE  swaps'[q] = 0
      BY <2>1, <2>3, <2>4, <3>1 DEF IInv, SwapsMatch
    <3>2. ASSUME NEW x \in Workers, x # w, Executing(x)
          PROVE  swaps'[worker[x].order] = swaps[worker[x].order]
      BY <1>1, <2>3, <2>4, <3>2, WorkerRow DEF Executing, ExecutePcs
    <3>3. ASSUME NEW x \in Workers
          PROVE  /\ worker'[x].pc \in {"swap", "fail"} => swaps'[worker'[x].order] = 0
                 /\ worker'[x].pc \in {"confirm", "fill"} => swaps'[worker'[x].order] = 1
      <4>1. CASE x = w
        BY <2>2, <2>4, <4>1
      <4>2. CASE x # w
        BY <2>2, <3>2, <4>2 DEF IInv, SwapsMatch, Executing
      <4>3. QED
        BY <4>1, <4>2
    <3>4. QED
      BY <3>1, <3>3 DEF SwapsMatch
  <2>11. Lifecycle!Swap(o)
    BY <1>1, <2>1, <2>3 DEF Lifecycle!Swap
  <2>12. QED
    BY <2>3, <2>6, <2>9, <2>10, <2>11 DEF IInv, LifecycleStep, Lifecycle!Next
<1>10. CASE WorkerConfirmed(w)
  <2>1. worker[w].pc = "confirm" /\ worker[w].pc \in ExecutePcs /\ WorkerGoes(w, "fill")
        /\ UNCHANGED <<orders, swaps>>
    BY <1>10 DEF WorkerConfirmed, ExecutePcs
  <2>2. QED
    BY <1>1, <2>1, WorkerMoves, LocalStep
<1>11. CASE WorkerFill(w)
  <2> DEFINE v == worker[w].row.version + 1
  <2>1. /\ worker[w].pc = "fill" /\ worker[w].pc \in ExecutePcs /\ Executing(w)
        /\ UNCHANGED swaps
    BY <1>11 DEF WorkerFill, ExecutePcs, Executing
  <2>2. CASE UpdateStatus(o, "filled", v) /\ WorkerGoes(w, "settle")
    <3>1. /\ worker'[w].pc = "settle" /\ worker'[w].order = o
          /\ worker'[w].row = worker[w].row
          /\ \A x \in Workers : x # w => worker'[x] = worker[x]
      BY <1>1, <2>1, <2>2, WorkerMoves
    <3>2. swaps[o] = 1
      BY <2>1 DEF IInv, SwapsMatch
    <3>3. "filled" \in Statuses
      BY DEF Statuses
    <3>4. /\ o \in OrderIds /\ orders[o].status = "submitting"
          /\ \A x \in Workers : x # w /\ Executing(x) => worker[x].order # o
      BY <1>4, <2>1
    <3> HIDE DEF o, v
    <3>5. worker[w].order = o
      BY DEF o
    <3>6. IInv'
      BY <1>1, <2>1, <2>2, <3>1, <3>4, <3>5, StatusChange
    <3>7. Lifecycle!Become(o, "submitting", "filled")
      BY <1>1, <2>1, <2>2, <3>3, <3>4, StatusStep
    <3>8. QED
      BY <3>2, <3>4, <3>6, <3>7 DEF LifecycleStep, Lifecycle!Next, Lifecycle!Fill
  <2>3. QED
    BY <1>2, <1>11, <2>1, <2>2 DEF WorkerFill
<1>12. CASE WorkerSettle(w)
  BY <1>2, <1>12 DEF WorkerSettle
<1>13. CASE WorkerFail(w)
  <2> DEFINE v == worker[w].row.version + 1
  <2>1. /\ worker[w].pc = "fail" /\ worker[w].pc \in ExecutePcs /\ Executing(w)
        /\ UNCHANGED swaps /\ WorkerGoes(w, "release")
    BY <1>13 DEF WorkerFail, ExecutePcs, Executing
  <2>2. /\ worker'[w].pc = "release" /\ worker'[w].order = o
        /\ worker'[w].row = worker[w].row
        /\ \A x \in Workers : x # w => worker'[x] = worker[x]
    BY <1>1, <2>1, WorkerMoves
  <2>3. CASE UNCHANGED orders
    BY <1>1, <2>1, <2>2, <2>3, LocalStep
  <2>4. CASE UpdateStatus(o, "failed", v)
    <3>1. swaps[o] = 0
      BY <2>1 DEF IInv, SwapsMatch
    <3>2. "failed" \in Statuses
      BY DEF Statuses
    <3>3. /\ o \in OrderIds /\ orders[o].status = "submitting"
          /\ \A x \in Workers : x # w /\ Executing(x) => worker[x].order # o
      BY <1>4, <2>1
    <3> HIDE DEF o, v
    <3>4. worker[w].order = o
      BY DEF o
    <3>5. IInv'
      BY <1>1, <2>1, <2>2, <2>4, <3>1, <3>3, <3>4, StatusChange
    <3>6. Lifecycle!Become(o, "submitting", "failed")
      BY <1>1, <2>1, <2>4, <3>2, <3>3, StatusStep
    <3>7. QED
      BY <3>1, <3>3, <3>5, <3>6 DEF LifecycleStep, Lifecycle!Next, Lifecycle!Fail
  <2>5. QED
    BY <1>13, <2>3, <2>4 DEF WorkerFail
<1>14. CASE WorkerRelease(w)
  BY <1>2, <1>14 DEF WorkerRelease
<1>15. CASE WorkerCrash(w)
  BY <1>2, <1>15 DEF WorkerCrash
<1>16. QED
  BY <1>5, <1>6, <1>7, <1>8, <1>9, <1>10, <1>11, <1>12, <1>13, <1>14, <1>15
  DEF WorkerStep

-----------------------------------------------------------------------------

\* The inductive invariant holds initially.
LEMMA InitIInv == Init => IInv
<1> SUFFICES ASSUME Init PROVE IInv
  OBVIOUS
<1>1. TypeOK
  BY InitTypes
<1>2. /\ \A c \in Cancelers : cancel[c].pc = "idle"
      /\ \A e \in Engines : batch[e] = {}
      /\ \A w \in Workers : worker[w].pc = "idle"
      /\ \A o \in OrderIds : swaps[o] = 0
  BY DEF Init, OrderServiceInit, TriggerEngineInit, ExecutorInit, Idle, Resting
<1>3. VersionsAgree /\ HeldStatuses
  BY <1>2 DEF VersionsAgree, HeldStatuses
<1>4. ExclusiveExecution /\ SwapsMatch
  BY <1>2 DEF ExclusiveExecution, Executing, SwapsMatch
<1>5. QED
  BY <1>1, <1>3, <1>4 DEF IInv

\* Every step keeps the inductive invariant and is a step of the lifecycle.
LEMMA StepIInv ==
  ASSUME IInv, [Next]_vars
  PROVE  IInv' /\ LifecycleStep
<1>1. TypeOK'
  BY StepTypes DEF IInv
<1>2. CASE OrderServiceNext /\ UNCHANGED <<triggerEngineVars, executorVars>>
  BY <1>1, <1>2, CreateInv, CancelInv DEF OrderServiceNext
<1>3. CASE TriggerEngineNext /\ UNCHANGED <<ledgerVars, orderServiceVars, executorVars>>
  BY <1>1, <1>3, EngineInv
<1>4. CASE ExecutorNext /\ UNCHANGED orderServiceVars
  BY <1>1, <1>4, WorkerInv DEF ExecutorNext
<1>5. CASE UNCHANGED vars
  <2>1. UNCHANGED <<orders, cancel, batch, worker, swaps>>
    BY <1>5 DEF vars, orderServiceVars, triggerEngineVars, executorVars
  <2>2. IInv'
    BY <1>1, <2>1 DEF IInv, VersionsAgree, HeldStatuses, ExclusiveExecution,
                      Executing, SwapsMatch
  <2>3. QED
    BY <2>1, <2>2, StutterStep
<1>6. QED
  BY <1>2, <1>3, <1>4, <1>5 DEF Next

\* The inductive invariant holds in every run, for any number of engines, workers,
\* cancelers and orders, and any faults.
THEOREM ExchangeInvariant == Spec => []IInv
<1>1. IInv /\ [Next]_vars => IInv'
  BY StepIInv
<1>2. QED
  BY <1>1, InitIInv, PTL DEF Spec

\* What a process read of an order and has not acted upon yet is never ahead of the
\* table, and where the versions are still equal so are the statuses.
THEOREM ExchangeVersionsAgree == Spec => []VersionsAgree
<1>1. IInv => VersionsAgree
  BY DEF IInv
<1>2. QED
  BY <1>1, ExchangeInvariant, PTL

\* No two workers ever execute the same order, and nobody else changes its row.
THEOREM ExchangeExclusive == Spec => []ExclusiveExecution
<1>1. IInv => ExclusiveExecution
  BY DEF IInv
<1>2. QED
  BY <1>1, ExchangeInvariant, PTL

\* The exchange implements the order lifecycle: whatever races and whatever fails,
\* statuses change along its edges only, and at most one swap is sent per order.
THEOREM ExchangeLifecycle == Spec => LifecycleSpec
<1>1. Init => Lifecycle!Init
  BY DEF Init, OrdersInit, ExecutorInit, Lifecycle!Init
<1>2. IInv /\ [Next]_vars => [Lifecycle!Next]_(Lifecycle!vars)
  BY StepIInv DEF LifecycleStep
<1>3. QED
  BY <1>1, <1>2, ExchangeInvariant, PTL DEF Spec, LifecycleSpec, Lifecycle!Spec

-----------------------------------------------------------------------------
(* What the lifecycle promises, about the status of the orders and their    *)
(* swaps, and so about the exchange.                                        *)

\* In the lifecycle an order has one swap at most, and a status of the table's.
LEMMA LifecycleTypes == Lifecycle!Spec => []Lifecycle!TypeOK
<1> USE DEF Lifecycle!TypeOK, Lifecycle!Statuses
<1>1. Lifecycle!Init => Lifecycle!TypeOK
  BY DEF Lifecycle!Init
<1>2. Lifecycle!TypeOK /\ [Lifecycle!Next]_(Lifecycle!vars) => Lifecycle!TypeOK'
  BY DEF Lifecycle!vars, Lifecycle!Next, Lifecycle!Become, Lifecycle!Create,
         Lifecycle!Trigger, Lifecycle!Cancel, Lifecycle!Submit, Lifecycle!Swap,
         Lifecycle!Fill, Lifecycle!Fail
<1>3. QED
  BY <1>1, <1>2, PTL DEF Lifecycle!Spec

\* Whatever lives by the lifecycle never swaps an order that is canceled or has failed,
\* and has swapped a filled one once.
THEOREM LifecycleSwapSafety == Lifecycle!Spec => []SwapSafety
<1>1. Lifecycle!Init => SwapSafety
  BY DEF Lifecycle!Init, SwapSafety, Lifecycle!SwapSafety
<1>2. Lifecycle!TypeOK /\ SwapSafety /\ [Lifecycle!Next]_(Lifecycle!vars) => SwapSafety'
  <2> USE DEF Lifecycle!TypeOK, Lifecycle!Statuses, SwapSafety, Lifecycle!SwapSafety,
              Lifecycle!Become
  <2> SUFFICES ASSUME Lifecycle!TypeOK, SwapSafety, [Lifecycle!Next]_(Lifecycle!vars)
               PROVE  SwapSafety'
    OBVIOUS
  <2>1. CASE UNCHANGED Lifecycle!vars
    BY <2>1 DEF Lifecycle!vars
  <2>2. ASSUME NEW o \in OrderIds,
               Lifecycle!Create(o) \/ Lifecycle!Trigger(o) \/ Lifecycle!Cancel(o)
                 \/ Lifecycle!Submit(o)
        PROVE  SwapSafety'
    BY <2>2 DEF Lifecycle!Create, Lifecycle!Trigger, Lifecycle!Cancel, Lifecycle!Submit
  <2>3. ASSUME NEW o \in OrderIds, Lifecycle!Swap(o) PROVE SwapSafety'
    BY <2>3 DEF Lifecycle!Swap
  <2>4. ASSUME NEW o \in OrderIds, Lifecycle!Fill(o) \/ Lifecycle!Fail(o)
        PROVE  SwapSafety'
    BY <2>4 DEF Lifecycle!Fill, Lifecycle!Fail
  <2>5. QED
    BY <2>1, <2>2, <2>3, <2>4 DEF Lifecycle!Next
<1>3. QED
  BY <1>1, <1>2, LifecycleTypes, PTL DEF Lifecycle!Spec

\* No order that is canceled or has failed was ever swapped, and a filled one was
\* swapped once: the promise of the lifecycle, which the exchange implements.
THEOREM ExchangeSwapSafety == Spec => []SwapSafety
BY ExchangeLifecycle, LifecycleSwapSafety, PTL DEF LifecycleSpec

-----------------------------------------------------------------------------
(* The funds of canceled, failed and filled orders.                         *)

\* What one entry of type t for order o does to the entries.
LEMMA EntryEffect ==
  ASSUME LedgerTypeOK, NEW o \in OrderIds, NEW t \in EntryTypes, entries' = Entry(o, t)
  PROVE  \A q \in OrderIds, s \in EntryTypes :
           entries'[q][s] = IF q = o /\ s = t THEN entries[q][s] + 1 ELSE entries[q][s]
BY DEF LedgerTypeOK, Entry

\* A release is one release_funds entry of the order.
LEMMA ReleaseEntries ==
  ASSUME LedgerTypeOK, NEW o \in OrderIds,
         ReleaseFunds(LockAccount(o), LockAmount(o), o)
  PROVE  /\ \A q \in OrderIds :
              /\ entries'[q]["lock_funds"] = entries[q]["lock_funds"]
              /\ entries'[q]["filled"] = entries[q]["filled"]
              /\ q # o => entries'[q]["release_funds"] = entries[q]["release_funds"]
         /\ entries'[o]["release_funds"] = entries[o]["release_funds"] + 1
<1>1. entries' = Entry(o, "release_funds")
  BY DEF ReleaseFunds
<1>2. QED
  BY <1>1, EntryEffect DEF EntryTypes

\* A lock is one lock_funds entry of the order.
LEMMA LockEntries ==
  ASSUME LedgerTypeOK, NEW o \in OrderIds, LockFunds(LockAccount(o), LockAmount(o), o)
  PROVE  /\ \A q \in OrderIds :
              /\ entries'[q]["release_funds"] = entries[q]["release_funds"]
              /\ entries'[q]["filled"] = entries[q]["filled"]
              /\ q # o => entries'[q]["lock_funds"] = entries[q]["lock_funds"]
         /\ entries'[o]["lock_funds"] = entries[o]["lock_funds"] + 1
<1>1. entries' = Entry(o, "lock_funds")
  BY DEF LockFunds
<1>2. QED
  BY <1>1, EntryEffect DEF EntryTypes

\* A settlement is one release_funds entry and two fill entries of the order.
LEMMA SettleEntries ==
  ASSUME LedgerTypeOK, NEW o \in OrderIds, NEW k, NEW s, NEW b, NEW x, NEW y, NEW z,
         ProcessFillWithLockRelease(k, s, b, x, y, z, o)
  PROVE  /\ \A q \in OrderIds :
              /\ entries'[q]["lock_funds"] = entries[q]["lock_funds"]
              /\ q # o => entries'[q] = entries[q]
         /\ entries'[o]["release_funds"] = entries[o]["release_funds"] + 1
         /\ entries'[o]["filled"] = entries[o]["filled"] + 2
<1>1. entries' = [entries EXCEPT ![o]["release_funds"] = @ + 1, ![o]["filled"] = @ + 2]
  BY DEF ProcessFillWithLockRelease, Settle
<1>2. entries \in [OrderIds -> [EntryTypes -> Nat]]
  BY DEF LedgerTypeOK
<1>3. QED
  BY <1>1, <1>2 DEF EntryTypes

\* The strengthening that makes CanceledReleased inductive: who has released a lock
\* and still has to write canceled; who settles and which status it has written.
FundsInv ==
  /\ \A o \in OrderIds :
       /\ orders[o].status = "canceled" => entries[o]["release_funds"] > 0
       /\ entries[o]["filled"] > 0 => orders[o].status = "filled"
  /\ \A c \in Cancelers :
       cancel[c].pc = "update" => entries[cancel[c].order]["release_funds"] > 0
  /\ \A w \in Workers :
       worker[w].pc = "settle" => orders[worker[w].order].status = "filled"

\* What a step may do to the state FundsInv speaks of: entries are only added, fill
\* entries only to filled orders; canceled is written after a release only; a cancel
\* and a worker reach "update" and "settle" as FundsInv says.
EntriesGrow ==
  \A o \in OrderIds :
    /\ entries'[o]["release_funds"] >= entries[o]["release_funds"]
    /\ entries'[o]["filled"] = entries[o]["filled"] \/ orders[o].status = "filled"

CanceledLast ==
  \A o \in OrderIds :
    orders'[o].status = "canceled" =>
      orders[o].status = "canceled" \/ entries[o]["release_funds"] > 0

CancelsReleased ==
  \A c \in Cancelers :
    cancel'[c].pc = "update" =>
      cancel'[c] = cancel[c] \/ entries'[cancel'[c].order]["release_funds"] > 0

SettlesFilled ==
  \A w \in Workers :
    worker'[w].pc = "settle" =>
      worker'[w] = worker[w] \/ orders'[worker'[w].order].status = "filled"

FundsStep == EntriesGrow /\ CanceledLast /\ CancelsReleased /\ SettlesFilled

\* What a step leaves alone keeps its part of FundsStep.
LEMMA FundsUnchanged ==
  ASSUME TypeOK
  PROVE  /\ UNCHANGED ledgerVars => EntriesGrow
         /\ UNCHANGED orders => CanceledLast
         /\ UNCHANGED cancel => CancelsReleased
         /\ UNCHANGED worker => SettlesFilled
<1>1. \A o \in OrderIds : entries[o]["release_funds"] \in Nat
  BY DEF TypeOK, LedgerTypeOK, EntryTypes
<1>2. QED
  BY <1>1 DEF ledgerVars, EntriesGrow, CanceledLast, CancelsReleased, SettlesFilled

\* A release, or none, only adds entries.
LEMMA ReleaseGrows ==
  ASSUME TypeOK, NEW o \in OrderIds,
         ReleaseFunds(LockAccount(o), LockAmount(o), o) \/ UNCHANGED ledgerVars
  PROVE  EntriesGrow
<1>1. LedgerTypeOK /\ \A q \in OrderIds : entries[q]["release_funds"] \in Nat
  BY DEF TypeOK, LedgerTypeOK, EntryTypes
<1>2. CASE ReleaseFunds(LockAccount(o), LockAmount(o), o)
  BY <1>1, <1>2, ReleaseEntries DEF EntriesGrow
<1>3. CASE UNCHANGED ledgerVars
  BY <1>3, FundsUnchanged
<1>4. QED
  BY <1>2, <1>3

\* Only a cancel writes canceled.
LEMMA OtherStatus ==
  ASSUME OrdersTypeOK, NEW o \in OrderIds, NEW s \in Statuses \ {"absent", "canceled"},
         NEW v, UpdateStatus(o, s, v)
  PROVE  CanceledLast
<1>1. orders'[o].status = s /\ \A q \in OrderIds : q # o => orders'[q] = orders[q]
  BY UpdateStatusEffect
<1>2. QED
  BY <1>1 DEF CanceledLast

\* The steps of a create request.
LEMMA CreateFunds ==
  ASSUME TypeOK, NEW o \in OrderIds, CreateStep(o) \/ CreateCrash(o),
         UNCHANGED <<triggerEngineVars, executorVars>>
  PROVE  FundsStep
<1>1. UNCHANGED cancel /\ UNCHANGED worker
  BY DEF CreateStep, CreateCheck, CreateLock, CreateInsert, CreateUndo, CreateCrash,
         executorVars
<1>2. EntriesGrow
  <2>1. CASE CreateLock(o)
    <3>1. LedgerTypeOK /\ \A q \in OrderIds : entries[q]["release_funds"] \in Nat
      BY DEF TypeOK, LedgerTypeOK, EntryTypes
    <3>2. CASE LockFunds(LockAccount(o), LockAmount(o), o)
      BY <3>1, <3>2, LockEntries DEF EntriesGrow
    <3>3. QED
      BY <2>1, <3>2, FundsUnchanged DEF CreateLock
  <2>2. CASE CreateUndo(o)
    BY <2>2, ReleaseGrows DEF CreateUndo
  <2>3. QED
    BY <2>1, <2>2, FundsUnchanged
       DEF CreateStep, CreateCheck, CreateInsert, CreateCrash
<1>3. CanceledLast
  <2>1. CASE Insert(o)
    BY <2>1, InsertEffect DEF TypeOK, CanceledLast
  <2>2. QED
    BY <2>1, FundsUnchanged
       DEF CreateStep, CreateCheck, CreateLock, CreateInsert, CreateUndo, CreateCrash
<1>4. QED
  BY <1>1, <1>2, <1>3, FundsUnchanged DEF FundsStep

\* The steps of a cancel request: the release comes before the status.
LEMMA CancelFunds ==
  ASSUME TypeOK, FundsInv, NEW c \in Cancelers,
         \/ \E u \in Users, o \in OrderIds : CancelRead(c, u, o)
         \/ CancelStep(c)
         \/ CancelCrash(c),
         UNCHANGED <<triggerEngineVars, executorVars>>
  PROVE  FundsStep
<1>1. UNCHANGED worker /\ cancel \in [Cancelers -> CancelState]
  BY DEF executorVars, TypeOK, OrderServiceTypeOK
<1>2. ASSUME NEW state, CancelGoes(c, state), state.pc # "update"
      PROVE  CancelsReleased
  BY <1>1, <1>2 DEF CancelGoes, CancelsReleased
<1>3. CASE \E u \in Users, o \in OrderIds : CancelRead(c, u, o)
  BY <1>1, <1>2, <1>3, FundsUnchanged DEF CancelRead, FundsStep
<1>4. CASE CancelCrash(c)
  BY <1>1, <1>2, <1>4, FundsUnchanged DEF CancelCrash, FundsStep, Idle
<1>5. CASE CancelRelease(c)
  <2> DEFINE o == cancel[c].order
  <2>1. /\ cancel[c] \in [pc : {"release", "update"}, order : OrderIds, row : Row]
        /\ o \in OrderIds
    BY <1>5, CancelRow DEF CancelRelease, TypeOK
  <2>2. CASE /\ ReleaseFunds(LockAccount(o), LockAmount(o), o)
             /\ CancelGoes(c, [cancel[c] EXCEPT !.pc = "update"])
    <3>1. cancel'[c].order = o /\ \A d \in Cancelers : d # c => cancel'[d] = cancel[d]
      BY <1>1, <2>1, <2>2 DEF CancelGoes
    <3> HIDE DEF o
    <3>2. LedgerTypeOK /\ entries[o]["release_funds"] \in Nat
      BY <2>1 DEF TypeOK, LedgerTypeOK, EntryTypes
    <3>3. entries'[o]["release_funds"] > 0
      BY <2>1, <2>2, <3>2, ReleaseEntries
    <3>4. CancelsReleased
      BY <3>1, <3>3 DEF CancelsReleased
    <3>5. EntriesGrow
      BY <2>1, <2>2, ReleaseGrows
    <3>6. QED
      BY <1>1, <1>5, <3>4, <3>5, FundsUnchanged DEF CancelRelease, FundsStep
  <2>3. CASE CancelGoes(c, Idle) /\ UNCHANGED ledgerVars
    BY <1>1, <1>2, <1>5, <2>3, FundsUnchanged DEF CancelRelease, FundsStep, Idle
  <2>4. QED
    BY <1>5, <2>2, <2>3 DEF CancelRelease
<1>6. CASE CancelUpdate(c)
  <2>1. cancel[c].order \in OrderIds /\ OrdersTypeOK
    BY <1>6, CancelRow DEF CancelUpdate, TypeOK
  <2>2. CancelsReleased
    BY <1>2, <1>6 DEF CancelUpdate, Idle
  <2>3. CanceledLast
    <3>1. CASE UpdateStatus(cancel[c].order, "canceled", cancel[c].row.version)
      <4>1. \A q \in OrderIds : q # cancel[c].order => orders'[q] = orders[q]
        BY <2>1, <3>1, CanceledEffect
      <4>2. entries[cancel[c].order]["release_funds"] > 0
        BY <1>6 DEF CancelUpdate, FundsInv
      <4>3. QED
        BY <4>1, <4>2 DEF CanceledLast
    <3>2. QED
      BY <1>6, <3>1, FundsUnchanged DEF CancelUpdate
  <2>4. QED
    BY <1>1, <1>6, <2>2, <2>3, FundsUnchanged DEF CancelUpdate, FundsStep
<1>7. QED
  BY <1>3, <1>4, <1>5, <1>6 DEF CancelStep

\* The trigger engines.
LEMMA EngineFunds ==
  ASSUME TypeOK, TriggerEngineNext,
         UNCHANGED <<ledgerVars, orderServiceVars, executorVars>>
  PROVE  FundsStep
<1>1. UNCHANGED ledgerVars /\ UNCHANGED cancel /\ UNCHANGED worker
  BY DEF orderServiceVars, executorVars
<1>2. PICK e \in Engines :
        (\E p \in Prices : EngineTick(e, p)) \/ EngineStep(e) \/ EngineCrash(e)
  BY DEF TriggerEngineNext
<1>3. CanceledLast
  <2>1. CASE EngineTrigger(e)
    <3>1. PICK s \in batch[e] : TriggerOrder(s.order, s.row.version) \/ UNCHANGED orders
      BY <2>1 DEF EngineTrigger
    <3>2. s.order \in OrderIds
      BY DEF TypeOK, TriggerEngineTypeOK, Snapshot
    <3>3. CASE TriggerOrder(s.order, s.row.version)
      BY <3>2, <3>3, OtherStatus DEF TriggerOrder, TypeOK, Statuses
    <3>4. QED
      BY <3>1, <3>3, FundsUnchanged
  <2>2. QED
    BY <1>2, <2>1, FundsUnchanged
       DEF EngineTick, EngineStep, EnginePublish, EngineCrash
<1>4. QED
  BY <1>1, <1>3, FundsUnchanged DEF FundsStep

\* The executor workers: only the one that wrote filled settles.
LEMMA WorkerFunds ==
  ASSUME TypeOK, FundsInv, NEW w \in Workers, WorkerStep(w) \/ WorkerCrash(w),
         UNCHANGED orderServiceVars
  PROVE  FundsStep
<1> DEFINE o == worker[w].order
<1>1. /\ UNCHANGED cancel /\ OrdersTypeOK /\ LedgerTypeOK
      /\ worker \in [Workers -> WorkerState]
  BY DEF orderServiceVars, TypeOK, ExecutorTypeOK
<1>2. worker[w].pc \in ExecutePcs => o \in OrderIds
  BY WorkerRow DEF TypeOK
<1>3. ASSUME NEW state, worker' = [worker EXCEPT ![w] = state], state.pc # "settle"
      PROVE  SettlesFilled
  BY <1>1, <1>3 DEF SettlesFilled
<1>4. WorkerRests(w) => SettlesFilled
  BY <1>1 DEF SettlesFilled, WorkerRests, Resting
<1>5. ASSUME NEW pc, WorkerGoes(w, pc), worker[w].pc \in ExecutePcs
      PROVE  /\ pc # "settle" => SettlesFilled
             /\ worker'[w].order = o
             /\ \A x \in Workers : x # w => worker'[x] = worker[x]
  <2>1. worker[w] \in [pc : ExecutePcs, order : OrderIds, row : Row]
    BY <1>5, WorkerRow DEF TypeOK
  <2>2. worker' = [worker EXCEPT ![w] = [worker[w] EXCEPT !.pc = pc]]
    BY <1>1, <1>5 DEF WorkerGoes
  <2>3. /\ [worker[w] EXCEPT !.pc = pc].pc = pc
        /\ [worker[w] EXCEPT !.pc = pc].order = o
    BY <2>1
  <2>4. QED
    BY <1>1, <1>3, <2>2, <2>3
<1> HIDE DEF o
<1>6. SettlesFilled
  <2>1. CASE WorkerFill(w)
    <3>1. CASE /\ UpdateStatus(o, "filled", worker[w].row.version + 1)
               /\ WorkerGoes(w, "settle")
      <4>1. o \in OrderIds
        BY <1>2, <2>1 DEF WorkerFill, ExecutePcs
      <4>2. orders'[o].status = "filled"
        BY <1>1, <3>1, <4>1, UpdateStatusEffect DEF Statuses
      <4>3. /\ worker'[w].order = o
            /\ \A x \in Workers : x # w => worker'[x] = worker[x]
        BY <1>5, <2>1, <3>1 DEF WorkerFill, ExecutePcs
      <4>4. QED
        BY <4>2, <4>3 DEF SettlesFilled
    <3>2. QED
      BY <1>4, <2>1, <3>1 DEF WorkerFill, o
  <2>2. CASE WorkerConsume(w) \/ WorkerLoad(w)
    BY <1>3, <1>4, <2>2 DEF WorkerConsume, WorkerLoad
  <2>3. CASE WorkerSettle(w) \/ WorkerRelease(w) \/ WorkerCrash(w)
    BY <1>4, <2>3 DEF WorkerSettle, WorkerRelease, WorkerCrash
  <2>6. CASE WorkerClaim(w)
    <3>1. WorkerGoes(w, "swap") \/ WorkerRests(w)
      BY <2>6 DEF WorkerClaim
    <3>2. worker[w].pc \in ExecutePcs
      BY <2>6 DEF WorkerClaim, ExecutePcs
    <3>3. QED
      BY <1>4, <1>5, <3>1, <3>2
  <2>4. CASE WorkerQuoteFails(w) \/ WorkerSubmit(w) \/ WorkerConfirmed(w) \/ WorkerFail(w)
    BY <1>5, <2>4
       DEF WorkerQuoteFails, WorkerSubmit, WorkerConfirmed, WorkerFail, ExecutePcs
  <2>5. QED
    BY <2>1, <2>2, <2>3, <2>4, <2>6 DEF WorkerStep
<1>7. CanceledLast
  <2>1. ASSUME NEW s \in {"submitting", "filled", "failed"}, NEW v,
               UpdateStatus(o, s, v), worker[w].pc \in ExecutePcs
        PROVE  CanceledLast
    BY <1>1, <1>2, <2>1, OtherStatus DEF Statuses
  <2>2. CASE WorkerClaim(w) \/ WorkerFill(w) \/ WorkerFail(w)
    BY <2>1, <2>2, FundsUnchanged DEF WorkerClaim, WorkerFill, WorkerFail, ExecutePcs, o
  <2>3. QED
    BY <2>2, FundsUnchanged
       DEF WorkerStep, WorkerConsume, WorkerLoad, WorkerQuoteFails, WorkerSubmit,
           WorkerConfirmed, WorkerSettle, WorkerRelease, WorkerCrash
<1>8. EntriesGrow
  <2>1. CASE WorkerSettle(w)
    <3>1. o \in OrderIds /\ orders[o].status = "filled"
      BY <1>2, <2>1 DEF WorkerSettle, ExecutePcs, FundsInv, o
    <3>2. ASSUME NEW out, ProcessFillWithLockRelease(LockAccount(o), LockAccount(o),
                            BuyAccount(o), LockAmount(o), LockAmount(o), out, o)
          PROVE  EntriesGrow
      <4>1. \A q \in OrderIds : entries[q]["release_funds"] \in Nat
        BY <1>1 DEF LedgerTypeOK, EntryTypes
      <4>2. QED
        BY <1>1, <3>1, <3>2, <4>1, SettleEntries DEF EntriesGrow
    <3>3. QED
      BY <2>1, <3>2, FundsUnchanged DEF WorkerSettle, o
  <2>2. CASE WorkerRelease(w)
    BY <1>2, <2>2, ReleaseGrows DEF WorkerRelease, ExecutePcs, o
  <2>3. QED
    BY <2>1, <2>2, FundsUnchanged
       DEF WorkerStep, WorkerConsume, WorkerLoad, WorkerClaim, WorkerQuoteFails,
           WorkerSubmit, WorkerConfirmed, WorkerFill, WorkerFail, WorkerCrash
<1>9. QED
  BY <1>1, <1>6, <1>7, <1>8, FundsUnchanged DEF FundsStep

\* Filled and failed are final: no edge of the lifecycle leaves them.
LEMMA FinalKept ==
  ASSUME LifecycleStep, NEW o \in OrderIds, orders[o].status \in {"filled", "failed"}
  PROVE  orders'[o].status = orders[o].status
BY DEF LifecycleStep, Lifecycle!Next, Lifecycle!vars, Lifecycle!Create, Lifecycle!Trigger,
       Lifecycle!Cancel, Lifecycle!Submit, Lifecycle!Swap, Lifecycle!Fill, Lifecycle!Fail,
       Lifecycle!Become

\* Every step keeps FundsInv.
LEMMA StepFunds ==
  ASSUME IInv, FundsInv, [Next]_vars
  PROVE  FundsInv'
<1>1. TypeOK /\ TypeOK' /\ LifecycleStep
  BY StepIInv DEF IInv
<1>2. FundsStep
  <2>1. CASE OrderServiceNext /\ UNCHANGED <<triggerEngineVars, executorVars>>
    BY <1>1, <2>1, CreateFunds, CancelFunds DEF OrderServiceNext
  <2>2. CASE TriggerEngineNext /\ UNCHANGED <<ledgerVars, orderServiceVars, executorVars>>
    BY <1>1, <2>2, EngineFunds
  <2>3. CASE ExecutorNext /\ UNCHANGED orderServiceVars
    BY <1>1, <2>3, WorkerFunds DEF ExecutorNext
  <2>4. CASE UNCHANGED vars
    BY <1>1, <2>4, FundsUnchanged DEF vars, orderServiceVars, executorVars, FundsStep
  <2>5. QED
    BY <2>1, <2>2, <2>3, <2>4 DEF Next
<1>3. \A o \in OrderIds :
        /\ entries[o]["release_funds"] \in Nat /\ entries'[o]["release_funds"] \in Nat
        /\ entries'[o]["release_funds"] >= entries[o]["release_funds"]
  BY <1>1, <1>2 DEF TypeOK, LedgerTypeOK, EntryTypes, FundsStep, EntriesGrow
<1>4. ASSUME NEW o \in OrderIds, orders'[o].status = "canceled"
      PROVE  entries'[o]["release_funds"] > 0
  <2>1. entries[o]["release_funds"] > 0
    BY <1>2, <1>4 DEF FundsInv, FundsStep, CanceledLast
  <2>2. QED
    BY <1>3, <2>1
<1>5. ASSUME NEW o \in OrderIds, entries'[o]["filled"] > 0
      PROVE  orders'[o].status = "filled"
  <2>1. orders[o].status = "filled"
    BY <1>2, <1>5 DEF FundsInv, FundsStep, EntriesGrow
  <2>2. QED
    BY <1>1, <2>1, FinalKept
<1>6. ASSUME NEW c \in Cancelers, cancel'[c].pc = "update"
      PROVE  entries'[cancel'[c].order]["release_funds"] > 0
  <2>1. CASE cancel'[c] = cancel[c]
    <3>1. entries[cancel[c].order]["release_funds"] > 0 /\ cancel[c].pc = "update"
      BY <1>6, <2>1 DEF FundsInv
    <3>2. cancel[c].order \in OrderIds
      BY <1>1, <3>1, CancelRow DEF TypeOK
    <3>3. QED
      BY <1>3, <2>1, <3>1, <3>2
  <2>2. QED
    BY <1>2, <1>6, <2>1 DEF FundsStep, CancelsReleased
<1>7. ASSUME NEW w \in Workers, worker'[w].pc = "settle"
      PROVE  orders'[worker'[w].order].status = "filled"
  <2>1. CASE worker'[w] = worker[w]
    <3>1. worker[w].order \in OrderIds /\ orders[worker[w].order].status = "filled"
      BY <1>1, <1>7, <2>1, WorkerRow DEF TypeOK, FundsInv, ExecutePcs
    <3>2. QED
      BY <1>1, <2>1, <3>1, FinalKept
  <2>2. QED
    BY <1>2, <1>7, <2>1 DEF FundsStep, SettlesFilled
<1>8. QED
  BY <1>4, <1>5, <1>6, <1>7 DEF FundsInv

\* A canceled order has had its lock released, and no canceled or failed order has
\* been settled, whatever races and whatever fails.
THEOREM ExchangeCanceledReleased == Spec => []CanceledReleased
<1>1. Init => FundsInv
  <2> SUFFICES ASSUME Init PROVE FundsInv
    OBVIOUS
  <2>1. /\ \A o \in OrderIds : orders[o].status = "absent" /\ entries[o]["filled"] = 0
        /\ \A c \in Cancelers : cancel[c].pc = "idle"
        /\ \A w \in Workers : worker[w].pc = "idle"
    BY DEF Init, OrdersInit, LedgerInit, OrderServiceInit, ExecutorInit, Idle, Resting,
           EntryTypes
  <2>2. QED
    BY <2>1 DEF FundsInv
<1>2. IInv /\ FundsInv /\ [Next]_vars => FundsInv'
  BY StepFunds
<1>3. IInv /\ FundsInv => CanceledReleased
  <2> SUFFICES ASSUME IInv, FundsInv PROVE CanceledReleased
    OBVIOUS
  <2>1. \A o \in OrderIds : entries[o]["filled"] \in Nat
    BY DEF IInv, TypeOK, LedgerTypeOK, EntryTypes
  <2>2. QED
    BY <2>1 DEF FundsInv, CanceledReleased
<1>4. QED
  BY <1>1, <1>2, <1>3, ExchangeInvariant, PTL DEF Spec

-----------------------------------------------------------------------------
(* Locks, in a system where no statement fails and no process stops.        *)

\* The strengthening of LockHasOrder: where a create request is tells whether the lock
\* was taken and whether the order exists.
CreateLocks ==
  \A o \in OrderIds :
    /\ create[o] # "undo"
    /\ entries[o]["lock_funds"] = IF create[o] \in {"locked", "accepted"} THEN 1 ELSE 0
    /\ orders[o].status # "absent" <=> create[o] = "accepted"

\* A step that locks nothing and creates nothing.
NoNewOrder ==
  /\ UNCHANGED create
  /\ \A o \in OrderIds :
       /\ entries'[o]["lock_funds"] = entries[o]["lock_funds"]
       /\ orders'[o].status = "absent" <=> orders[o].status = "absent"

\* A step that locks nothing and creates nothing keeps CreateLocks.
LEMMA NoNewOrderKeeps ==
  ASSUME CreateLocks, NoNewOrder
  PROVE  CreateLocks'
BY DEF CreateLocks, NoNewOrder

\* A status change, or none, creates no order and deletes none.
LEMMA UpdateExists ==
  ASSUME OrdersTypeOK, NEW o \in OrderIds, NEW s \in Statuses \ {"absent"}, NEW v,
         UpdateStatus(o, s, v) \/ UNCHANGED orders
  PROVE  \A q \in OrderIds : orders'[q].status = "absent" <=> orders[q].status = "absent"
<1>1. CASE UpdateStatus(o, s, v)
  BY <1>1, UpdateStatusEffect
<1>2. CASE UNCHANGED orders
  BY <1>2
<1>3. QED
  BY <1>1, <1>2

\* A release, or none, locks nothing.
LEMMA ReleaseLocksNothing ==
  ASSUME LedgerTypeOK, NEW o \in OrderIds,
         ReleaseFunds(LockAccount(o), LockAmount(o), o) \/ UNCHANGED ledgerVars
  PROVE  \A q \in OrderIds : entries'[q]["lock_funds"] = entries[q]["lock_funds"]
<1>1. CASE ReleaseFunds(LockAccount(o), LockAmount(o), o)
  BY <1>1, ReleaseEntries
<1>2. CASE UNCHANGED ledgerVars
  BY <1>2 DEF ledgerVars
<1>3. QED
  BY <1>1, <1>2

\* The create requests keep CreateLocks and release nothing.
LEMMA CreateKeepsLocks ==
  ASSUME TypeOK, CreateLocks, Faults \cap {"db", "crash"} = {}, NEW o \in OrderIds,
         CreateStep(o) \/ CreateCrash(o)
  PROVE  CreateLocks' /\ \A q \in OrderIds :
                           entries'[q]["release_funds"] = entries[q]["release_funds"]
<1>1. /\ LedgerTypeOK /\ OrdersTypeOK
      /\ create \in [OrderIds -> CreatePhases] /\ create[o] # "undo"
  BY DEF TypeOK, OrderServiceTypeOK, CreateLocks
<1>2. CASE CreateCheck(o)
  BY <1>1, <1>2 DEF CreateCheck, CreateGoes, CreateLocks, ledgerVars
<1>3. CASE CreateLock(o)
  <2>1. CASE LockFunds(LockAccount(o), LockAmount(o), o) /\ CreateGoes(o, "locked")
    <3>1. /\ entries'[o]["lock_funds"] = 1
          /\ \A q \in OrderIds : q # o => entries'[q]["lock_funds"] = entries[q]["lock_funds"]
          /\ \A q \in OrderIds : entries'[q]["release_funds"] = entries[q]["release_funds"]
      BY <1>1, <1>3, <2>1, LockEntries DEF CreateLock, CreateLocks
    <3>2. create' = [create EXCEPT ![o] = "locked"] /\ create[o] = "checked"
      BY <1>3, <2>1 DEF CreateLock, CreateGoes
    <3>3. UNCHANGED orders
      BY <1>3 DEF CreateLock
    <3>4. QED
      BY <1>1, <3>1, <3>2, <3>3 DEF CreateLocks
  <2>2. CASE CreateGoes(o, "rejected") /\ UNCHANGED ledgerVars
    BY <1>1, <1>3, <2>2 DEF CreateLock, CreateGoes, CreateLocks, ledgerVars
  <2>3. QED
    BY <1>3, <2>1, <2>2 DEF CreateLock
<1>4. CASE CreateInsert(o)
  <2>1. Insert(o) /\ CreateGoes(o, "accepted")
    BY <1>4 DEF CreateInsert
  <2>2. /\ orders'[o].status = "open"
        /\ \A q \in OrderIds : q # o => orders'[q] = orders[q]
    BY <1>1, <2>1, InsertEffect
  <2>3. create' = [create EXCEPT ![o] = "accepted"] /\ create[o] = "locked"
    BY <1>4, <2>1 DEF CreateInsert, CreateGoes
  <2>4. UNCHANGED entries
    BY <1>4 DEF CreateInsert, ledgerVars
  <2>5. QED
    BY <1>1, <2>2, <2>3, <2>4 DEF CreateLocks
<1>5. QED
  BY <1>1, <1>2, <1>3, <1>4 DEF CreateStep, CreateUndo, CreateCrash

\* The cancel requests keep CreateLocks.
LEMMA CancelKeepsLocks ==
  ASSUME TypeOK, CreateLocks, NEW c \in Cancelers,
         \/ \E u \in Users, o \in OrderIds : CancelRead(c, u, o)
         \/ CancelStep(c)
         \/ CancelCrash(c)
  PROVE  CreateLocks'
<1>1. LedgerTypeOK /\ OrdersTypeOK
  BY DEF TypeOK
<1>2. CASE CancelRelease(c)
  <2>1. cancel[c].order \in OrderIds
    BY <1>2, CancelRow DEF CancelRelease, TypeOK
  <2>2. NoNewOrder
    BY <1>1, <1>2, <2>1, ReleaseLocksNothing DEF CancelRelease, NoNewOrder
  <2>3. QED
    BY <2>2, NoNewOrderKeeps
<1>3. CASE CancelUpdate(c)
  <2>1. cancel[c].order \in OrderIds
    BY <1>3, CancelRow DEF CancelUpdate, TypeOK
  <2>2. \A q \in OrderIds : orders'[q].status = "absent" <=> orders[q].status = "absent"
    BY <1>1, <1>3, <2>1, UpdateExists DEF CancelUpdate, Statuses
  <2>3. NoNewOrder
    BY <1>3, <2>2 DEF CancelUpdate, NoNewOrder, ledgerVars
  <2>4. QED
    BY <2>3, NoNewOrderKeeps
<1>4. CASE UNCHANGED <<orders, ledgerVars, create>>
  BY <1>4 DEF CreateLocks, ledgerVars
<1>5. QED
  BY <1>2, <1>3, <1>4 DEF CancelStep, CancelRead, CancelCrash

\* The trigger engines keep CreateLocks.
LEMMA EngineKeepsLocks ==
  ASSUME TypeOK, CreateLocks, TriggerEngineNext,
         UNCHANGED <<ledgerVars, orderServiceVars, executorVars>>
  PROVE  CreateLocks'
<1>1. PICK e \in Engines :
        (\E p \in Prices : EngineTick(e, p)) \/ EngineStep(e) \/ EngineCrash(e)
  BY DEF TriggerEngineNext
<1>2. \A q \in OrderIds : orders'[q].status = "absent" <=> orders[q].status = "absent"
  <2>1. CASE EngineTrigger(e)
    <3>1. PICK s \in batch[e] : TriggerOrder(s.order, s.row.version) \/ UNCHANGED orders
      BY <2>1 DEF EngineTrigger
    <3>2. s.order \in OrderIds
      BY DEF TypeOK, TriggerEngineTypeOK, Snapshot
    <3>3. QED
      BY <3>1, <3>2, UpdateExists DEF TriggerOrder, TypeOK, Statuses
  <2>2. QED
    BY <1>1, <2>1 DEF EngineTick, EngineStep, EnginePublish, EngineCrash
<1>3. NoNewOrder
  BY <1>2 DEF NoNewOrder, ledgerVars, orderServiceVars
<1>4. QED
  BY <1>3, NoNewOrderKeeps

\* The executor workers keep CreateLocks.
LEMMA WorkerKeepsLocks ==
  ASSUME TypeOK, CreateLocks, NEW w \in Workers, WorkerStep(w) \/ WorkerCrash(w),
         UNCHANGED orderServiceVars
  PROVE  CreateLocks'
<1> DEFINE o == worker[w].order
<1>1. LedgerTypeOK /\ OrdersTypeOK
  BY DEF TypeOK
<1>2. worker[w].pc \in ExecutePcs => o \in OrderIds
  BY WorkerRow DEF TypeOK
<1> HIDE DEF o
<1>3. \A q \in OrderIds : orders'[q].status = "absent" <=> orders[q].status = "absent"
  <2>1. ASSUME NEW s \in {"submitting", "filled", "failed"}, NEW v,
               UpdateStatus(o, s, v) \/ UNCHANGED orders, worker[w].pc \in ExecutePcs
        PROVE  \A q \in OrderIds :
                 orders'[q].status = "absent" <=> orders[q].status = "absent"
    BY <1>1, <1>2, <2>1, UpdateExists DEF Statuses
  <2>2. CASE WorkerClaim(w) \/ WorkerFill(w) \/ WorkerFail(w)
    BY <2>1, <2>2 DEF WorkerClaim, WorkerFill, WorkerFail, ExecutePcs, o
  <2>3. QED
    BY <2>2 DEF WorkerStep, WorkerConsume, WorkerLoad, WorkerQuoteFails, WorkerSubmit,
                WorkerConfirmed, WorkerSettle, WorkerRelease, WorkerCrash
<1>4. \A q \in OrderIds : entries'[q]["lock_funds"] = entries[q]["lock_funds"]
  <2>1. CASE WorkerSettle(w)
    BY <1>1, <1>2, <2>1, SettleEntries DEF WorkerSettle, ExecutePcs, ledgerVars, o
  <2>2. CASE WorkerRelease(w)
    BY <1>1, <1>2, <2>2, ReleaseLocksNothing DEF WorkerRelease, ExecutePcs, o
  <2>3. QED
    BY <2>1, <2>2
       DEF WorkerStep, WorkerConsume, WorkerLoad, WorkerClaim, WorkerQuoteFails,
           WorkerSubmit, WorkerConfirmed, WorkerFill, WorkerFail, WorkerCrash, ledgerVars
<1>5. NoNewOrder
  BY <1>3, <1>4 DEF NoNewOrder, orderServiceVars
<1>6. QED
  BY <1>5, NoNewOrderKeeps

\* Every step keeps CreateLocks.
LEMMA StepLocks ==
  ASSUME TypeOK, CreateLocks, Faults \cap {"db", "crash"} = {}, [Next]_vars
  PROVE  CreateLocks'
<1>1. CASE OrderServiceNext /\ UNCHANGED <<triggerEngineVars, executorVars>>
  BY <1>1, CreateKeepsLocks, CancelKeepsLocks DEF OrderServiceNext
<1>2. CASE TriggerEngineNext /\ UNCHANGED <<ledgerVars, orderServiceVars, executorVars>>
  BY <1>2, EngineKeepsLocks
<1>3. CASE ExecutorNext /\ UNCHANGED orderServiceVars
  BY <1>3, WorkerKeepsLocks DEF ExecutorNext
<1>4. CASE UNCHANGED vars
  BY <1>4 DEF vars, ledgerVars, orderServiceVars, CreateLocks
<1>5. QED
  BY <1>1, <1>2, <1>3, <1>4 DEF Next

\* CreateLocks holds initially.
LEMMA InitLocks == Init => CreateLocks
BY DEF Init, OrdersInit, LedgerInit, OrderServiceInit, EntryTypes, CreateLocks

\* When statements do not fail and processes do not stop, a lock that is not released
\* belongs to an order, cancels included.
THEOREM ExchangeLockHasOrder ==
  ASSUME Faults \cap {"db", "crash"} = {}
  PROVE  Spec => []LockHasOrder
<1>1. TypeOK /\ CreateLocks /\ [Next]_vars => CreateLocks'
  BY StepLocks
<1>2. TypeOK /\ CreateLocks => LockHasOrder
  <2> SUFFICES ASSUME TypeOK, CreateLocks PROVE LockHasOrder
    OBVIOUS
  <2>1. \A o \in OrderIds :
          create[o] \in CreatePhases /\ entries[o]["release_funds"] \in Nat
    BY DEF TypeOK, OrderServiceTypeOK, LedgerTypeOK, EntryTypes
  <2>2. QED
    BY <2>1 DEF CreateLocks, LockHasOrder, CreatePhases
<1>3. QED
  BY <1>1, <1>2, InitLocks, ExchangeTypes, PTL DEF Spec

-----------------------------------------------------------------------------
(* Releases, in a system nobody cancels orders in either.                   *)

\* A worker that has written the last status of its order and not moved its funds yet.
Closing(w) == worker[w].pc \in {"settle", "release"}

Closed(o) == orders[o].status \in {"filled", "failed"}

\* The strengthening of LockKept: an order that is not closed has its lock, a closed
\* one loses it once, to the one worker that closed it.
ReleasedOnce ==
  /\ \A o \in OrderIds :
       entries[o]["release_funds"] <= IF Closed(o) THEN 1 ELSE 0
  /\ \A w \in Workers :
       Closing(w) =>
         /\ Closed(worker[w].order)
         /\ entries[worker[w].order]["release_funds"] = 0
         /\ \A x \in Workers :
              Closing(x) /\ worker[x].order = worker[w].order => x = w

ReleasesSame ==
  \A o \in OrderIds : entries'[o]["release_funds"] = entries[o]["release_funds"]

\* Steps that release nothing and bring no worker to a settlement or a release.
LEMMA ReleasedFrame ==
  ASSUME TypeOK, ReleasedOnce, LifecycleStep, ReleasesSame,
         \A w \in Workers : Closing(w)' => worker'[w] = worker[w]
  PROVE  ReleasedOnce'
<1>1. \A o \in OrderIds : Closed(o) => Closed(o)'
  BY FinalKept DEF Closed
<1>2. \A o \in OrderIds : entries[o]["release_funds"] \in Nat
  BY DEF TypeOK, LedgerTypeOK, EntryTypes
<1>3. \A w \in Workers : Closing(w)' => Closing(w) /\ worker[w].order \in OrderIds
                                        /\ worker'[w].order = worker[w].order
  BY WorkerRow DEF Closing, TypeOK, ExecutePcs
<1>4. \A o \in OrderIds :
        entries'[o]["release_funds"] <= IF Closed(o)' THEN 1 ELSE 0
  BY <1>1, <1>2 DEF ReleasedOnce, ReleasesSame
<1>5. ASSUME NEW w \in Workers, Closing(w)'
      PROVE  /\ Closed(worker[w].order)'
             /\ entries'[worker'[w].order]["release_funds"] = 0
             /\ \A x \in Workers :
                  Closing(x)' /\ worker'[x].order = worker'[w].order => x = w
  <2>1. /\ Closing(w) /\ worker[w].order \in OrderIds
        /\ worker'[w].order = worker[w].order
    BY <1>3, <1>5
  <2>2. Closed(worker[w].order) /\ entries[worker[w].order]["release_funds"] = 0
    BY <2>1 DEF ReleasedOnce
  <2>3. \A x \in Workers : Closing(x)' /\ worker'[x].order = worker'[w].order => x = w
    BY <1>3, <2>1 DEF ReleasedOnce
  <2>4. orders'[worker'[w].order].status \in {"filled", "failed"}
    BY <1>1, <2>1, <2>2 DEF Closed
  <2>5. entries'[worker[w].order]["release_funds"] = 0
    BY <2>1, <2>2 DEF ReleasesSame
  <2>6. QED
    BY <2>1, <2>3, <2>4, <2>5 DEF Closed
<1>6. QED
  BY <1>3, <1>4, <1>5 DEF ReleasedOnce

\* A worker closes a submitting order and goes on to move its funds.
LEMMA ReleasedClose ==
  ASSUME TypeOK, ReleasedOnce, LifecycleStep, ReleasesSame, NEW w \in Workers,
         NEW o \in OrderIds, orders[o].status = "submitting",
         orders'[o].status \in {"filled", "failed"}, Closing(w)', worker'[w].order = o,
         \A x \in Workers : x # w => worker'[x] = worker[x]
  PROVE  ReleasedOnce'
<1>1. \A q \in OrderIds : Closed(q) => Closed(q)'
  BY FinalKept DEF Closed
<1>2. \A q \in OrderIds : entries[q]["release_funds"] \in Nat
  BY DEF TypeOK, LedgerTypeOK, EntryTypes
<1>3. \A x \in Workers : x # w /\ Closing(x)' =>
        /\ Closing(x) /\ worker[x].order \in OrderIds /\ worker[x].order # o
        /\ worker'[x].order = worker[x].order
  BY WorkerRow DEF Closing, Closed, TypeOK, ExecutePcs, ReleasedOnce
<1>4. \A q \in OrderIds :
        entries'[q]["release_funds"] <= IF Closed(q)' THEN 1 ELSE 0
  BY <1>1, <1>2 DEF ReleasedOnce, ReleasesSame
<1>5. entries[o]["release_funds"] = 0
  BY <1>2 DEF ReleasedOnce, Closed
<1>6. ASSUME NEW x \in Workers, Closing(x)'
      PROVE  /\ Closed(worker[x].order)'
             /\ entries'[worker'[x].order]["release_funds"] = 0
             /\ \A y \in Workers :
                  Closing(y)' /\ worker'[y].order = worker'[x].order => y = x
  <2>1. CASE x = w
    BY <1>3, <1>5, <2>1 DEF ReleasesSame, Closed
  <2>2. CASE x # w
    <3>1. /\ Closing(x) /\ worker[x].order \in OrderIds /\ worker[x].order # o
          /\ worker'[x].order = worker[x].order
      BY <1>3, <1>6, <2>2
    <3>2. Closed(worker[x].order) /\ entries[worker[x].order]["release_funds"] = 0
      BY <3>1 DEF ReleasedOnce
    <3>3. /\ orders'[worker'[x].order].status \in {"filled", "failed"}
          /\ entries'[worker'[x].order]["release_funds"] = 0
      BY <1>1, <3>1, <3>2 DEF ReleasesSame, Closed
    <3>4. \A y \in Workers : Closing(y)' /\ worker'[y].order = worker'[x].order => y = x
      BY <1>3, <3>1 DEF ReleasedOnce
    <3>5. QED
      BY <3>3, <3>4 DEF Closed
  <2>3. QED
    BY <2>1, <2>2
<1>7. QED
  BY <1>4, <1>6 DEF ReleasedOnce

\* The worker that closed an order releases its lock, or cannot, and is done.
LEMMA ReleasedDone ==
  ASSUME TypeOK, ReleasedOnce, UNCHANGED orders, NEW w \in Workers, Closing(w),
         WorkerRests(w),
         \A q \in OrderIds :
           q # worker[w].order => entries'[q]["release_funds"] = entries[q]["release_funds"],
         entries'[worker[w].order]["release_funds"]
           \in {entries[worker[w].order]["release_funds"],
                entries[worker[w].order]["release_funds"] + 1}
  PROVE  ReleasedOnce'
<1> DEFINE o == worker[w].order
<1>1. /\ o \in OrderIds /\ Closed(o) /\ entries[o]["release_funds"] = 0
      /\ \A x \in Workers : Closing(x) /\ worker[x].order = o => x = w
  BY WorkerRow DEF Closing, TypeOK, ExecutePcs, ReleasedOnce
<1> HIDE DEF o
<1>2. \A q \in OrderIds : Closed(q)' <=> Closed(q)
  BY DEF Closed
<1>3. \A q \in OrderIds : entries[q]["release_funds"] \in Nat
  BY DEF TypeOK, LedgerTypeOK, EntryTypes
<1>4. /\ \A q \in OrderIds :
           q # o => entries'[q]["release_funds"] = entries[q]["release_funds"]
      /\ entries'[o]["release_funds"] \in {0, 1}
  BY <1>1 DEF o
<1>5. \A q \in OrderIds : entries'[q]["release_funds"] <= IF Closed(q)' THEN 1 ELSE 0
  BY <1>1, <1>2, <1>3, <1>4 DEF ReleasedOnce
<1>6. /\ ~Closing(w)'
      /\ \A x \in Workers : x # w => worker'[x] = worker[x]
  BY DEF WorkerRests, Resting, Closing, TypeOK, ExecutorTypeOK
<1>7. \A x \in Workers : Closing(x)' =>
        /\ Closing(x) /\ worker'[x] = worker[x]
        /\ worker[x].order \in OrderIds /\ worker[x].order # o
  BY <1>1, <1>6, WorkerRow DEF Closing, TypeOK, ExecutePcs
<1>8. QED
  BY <1>2, <1>4, <1>5, <1>7 DEF ReleasedOnce, Closed

\* Every step of a worker keeps ReleasedOnce: it owns the order it closes.
LEMMA WorkerReleasesOnce ==
  ASSUME IInv, ReleasedOnce, LifecycleStep, Faults \cap {"db", "crash"} = {}, NEW w \in Workers,
         WorkerStep(w) \/ WorkerCrash(w)
  PROVE  ReleasedOnce'
<1> DEFINE o == worker[w].order
<1>1. TypeOK /\ OrdersTypeOK /\ LedgerTypeOK /\ worker \in [Workers -> WorkerState]
  BY DEF IInv, TypeOK, ExecutorTypeOK
<1>2. worker[w].pc \in ExecutePcs => o \in OrderIds
  BY <1>1, WorkerRow DEF TypeOK
<1>3. UNCHANGED ledgerVars => ReleasesSame
  BY DEF ledgerVars, ReleasesSame
<1>4. ASSUME NEW pc, WorkerGoes(w, pc), worker[w].pc \in ExecutePcs
      PROVE  /\ worker'[w].order = o /\ worker'[w].pc = pc
             /\ \A x \in Workers : x # w => worker'[x] = worker[x]
  <2>1. worker[w] \in [pc : ExecutePcs, order : OrderIds, row : Row]
    BY <1>1, <1>4, WorkerRow DEF TypeOK
  <2>2. worker' = [worker EXCEPT ![w] = [worker[w] EXCEPT !.pc = pc]]
    BY <1>1, <1>4 DEF WorkerGoes
  <2>3. QED
    BY <1>1, <2>1, <2>2
<1>5. WorkerRests(w) => \A x \in Workers : Closing(x)' => worker'[x] = worker[x]
  BY <1>1 DEF WorkerRests, Resting, Closing
<1>6. ASSUME NEW pc \in ExecutePcs \ {"settle", "release"}, WorkerGoes(w, pc),
             worker[w].pc \in ExecutePcs
      PROVE  \A x \in Workers : Closing(x)' => worker'[x] = worker[x]
  BY <1>4, <1>6 DEF Closing
<1>7. Executing(w) => /\ orders[o].status = "submitting"
                      /\ VersionIs(o, worker[w].row.version + 1)
  <2>1. Executing(w) => orders[o] = [status |-> "submitting",
                                     version |-> worker[w].row.version + 1]
    BY DEF IInv, ExclusiveExecution
  <2>2. QED
    BY <2>1 DEF VersionIs
<1> HIDE DEF o
<1>8. CASE WorkerConsume(w) \/ WorkerLoad(w)
  <2>1. \A x \in Workers : Closing(x)' => worker'[x] = worker[x]
    BY <1>1, <1>5, <1>8 DEF WorkerConsume, WorkerLoad, Closing
  <2>2. QED
    BY <1>1, <1>3, <1>8, <2>1, ReleasedFrame DEF WorkerConsume, WorkerLoad
<1>9. CASE WorkerClaim(w) \/ WorkerCrash(w)
  <2>1. WorkerCrash(w) => WorkerRests(w)
    BY DEF WorkerCrash
  <2>2. WorkerClaim(w) =>
          WorkerRests(w) \/ (WorkerGoes(w, "swap") /\ worker[w].pc \in ExecutePcs)
    BY DEF WorkerClaim, ExecutePcs
  <2>3. \A x \in Workers : Closing(x)' => worker'[x] = worker[x]
    BY <1>5, <1>6, <1>9, <2>1, <2>2 DEF ExecutePcs
  <2>4. QED
    BY <1>1, <1>3, <1>9, <2>3, ReleasedFrame DEF WorkerClaim, WorkerCrash
<1>10. CASE WorkerQuoteFails(w) \/ WorkerSubmit(w) \/ WorkerConfirmed(w)
  <2>1. \A x \in Workers : Closing(x)' => worker'[x] = worker[x]
    BY <1>6, <1>10 DEF WorkerQuoteFails, WorkerSubmit, WorkerConfirmed, ExecutePcs
  <2>2. QED
    BY <1>1, <1>3, <1>10, <2>1, ReleasedFrame
       DEF WorkerQuoteFails, WorkerSubmit, WorkerConfirmed
<1>11. CASE WorkerFill(w)
  <2>1. worker[w].pc \in ExecutePcs /\ UNCHANGED ledgerVars
    BY <1>11 DEF WorkerFill, ExecutePcs
  <2>2. CASE /\ UpdateStatus(o, "filled", worker[w].row.version + 1)
             /\ WorkerGoes(w, "settle")
    <3>1. orders'[o].status = "filled"
      BY <1>1, <1>2, <2>1, <2>2, UpdateStatusEffect DEF Statuses
    <3>2. orders[o].status = "submitting"
      BY <1>7, <1>11 DEF WorkerFill, Executing
    <3>3. /\ worker'[w].order = o /\ worker'[w].pc = "settle"
          /\ \A x \in Workers : x # w => worker'[x] = worker[x]
      BY <1>4, <2>1, <2>2
    <3>4. Closing(w)'
      BY <3>3 DEF Closing
    <3>5. QED
      BY <1>1, <1>2, <1>3, <2>1, <3>1, <3>2, <3>3, <3>4, ReleasedClose
  <2>3. CASE WorkerRests(w)
    BY <1>1, <1>3, <1>5, <2>1, <2>3, ReleasedFrame
  <2>4. QED
    BY <1>11, <2>2, <2>3 DEF WorkerFill, o
<1>12. CASE WorkerFail(w)
  <2>1. /\ worker[w].pc \in ExecutePcs /\ UNCHANGED ledgerVars
        /\ WorkerGoes(w, "release")
    BY <1>12 DEF WorkerFail, ExecutePcs
  <2>2. /\ orders[o].status = "submitting"
        /\ ~UpdateFails(o, worker[w].row.version + 1)
    BY <1>7, <1>12 DEF WorkerFail, Executing, UpdateFails
  <2>3. UpdateStatus(o, "failed", worker[w].row.version + 1)
    BY <1>12, <2>2 DEF WorkerFail, o
  <2>4. orders'[o].status = "failed"
    BY <1>1, <1>2, <2>1, <2>3, UpdateStatusEffect DEF Statuses
  <2>5. /\ worker'[w].order = o /\ worker'[w].pc = "release"
        /\ \A x \in Workers : x # w => worker'[x] = worker[x]
    BY <1>4, <2>1
  <2>6. Closing(w)'
    BY <2>5 DEF Closing
  <2>7. QED
    BY <1>1, <1>2, <1>3, <2>1, <2>2, <2>4, <2>5, <2>6, ReleasedClose
<1>13. CASE WorkerSettle(w)
  <2>1. /\ worker[w].pc \in ExecutePcs /\ Closing(w) /\ WorkerRests(w)
        /\ UNCHANGED orders
    BY <1>13 DEF WorkerSettle, ExecutePcs, Closing
  <2>2. /\ \A q \in OrderIds :
             q # o => entries'[q]["release_funds"] = entries[q]["release_funds"]
        /\ entries'[o]["release_funds"]
              \in {entries[o]["release_funds"], entries[o]["release_funds"] + 1}
    BY <1>1, <1>2, <1>13, <2>1, SettleEntries DEF WorkerSettle, ledgerVars, o
  <2>3. QED
    BY <1>1, <2>1, <2>2, ReleasedDone DEF o
<1>14. CASE WorkerRelease(w)
  <2>1. /\ worker[w].pc \in ExecutePcs /\ Closing(w) /\ WorkerRests(w)
        /\ UNCHANGED orders
    BY <1>14 DEF WorkerRelease, ExecutePcs, Closing
  <2>2. /\ \A q \in OrderIds :
             q # o => entries'[q]["release_funds"] = entries[q]["release_funds"]
        /\ entries'[o]["release_funds"]
              \in {entries[o]["release_funds"], entries[o]["release_funds"] + 1}
    BY <1>1, <1>2, <1>14, <2>1, ReleaseEntries DEF WorkerRelease, ledgerVars, o
  <2>3. QED
    BY <1>1, <2>1, <2>2, ReleasedDone DEF o
<1>15. QED
  BY <1>8, <1>9, <1>10, <1>11, <1>12, <1>13, <1>14 DEF WorkerStep

\* Every step keeps ReleasedOnce.
LEMMA StepReleased ==
  ASSUME IInv, CreateLocks, ReleasedOnce, Faults \cap {"db", "crash"} = {}, Cancelers = {},
         [Next]_vars
  PROVE  ReleasedOnce'
<1>1. TypeOK /\ LifecycleStep
  BY StepIInv DEF IInv
<1>2. CASE OrderServiceNext /\ UNCHANGED <<triggerEngineVars, executorVars>>
  <2>1. PICK o \in OrderIds : CreateStep(o) \/ CreateCrash(o)
    BY <1>2 DEF OrderServiceNext
  <2>2. ReleasesSame
    BY <1>1, <2>1, CreateKeepsLocks DEF ReleasesSame
  <2>3. QED
    BY <1>1, <1>2, <2>2, ReleasedFrame DEF executorVars
<1>3. CASE \/ TriggerEngineNext /\ UNCHANGED <<ledgerVars, orderServiceVars, executorVars>>
           \/ UNCHANGED vars
  <2>1. UNCHANGED ledgerVars /\ UNCHANGED worker
    BY <1>3 DEF vars, executorVars
  <2>2. ReleasesSame
    BY <2>1 DEF ReleasesSame, ledgerVars
  <2>3. QED
    BY <1>1, <2>1, <2>2, ReleasedFrame
<1>4. CASE ExecutorNext /\ UNCHANGED orderServiceVars
  BY <1>1, <1>4, WorkerReleasesOnce DEF ExecutorNext
<1>5. QED
  BY <1>2, <1>3, <1>4 DEF Next

\* ReleasedOnce holds initially.
LEMMA InitReleased == Init => ReleasedOnce
<1> SUFFICES ASSUME Init PROVE ReleasedOnce
  OBVIOUS
<1>1. /\ \A o \in OrderIds : entries[o]["release_funds"] = 0
      /\ \A w \in Workers : worker[w].pc = "idle"
  BY DEF Init, LedgerInit, ExecutorInit, Resting, EntryTypes
<1>2. QED
  BY <1>1 DEF ReleasedOnce, Closing

\* When nobody cancels, no statement fails and no process stops, an order keeps its
\* lock while it is active and loses it at most once.
THEOREM ExchangeLockKept ==
  ASSUME Faults \cap {"db", "crash"} = {}, Cancelers = {}
  PROVE  Spec => []LockKept
<1>1. TypeOK /\ CreateLocks /\ [Next]_vars => CreateLocks'
  BY StepLocks
<1>2. IInv /\ CreateLocks /\ ReleasedOnce /\ [Next]_vars => ReleasedOnce'
  BY StepReleased
<1>3. TypeOK /\ CreateLocks /\ ReleasedOnce => LockKept
  <2> SUFFICES ASSUME TypeOK, CreateLocks, ReleasedOnce PROVE LockKept
    OBVIOUS
  <2>1. \A o \in OrderIds :
          entries[o]["release_funds"] \in Nat /\ entries[o]["lock_funds"] \in Nat
    BY DEF TypeOK, LedgerTypeOK, EntryTypes
  <2>2. \A o \in OrderIds :
          Closed(o) \/ Active(o) => create[o] = "accepted" /\ entries[o]["lock_funds"] = 1
    BY DEF CreateLocks, Closed, Active
  <2>3. QED
    BY <2>1, <2>2 DEF ReleasedOnce, LockKept, Closed, Active
<1>4. QED
  BY <1>1, <1>2, <1>3, InitLocks, InitReleased, ExchangeTypes, ExchangeInvariant, PTL DEF Spec

-----------------------------------------------------------------------------
(* Locked balances against the locks that the ledger entries record.        *)

\* The entries of an order add up to an amount.
LEMMA LocksHeldType ==
  ASSUME NEW e \in [OrderIds -> [EntryTypes -> Nat]]
  PROVE  [o \in OrderIds |-> LockAmount(o) * (e[o]["lock_funds"] - e[o]["release_funds"])]
           \in [OrderIds -> Int]
<1>1. \A x, y \in Int : x * y \in Int
  OBVIOUS
<1>2. \A o \in OrderIds :
        LockAmount(o) \in Int /\ e[o]["lock_funds"] - e[o]["release_funds"] \in Int
  BY OrderAmounts DEF EntryTypes
<1>3. QED
  BY <1>1, <1>2

\* One more lock of an order, or one less, in its wallet and in its entries.
LEMMA LockCounted ==
  ASSUME IsFiniteSet(OrderIds), LedgerTypeOK, LedgerTypeOK', LocksAccounted,
         NEW o \in OrderIds, NEW n \in {1, -1},
         \A a \in Accounts : locked'[a] = locked[a] + (IF a = LockAccount(o)
                                                       THEN n * LockAmount(o) ELSE 0),
         \A q \in OrderIds :
           entries'[q]["lock_funds"] - entries'[q]["release_funds"]
             = (entries[q]["lock_funds"] - entries[q]["release_funds"])
                 + (IF q = o THEN n ELSE 0)
  PROVE  LocksAccounted'
<1> DEFINE Of(a) == {q \in OrderIds : LockAccount(q) = a}
<1>1. LocksHeld \in [OrderIds -> Int] /\ LocksHeld' \in [OrderIds -> Int]
  <2>1. /\ entries \in [OrderIds -> [EntryTypes -> Nat]]
        /\ entries' \in [OrderIds -> [EntryTypes -> Nat]]
    BY DEF LedgerTypeOK
  <2>2. QED
    BY <2>1, LocksHeldType DEF LocksHeld
<1>2. \A q \in OrderIds :
        /\ LockAmount(q) \in Int
        /\ entries[q]["lock_funds"] - entries[q]["release_funds"] \in Int
  BY OrderAmounts DEF LedgerTypeOK, EntryTypes
<1>3. /\ LocksHeld'[o] = LocksHeld[o] + n * LockAmount(o)
      /\ \A q \in OrderIds : q # o => LocksHeld'[q] = LocksHeld[q]
  <2>1. \A x, y \in Int : x * (y + n) = x * y + n * x
    OBVIOUS
  <2>2. QED
    BY <1>2, <2>1 DEF LocksHeld
<1>4. ASSUME NEW a \in Accounts
      PROVE  locked'[a] = SumFunctionOnSet(LocksHeld', Of(a))
  <2>1. Of(a) \in SUBSET OrderIds /\ IsFiniteSet(Of(a))
    BY FS_Subset
  <2>2. locked[a] = SumFunctionOnSet(LocksHeld, Of(a))
    BY DEF LocksAccounted
  <2>3. ASSUME NEW f \in [OrderIds -> Int], NEW g \in [OrderIds -> Int],
               \A q \in OrderIds : q # o => g[q] = f[q]
        PROVE  SumFunctionOnSet(g, Of(a))
                 = SumFunctionOnSet(f, Of(a)) + (IF o \in Of(a) THEN g[o] - f[o] ELSE 0)
    <3> HIDE DEF Of
    <3>1. QED
      BY <2>1, <2>3, SumChange
  <2>4. SumFunctionOnSet(LocksHeld', Of(a))
          = SumFunctionOnSet(LocksHeld, Of(a))
              + (IF o \in Of(a) THEN LocksHeld'[o] - LocksHeld[o] ELSE 0)
    <3> HIDE DEF Of
    <3>1. QED
      BY <1>1, <1>3, <2>3
  <2>5. LocksHeld[o] \in Int /\ n * LockAmount(o) \in Int
    <3>1. CASE n = 1
      BY <1>1, <1>2, <3>1
    <3>2. CASE n = -1
      BY <1>1, <1>2, <3>2
    <3>3. QED
      BY <3>1, <3>2
  <2>6. LocksHeld'[o] - LocksHeld[o] = n * LockAmount(o)
    BY <1>3, <2>5
  <2>7. QED
    BY <2>2, <2>4, <2>6
<1>5. QED
  BY <1>4 DEF LocksAccounted

\* What becomes of the locked balances when one changes by x, one amount more or less.
LEMMA LockMoved ==
  ASSUME LedgerTypeOK, NEW a \in Accounts, NEW m \in Nat, NEW n \in {1, -1}, NEW x \in Int,
         locked' = Plus(locked, a, x), x = IF n = 1 THEN m ELSE -m
  PROVE  \A b \in Accounts : locked'[b] = locked[b] + (IF b = a THEN n * m ELSE 0)
<1>1. n * m = x
  <2>1. 1 * m = m /\ (-1) * m = -m
    OBVIOUS
  <2>2. QED
    BY <2>1
<1>2. locked \in [Accounts -> Int]
  BY DEF LedgerTypeOK
<1>3. SUFFICES ASSUME NEW b \in Accounts
               PROVE  locked'[b] = locked[b] + (IF b = a THEN x ELSE 0)
  BY <1>1
<1>4. locked'[b] = (IF b = a THEN locked[a] + x ELSE locked[b]) /\ locked[b] \in Int
  BY <1>2, PlusType
<1>5. QED
  BY <1>4

\* A lock counts as one.
LEMMA LockIsCounted ==
  ASSUME IsFiniteSet(OrderIds), LedgerTypeOK, LocksAccounted, NEW o \in OrderIds,
         LockFunds(LockAccount(o), LockAmount(o), o)
  PROVE  LocksAccounted'
<1>1. LedgerTypeOK' /\ LockAccount(o) \in Accounts /\ LockAmount(o) \in Nat
  BY OrderAmounts, LockFundsType
<1>2. \A a \in Accounts : locked'[a] = locked[a] + (IF a = LockAccount(o)
                                                    THEN 1 * LockAmount(o) ELSE 0)
  <2>1. locked' = Plus(locked, LockAccount(o), -(-LockAmount(o)))
    BY DEF LockFunds, MoveLocked
  <2>2. QED
    BY <1>1, <2>1, LockMoved
<1>3. \A q \in OrderIds :
        entries'[q]["lock_funds"] - entries'[q]["release_funds"]
          = (entries[q]["lock_funds"] - entries[q]["release_funds"])
              + (IF q = o THEN 1 ELSE 0)
  <2>1. \A q \in OrderIds : entries[q]["lock_funds"] \in Nat /\ entries[q]["release_funds"] \in Nat
    BY DEF LedgerTypeOK, EntryTypes
  <2>2. QED
    BY <2>1, LockEntries
<1>4. QED
  BY <1>1, <1>2, <1>3, LockCounted

\* A release counts as one less.
LEMMA ReleaseIsCounted ==
  ASSUME IsFiniteSet(OrderIds), LedgerTypeOK, LocksAccounted, NEW o \in OrderIds,
         ReleaseFunds(LockAccount(o), LockAmount(o), o)
  PROVE  LocksAccounted'
<1>1. LedgerTypeOK' /\ LockAccount(o) \in Accounts /\ LockAmount(o) \in Nat
  BY OrderAmounts, ReleaseFundsType
<1>2. \A a \in Accounts : locked'[a] = locked[a] + (IF a = LockAccount(o)
                                                    THEN (-1) * LockAmount(o) ELSE 0)
  <2>1. locked' = Plus(locked, LockAccount(o), -LockAmount(o))
    BY DEF ReleaseFunds, MoveLocked
  <2>2. QED
    BY <1>1, <2>1, LockMoved
<1>3. \A q \in OrderIds :
        entries'[q]["lock_funds"] - entries'[q]["release_funds"]
          = (entries[q]["lock_funds"] - entries[q]["release_funds"])
              + (IF q = o THEN -1 ELSE 0)
  <2>1. \A q \in OrderIds : entries[q]["lock_funds"] \in Nat /\ entries[q]["release_funds"] \in Nat
    BY DEF LedgerTypeOK, EntryTypes
  <2>2. QED
    BY <2>1, ReleaseEntries
<1>4. QED
  BY <1>1, <1>2, <1>3, LockCounted

\* A settlement counts as one less: what it sells and buys is not locked.
LEMMA SettleIsCounted ==
  ASSUME IsFiniteSet(OrderIds), LedgerTypeOK, LocksAccounted, NEW o \in OrderIds,
         NEW out \in Nat,
         ProcessFillWithLockRelease(LockAccount(o), LockAccount(o), BuyAccount(o),
                                    LockAmount(o), LockAmount(o), out, o)
  PROVE  LocksAccounted'
<1>1. LedgerTypeOK' /\ LockAccount(o) \in Accounts /\ LockAmount(o) \in Nat
  BY OrderAmounts, FillType
<1>2. \A a \in Accounts : locked'[a] = locked[a] + (IF a = LockAccount(o)
                                                    THEN (-1) * LockAmount(o) ELSE 0)
  <2>1. locked' = Plus(locked, LockAccount(o), -LockAmount(o))
    BY DEF ProcessFillWithLockRelease, Settle
  <2>2. QED
    BY <1>1, <2>1, LockMoved
<1>3. \A q \in OrderIds :
        entries'[q]["lock_funds"] - entries'[q]["release_funds"]
          = (entries[q]["lock_funds"] - entries[q]["release_funds"])
              + (IF q = o THEN -1 ELSE 0)
  <2>1. \A q \in OrderIds : entries[q]["lock_funds"] \in Nat /\ entries[q]["release_funds"] \in Nat
    BY DEF LedgerTypeOK, EntryTypes
  <2>2. QED
    BY <2>1, SettleEntries
<1>4. QED
  BY <1>1, <1>2, <1>3, LockCounted

\* What any step does to the wallets and the ledger: nothing, or one transaction.
LedgerStep ==
  \/ UNCHANGED ledgerVars
  \/ \E o \in OrderIds :
       \/ LockFunds(LockAccount(o), LockAmount(o), o)
       \/ ReleaseFunds(LockAccount(o), LockAmount(o), o)
       \/ \E out \in QuoteOut :
            ProcessFillWithLockRelease(LockAccount(o), LockAccount(o), BuyAccount(o),
                                       LockAmount(o), LockAmount(o), out, o)

\* Every step of every process is such a transaction, or none.
LEMMA StepLedger ==
  ASSUME TypeOK, [Next]_vars
  PROVE  LedgerStep
<1>1. ASSUME NEW o \in OrderIds, CreateStep(o) \/ CreateCrash(o) PROVE LedgerStep
  BY <1>1 DEF LedgerStep, CreateStep, CreateCheck, CreateLock, CreateInsert, CreateUndo,
              CreateCrash
<1>2. ASSUME NEW c \in Cancelers,
             \/ \E u \in Users, o \in OrderIds : CancelRead(c, u, o)
             \/ CancelStep(c) \/ CancelCrash(c)
      PROVE  LedgerStep
  <2>1. CASE CancelRelease(c)
    <3>1. cancel[c].order \in OrderIds
      BY <2>1, CancelRow DEF CancelRelease, TypeOK
    <3>2. QED
      BY <2>1, <3>1 DEF CancelRelease, LedgerStep
  <2>2. QED
    BY <1>2, <2>1 DEF CancelStep, CancelRead, CancelUpdate, CancelCrash, LedgerStep
<1>3. ASSUME NEW w \in Workers, WorkerStep(w) \/ WorkerCrash(w) PROVE LedgerStep
  <2>1. CASE WorkerSettle(w) \/ WorkerRelease(w)
    <3>1. worker[w].order \in OrderIds
      BY <2>1, WorkerRow DEF WorkerSettle, WorkerRelease, ExecutePcs, TypeOK
    <3>2. QED
      BY <2>1, <3>1 DEF WorkerSettle, WorkerRelease, LedgerStep
  <2>2. QED
    BY <1>3, <2>1
       DEF WorkerStep, WorkerConsume, WorkerLoad, WorkerClaim, WorkerQuoteFails,
           WorkerSubmit, WorkerConfirmed, WorkerFill, WorkerFail, WorkerCrash, LedgerStep
<1>4. QED
  BY <1>1, <1>2, <1>3 DEF Next, OrderServiceNext, ExecutorNext, vars, LedgerStep

\* Every step of every process keeps the account.
LEMMA StepLocksAccounted ==
  ASSUME IsFiniteSet(OrderIds), TypeOK, LocksAccounted, [Next]_vars
  PROVE  LocksAccounted'
<1>1. LedgerTypeOK /\ LedgerStep
  BY StepLedger DEF TypeOK
<1>2. CASE UNCHANGED ledgerVars
  BY <1>2 DEF ledgerVars, LocksAccounted, LocksHeld
<1>3. ASSUME NEW o \in OrderIds, LockFunds(LockAccount(o), LockAmount(o), o)
      PROVE  LocksAccounted'
  BY <1>1, <1>3, LockIsCounted
<1>4. ASSUME NEW o \in OrderIds, ReleaseFunds(LockAccount(o), LockAmount(o), o)
      PROVE  LocksAccounted'
  BY <1>1, <1>4, ReleaseIsCounted
<1>5. ASSUME NEW o \in OrderIds, NEW out \in QuoteOut,
             ProcessFillWithLockRelease(LockAccount(o), LockAccount(o), BuyAccount(o),
                                        LockAmount(o), LockAmount(o), out, o)
      PROVE  LocksAccounted'
  <2>1. out \in Nat
    BY ExecutorAssumption
  <2>2. QED
    BY <1>1, <1>5, <2>1, SettleIsCounted
<1>6. QED
  BY <1>1, <1>2, <1>3, <1>4, <1>5 DEF LedgerStep

\* Whatever fails, crashes or races: what is locked on an account is what the ledger
\* entries of its orders locked and did not release.
THEOREM ExchangeLocksAccounted ==
  ASSUME IsFiniteSet(OrderIds)
  PROVE  Spec => []LocksAccounted
<1>1. Init => LocksAccounted
  <2> SUFFICES ASSUME Init, NEW a \in Accounts
               PROVE  locked[a] = SumFunctionOnSet(LocksHeld,
                                    {o \in OrderIds : LockAccount(o) = a})
    BY DEF LocksAccounted
  <2>1. LedgerTypeOK /\ locked[a] = 0
    BY InitTypes DEF Init, LedgerInit, TypeOK
  <2>2. \A o \in OrderIds : LocksHeld[o] = 0
    <3>1. \A o \in OrderIds :
            entries[o]["lock_funds"] - entries[o]["release_funds"] = 0
      BY DEF Init, LedgerInit, EntryTypes
    <3>2. \A x \in Nat : x * 0 = 0
      OBVIOUS
    <3>3. QED
      BY <3>1, <3>2, OrderAmounts DEF LocksHeld
  <2>3. QED
    BY <2>1, <2>2, FS_Subset, SumZero
<1>2. TypeOK /\ LocksAccounted /\ [Next]_vars => LocksAccounted'
  BY StepLocksAccounted
<1>3. QED
  BY <1>1, <1>2, ExchangeTypes, PTL DEF Spec

-----------------------------------------------------------------------------
(* Settlements, where nothing but a quote can fail.                         *)

\* No balance is overdrawn, the wallet rows stay what they are, and every lock is on a
\* row: what a settlement needs besides its lock.
Covered ==
  /\ rows = OpenRows
  /\ \A a \in Accounts : available[a] >= 0
  /\ \A o \in OrderIds : entries[o]["lock_funds"] > 0 => LockAccount(o) \in rows

\* Every ledger transaction keeps balances from being overdrawn.
LEMMA StepCovered ==
  ASSUME TypeOK, Covered, [Next]_vars
  PROVE  Covered'
<1>1. LedgerTypeOK /\ LedgerStep /\ available \in [Accounts -> Int]
  BY StepLedger DEF TypeOK, LedgerTypeOK
<1>2. CASE UNCHANGED ledgerVars
  BY <1>2 DEF ledgerVars, Covered
<1>3. ASSUME NEW o \in OrderIds, LockFunds(LockAccount(o), LockAmount(o), o)
      PROVE  Covered'
  <2>1. /\ LockAccount(o) \in rows /\ rows' = rows
        /\ available[LockAccount(o)] >= LockAmount(o)
        /\ available' = Plus(available, LockAccount(o), -LockAmount(o))
    BY <1>3 DEF LockFunds, SufficientBalance, MoveLocked
  <2>2. \A q \in OrderIds : q # o => entries'[q]["lock_funds"] = entries[q]["lock_funds"]
    BY <1>1, <1>3, LockEntries
  <2>3. \A a \in Accounts : available'[a] >= 0
    <3>1. LockAccount(o) \in Accounts /\ LockAmount(o) \in Int /\ -LockAmount(o) \in Int
      BY OrderAmounts
    <3>2. QED
      BY <1>1, <2>1, <3>1 DEF Covered, Plus
  <2>4. QED
    BY <2>1, <2>2, <2>3 DEF Covered
<1>4. ASSUME NEW o \in OrderIds, ReleaseFunds(LockAccount(o), LockAmount(o), o)
      PROVE  Covered'
  <2>1. /\ rows' = rows
        /\ available' = Plus(available, LockAccount(o), LockAmount(o))
    BY <1>4 DEF ReleaseFunds, MoveLocked
  <2>2. \A q \in OrderIds : entries'[q]["lock_funds"] = entries[q]["lock_funds"]
    BY <1>1, <1>4, ReleaseEntries
  <2>3. \A a \in Accounts : available'[a] >= 0
    BY <1>1, <2>1, OrderAmounts DEF Covered, Plus
  <2>4. QED
    BY <2>1, <2>2, <2>3 DEF Covered
<1>5. ASSUME NEW o \in OrderIds, NEW out \in QuoteOut,
             ProcessFillWithLockRelease(LockAccount(o), LockAccount(o), BuyAccount(o),
                                        LockAmount(o), LockAmount(o), out, o)
      PROVE  Covered'
  <2> DEFINE lock == LockAccount(o)  m == LockAmount(o)  buy == BuyAccount(o)
             released == Plus(available, lock, m)
             sold == Plus(released, lock, -m)
  <2>1. rows' = rows /\ available' = Plus(sold, buy, out)
    BY <1>5 DEF ProcessFillWithLockRelease, Settle
  <2>2. \A q \in OrderIds : entries'[q]["lock_funds"] = entries[q]["lock_funds"]
    BY <1>1, <1>5, SettleEntries
  <2>3. lock \in Accounts /\ buy \in Accounts /\ m \in Int /\ -m \in Int /\ out \in Nat
    BY OrderAmounts, ExecutorAssumption
  <2> HIDE DEF lock, m, buy
  <2>4. /\ released \in [Accounts -> Int]
        /\ \A b \in Accounts : released[b] = IF b = lock THEN available[b] + m
                                                       ELSE available[b]
    BY <1>1, <2>3 DEF Plus, released
  <2> HIDE DEF released
  <2>5. /\ sold \in [Accounts -> Int]
        /\ \A b \in Accounts : sold[b] = available[b]
    <3>1. /\ sold \in [Accounts -> Int]
          /\ \A b \in Accounts : sold[b] = IF b = lock THEN released[b] + -m ELSE released[b]
      BY <2>3, <2>4 DEF Plus, sold
    <3>2. QED
      BY <1>1, <2>3, <2>4, <3>1
  <2> HIDE DEF sold
  <2>6. \A b \in Accounts : available'[b] >= 0
    BY <1>1, <2>1, <2>3, <2>5 DEF Covered, Plus
  <2>7. QED
    BY <2>1, <2>2, <2>6 DEF Covered
<1>6. QED
  BY <1>1, <1>2, <1>3, <1>4, <1>5 DEF LedgerStep

\* Every ledger transaction of the exchange is booked.
LEMMA StepBooks ==
  ASSUME TypeOK, TypeOK', BooksMatch, [Next]_vars
  PROVE  BooksMatch'
<1>1. LedgerTypeOK /\ LedgerTypeOK' /\ LedgerStep
  BY StepLedger DEF TypeOK
<1>2. CASE UNCHANGED ledgerVars
  BY <1>2 DEF ledgerVars, BooksMatch
<1>3. ASSUME NEW o \in OrderIds, \/ LockFunds(LockAccount(o), LockAmount(o), o)
                                 \/ ReleaseFunds(LockAccount(o), LockAmount(o), o)
      PROVE  Booked
  BY <1>1, <1>3, OrderAmounts, LockBooked
<1>4. ASSUME NEW o \in OrderIds, NEW out \in QuoteOut,
             ProcessFillWithLockRelease(LockAccount(o), LockAccount(o), BuyAccount(o),
                                        LockAmount(o), LockAmount(o), out, o)
      PROVE  Booked
  <2>1. out \in Nat
    BY ExecutorAssumption
  <2>2. QED
    BY <1>1, <1>4, <2>1, OrderAmounts, FillBooked
<1>5. QED
  BY <1>1, <1>2, <1>3, <1>4, BooksStay DEF LedgerStep

\* Whatever fails, crashes or races, the entries explain every balance.
THEOREM ExchangeBooks == Spec => []BooksMatch
<1>1. Init => BooksMatch
  BY BooksStart DEF Init
<1>2. TypeOK /\ TypeOK' /\ BooksMatch /\ [Next]_vars => BooksMatch'
  BY StepBooks
<1>3. QED
  BY <1>1, <1>2, ExchangeTypes, PTL DEF Spec

\* Whatever fails, crashes or races, nothing is overdrawn.
THEOREM ExchangeSolvent == Spec => [](\A a \in Accounts : available[a] >= 0 /\ locked[a] >= 0)
<1>1. Init => Covered
  BY LedgerAssumption DEF Init, LedgerInit, Covered, EntryTypes
<1>2. TypeOK /\ Covered /\ [Next]_vars => Covered'
  BY StepCovered
<1>3. TypeOK /\ Covered => \A a \in Accounts : available[a] >= 0 /\ locked[a] >= 0
  BY DEF TypeOK, LedgerTypeOK, Covered
<1>4. QED
  BY <1>1, <1>2, <1>3, ExchangeTypes, PTL DEF Spec

\* A worker that has to settle can: the order still has its one lock, which is part of
\* what is locked on its account.
LEMMA SettleSucceeds ==
  ASSUME IsFiniteSet(OrderIds), \A o \in OrderIds : BuyAccount(o) \in OpenRows,
         TypeOK, LocksAccounted, CreateLocks, ReleasedOnce, Covered,
         NEW w \in Workers, worker[w].pc = "settle"
  PROVE  LET o == worker[w].order
         IN  /\ o \in OrderIds
             /\ Settleable(LockAccount(o), LockAccount(o), BuyAccount(o),
                           LockAmount(o), LockAmount(o))
<1> DEFINE o == worker[w].order
<1>1. o \in OrderIds /\ Closed(o) /\ entries[o]["release_funds"] = 0
  BY WorkerRow DEF TypeOK, ExecutePcs, Closing, ReleasedOnce
<1> HIDE DEF o
<1>2. \A q \in OrderIds :
        /\ entries[q]["lock_funds"] \in Nat /\ entries[q]["release_funds"] \in Nat
        /\ Closed(q) => entries[q]["lock_funds"] = 1
  BY DEF TypeOK, LedgerTypeOK, EntryTypes, CreateLocks, Closed
<1>3. \A q \in OrderIds : entries[q]["lock_funds"] - entries[q]["release_funds"] \in Nat
  BY <1>2 DEF ReleasedOnce
<1>4. LocksHeld \in [OrderIds -> Nat] /\ LocksHeld[o] = LockAmount(o)
  <2>1. \A x, y \in Nat : x * y \in Nat /\ x * 1 = x
    OBVIOUS
  <2>2. entries[o]["lock_funds"] - entries[o]["release_funds"] = 1
    BY <1>1, <1>2
  <2>3. QED
    BY <1>1, <1>3, <2>1, <2>2, OrderAmounts DEF LocksHeld
<1>5. locked[LockAccount(o)] >= LockAmount(o)
  <2> DEFINE S == {q \in OrderIds : LockAccount(q) = LockAccount(o)}
  <2>1. S \in SUBSET OrderIds /\ IsFiniteSet(S) /\ o \in S
    BY <1>1, FS_Subset
  <2>2. locked[LockAccount(o)] = SumFunctionOnSet(LocksHeld, S)
    BY <1>1, OrderAmounts DEF LocksAccounted
  <2> HIDE DEF S
  <2>3. SumFunctionOnSet(LocksHeld, S) \in Nat /\ LocksHeld[o] <= SumFunctionOnSet(LocksHeld, S)
    BY <1>4, <2>1, SumBounds
  <2>4. QED
    BY <1>1, <1>4, <2>2, <2>3, OrderAmounts
<1>6. {LockAccount(o), BuyAccount(o)} \subseteq rows
  BY <1>1, <1>2 DEF Covered
<1>7. Plus(available, LockAccount(o), LockAmount(o))[LockAccount(o)] >= LockAmount(o)
  <2>1. /\ available \in [Accounts -> Int] /\ available[LockAccount(o)] >= 0
        /\ LockAccount(o) \in Accounts /\ LockAmount(o) \in Nat
    BY <1>1, OrderAmounts DEF TypeOK, LedgerTypeOK, Covered
  <2>2. Plus(available, LockAccount(o), LockAmount(o))[LockAccount(o)]
          = available[LockAccount(o)] + LockAmount(o)
    BY <2>1, PlusType
  <2>3. QED
    BY <2>1, <2>2
<1>8. QED
  BY <1>1, <1>5, <1>6, <1>7 DEF Settleable, o

\* Steps that fill no order, take no worker away from a settlement and delete no entry.
LEMMA FilledFrame ==
  ASSUME FilledSettled,
         \A o \in OrderIds : orders'[o].status = "filled" => orders[o].status = "filled",
         \A w \in Workers : worker[w].pc = "settle" => worker'[w] = worker[w],
         \A o \in OrderIds : entries[o]["filled"] > 0 => entries'[o]["filled"] > 0
  PROVE  FilledSettled'
<1> SUFFICES ASSUME NEW o \in OrderIds, orders'[o].status = "filled", ~Settling(o)'
             PROVE  entries'[o]["filled"] > 0
  BY DEF FilledSettled
<1>1. ~Settling(o)
  BY DEF Settling
<1>2. QED
  BY <1>1 DEF FilledSettled

\* No transaction deletes a fill entry.
LEMMA FilledEntriesStay ==
  ASSUME TypeOK, [Next]_vars
  PROVE  \A o \in OrderIds : entries[o]["filled"] > 0 => entries'[o]["filled"] > 0
<1>1. LedgerTypeOK /\ LedgerStep /\ \A o \in OrderIds : entries[o]["filled"] \in Nat
  BY StepLedger DEF TypeOK, LedgerTypeOK, EntryTypes
<1>2. ASSUME NEW q \in OrderIds, NEW out \in QuoteOut,
             ProcessFillWithLockRelease(LockAccount(q), LockAccount(q), BuyAccount(q),
                                        LockAmount(q), LockAmount(q), out, q)
      PROVE  \A o \in OrderIds : entries[o]["filled"] > 0 => entries'[o]["filled"] > 0
  BY <1>1, <1>2, SettleEntries
<1>3. ASSUME NEW q \in OrderIds, \/ LockFunds(LockAccount(q), LockAmount(q), q)
                                 \/ ReleaseFunds(LockAccount(q), LockAmount(q), q)
      PROVE  \A o \in OrderIds : entries'[o]["filled"] = entries[o]["filled"]
  BY <1>1, <1>3, LockEntries, ReleaseEntries
<1>4. QED
  BY <1>1, <1>2, <1>3 DEF LedgerStep, ledgerVars

\* A status change to another status fills no order.
LEMMA UpdateFillsNone ==
  ASSUME OrdersTypeOK, NEW o \in OrderIds, NEW s \in Statuses \ {"absent", "filled"}, NEW v,
         UpdateStatus(o, s, v) \/ UNCHANGED orders
  PROVE  \A q \in OrderIds : orders'[q].status = "filled" => orders[q].status = "filled"
<1>1. CASE UpdateStatus(o, s, v)
  BY <1>1, UpdateStatusEffect
<1>2. CASE UNCHANGED orders
  BY <1>2
<1>3. QED
  BY <1>1, <1>2

\* What a worker does other than fill its order and settle it.
LEMMA WorkerFillsNone ==
  ASSUME TypeOK, NEW w \in Workers, WorkerStep(w), ~WorkerFill(w), ~WorkerSettle(w)
  PROVE  /\ \A q \in OrderIds : orders'[q].status = "filled" => orders[q].status = "filled"
         /\ \A x \in Workers : worker[x].pc = "settle" => worker'[x] = worker[x]
<1>1. OrdersTypeOK /\ worker \in [Workers -> WorkerState]
  BY DEF TypeOK, ExecutorTypeOK
<1>2. worker[w].pc \in ExecutePcs => worker[w].order \in OrderIds
  BY WorkerRow DEF TypeOK
<1>3. worker[w].pc # "settle"
  BY DEF WorkerStep, WorkerConsume, WorkerLoad, WorkerClaim, WorkerQuoteFails,
         WorkerSubmit, WorkerConfirmed, WorkerFail, WorkerRelease
<1>4. \A x \in Workers : x # w => worker'[x] = worker[x]
  BY <1>1 DEF WorkerStep, WorkerConsume, WorkerLoad, WorkerClaim, WorkerQuoteFails,
              WorkerSubmit, WorkerConfirmed, WorkerFail, WorkerRelease, WorkerGoes,
              WorkerRests
<1>5. CASE WorkerClaim(w)
  BY <1>1, <1>2, <1>3, <1>4, <1>5, UpdateFillsNone
     DEF WorkerClaim, ExecutePcs, Statuses
<1>6. CASE WorkerFail(w)
  BY <1>1, <1>2, <1>3, <1>4, <1>6, UpdateFillsNone
     DEF WorkerFail, ExecutePcs, Statuses
<1>7. CASE UNCHANGED orders
  BY <1>3, <1>4, <1>7
<1>8. QED
  BY <1>5, <1>6, <1>7
     DEF WorkerStep, WorkerConsume, WorkerLoad, WorkerQuoteFails, WorkerSubmit,
         WorkerConfirmed, WorkerRelease

\* The requests and the engines fill no order.
LEMMA OthersFillNone ==
  ASSUME TypeOK, Cancelers = {}, OrderServiceNext \/ TriggerEngineNext
  PROVE  \A q \in OrderIds : orders'[q].status = "filled" => orders[q].status = "filled"
<1>1. OrdersTypeOK
  BY DEF TypeOK
<1>2. ASSUME NEW o \in OrderIds, CreateStep(o) \/ CreateCrash(o)
      PROVE  \A q \in OrderIds : orders'[q].status = "filled" => orders[q].status = "filled"
  <2>1. CASE Insert(o)
    BY <1>1, <2>1, InsertEffect
  <2>2. CASE UNCHANGED orders
    BY <2>2
  <2>3. QED
    BY <1>2, <2>1, <2>2 DEF CreateStep, CreateCheck, CreateLock, CreateInsert, CreateUndo,
                            CreateCrash
<1>3. ASSUME NEW e \in Engines,
             (\E p \in Prices : EngineTick(e, p)) \/ EngineStep(e) \/ EngineCrash(e)
      PROVE  \A q \in OrderIds : orders'[q].status = "filled" => orders[q].status = "filled"
  <2>1. CASE EngineTrigger(e)
    <3>1. PICK s \in batch[e] : TriggerOrder(s.order, s.row.version) \/ UNCHANGED orders
      BY <2>1 DEF EngineTrigger
    <3>2. s.order \in OrderIds
      BY DEF TypeOK, TriggerEngineTypeOK, Snapshot
    <3>3. QED
      BY <1>1, <3>1, <3>2, UpdateFillsNone DEF TriggerOrder, Statuses
  <2>2. QED
    BY <1>3, <2>1 DEF EngineTick, EngineStep, EnginePublish, EngineCrash
<1>4. QED
  BY <1>2, <1>3 DEF OrderServiceNext, TriggerEngineNext

\* Every step keeps FilledSettled: only a worker fills an order, it settles it next,
\* and the settlement goes through.
LEMMA StepFilled ==
  ASSUME Faults \cap {"db", "crash"} = {}, Cancelers = {}, IsFiniteSet(OrderIds),
         \A o \in OrderIds : BuyAccount(o) \in OpenRows,
         TypeOK, LocksAccounted, CreateLocks, ReleasedOnce, Covered, FilledSettled,
         [Next]_vars
  PROVE  FilledSettled'
<1>1. /\ OrdersTypeOK /\ LedgerTypeOK /\ worker \in [Workers -> WorkerState]
      /\ \A o \in OrderIds : entries[o]["filled"] > 0 => entries'[o]["filled"] > 0
  BY FilledEntriesStay DEF TypeOK, ExecutorTypeOK
<1>2. CASE OrderServiceNext /\ UNCHANGED <<triggerEngineVars, executorVars>>
  BY <1>1, <1>2, OthersFillNone, FilledFrame DEF executorVars
<1>3. CASE TriggerEngineNext /\ UNCHANGED <<ledgerVars, orderServiceVars, executorVars>>
  BY <1>1, <1>3, OthersFillNone, FilledFrame DEF executorVars
<1>4. ASSUME NEW w \in Workers, WorkerStep(w) \/ WorkerCrash(w)
      PROVE  FilledSettled'
  <2> DEFINE o == worker[w].order
  <2>1. WorkerStep(w)
    BY <1>4 DEF WorkerCrash
  <2>2. worker[w].pc \in ExecutePcs => o \in OrderIds
    BY WorkerRow DEF TypeOK
  <2>3. CASE WorkerFill(w)
    <3>1. worker[w].pc = "fill" /\ o \in OrderIds
      BY <2>2, <2>3 DEF WorkerFill, ExecutePcs
    <3>2. CASE UpdateStatus(o, "filled", worker[w].row.version + 1) /\ WorkerGoes(w, "settle")
      <4>1. \A q \in OrderIds : q # o => orders'[q] = orders[q]
        BY <1>1, <3>1, <3>2, UpdateStatusEffect DEF Statuses
      <4>2. /\ worker'[w].pc = "settle" /\ worker'[w].order = o
            /\ \A x \in Workers : x # w => worker'[x] = worker[x]
        <5>1. worker[w] \in [pc : ExecutePcs, order : OrderIds, row : Row]
          BY <3>1, WorkerRow DEF TypeOK, ExecutePcs
        <5>2. worker' = [worker EXCEPT ![w] = [worker[w] EXCEPT !.pc = "settle"]]
          BY <1>1, <3>2 DEF WorkerGoes
        <5>3. QED
          BY <1>1, <5>1, <5>2
      <4>3. \A q \in OrderIds : q = o => Settling(q)'
        BY <4>2 DEF Settling
      <4>4. ASSUME NEW q \in OrderIds, orders'[q].status = "filled", ~Settling(q)'
            PROVE  entries'[q]["filled"] > 0
        <5>1. orders[q].status = "filled"
          BY <4>1, <4>3, <4>4
        <5>2. ~Settling(q)
          BY <3>1, <4>2, <4>4 DEF Settling
        <5>3. QED
          BY <1>1, <5>1, <5>2 DEF FilledSettled
      <4>5. QED
        BY <4>4 DEF FilledSettled
    <3>3. CASE UNCHANGED orders /\ WorkerRests(w)
      <4>1. \A x \in Workers : worker[x].pc = "settle" => worker'[x] = worker[x]
        BY <1>1, <3>1, <3>3 DEF WorkerRests
      <4>2. QED
        BY <1>1, <3>3, <4>1, FilledFrame
    <3>4. QED
      BY <2>3, <3>2, <3>3 DEF WorkerFill
  <2>4. CASE WorkerSettle(w)
    <3>1. /\ worker[w].pc = "settle" /\ UNCHANGED orders
          /\ \A x \in Workers : x # w => worker'[x] = worker[x]
      BY <1>1, <2>4 DEF WorkerSettle, WorkerRests
    <3>2. /\ o \in OrderIds
          /\ Settleable(LockAccount(o), LockAccount(o), BuyAccount(o),
                        LockAmount(o), LockAmount(o))
      BY <3>1, SettleSucceeds
    <3>3. PICK out \in QuoteOut :
            ProcessFillWithLockRelease(LockAccount(o), LockAccount(o), BuyAccount(o),
                                       LockAmount(o), LockAmount(o), out, o)
      BY <2>4, <3>2 DEF WorkerSettle
    <3>4. entries'[o]["filled"] > 0
      <4>1. entries'[o]["filled"] = entries[o]["filled"] + 2
        BY <1>1, <3>2, <3>3, SettleEntries
      <4>2. QED
        BY <1>1, <3>2, <4>1 DEF LedgerTypeOK, EntryTypes
    <3>5. ASSUME NEW q \in OrderIds, orders'[q].status = "filled", ~Settling(q)', q # o
          PROVE  entries'[q]["filled"] > 0
      <4>1. orders[q].status = "filled" /\ ~Settling(q)
        BY <3>1, <3>5 DEF Settling
      <4>2. QED
        BY <1>1, <4>1 DEF FilledSettled
    <3>6. QED
      BY <3>4, <3>5 DEF FilledSettled
  <2>5. CASE ~WorkerFill(w) /\ ~WorkerSettle(w)
    BY <1>1, <2>1, <2>5, WorkerFillsNone, FilledFrame
  <2>6. QED
    BY <2>3, <2>4, <2>5
<1>5. CASE UNCHANGED vars
  BY <1>5 DEF vars, ledgerVars, executorVars, FilledSettled, Settling
<1>6. QED
  BY <1>2, <1>3, <1>4, <1>5 DEF Next, ExecutorNext

\* When nobody cancels, no statement fails, no process stops and every order's user has
\* a wallet for what it buys, a filled order is always paid for once its worker is done.
THEOREM ExchangeFilledSettled ==
  ASSUME Faults \cap {"db", "crash"} = {}, Cancelers = {}, IsFiniteSet(OrderIds),
         \A o \in OrderIds : BuyAccount(o) \in OpenRows
  PROVE  Spec => []FilledSettled
<1>1. Init => Covered /\ FilledSettled
  <2>1. Init => Covered
    BY LedgerAssumption DEF Init, LedgerInit, Covered, EntryTypes
  <2>2. Init => FilledSettled
    BY DEF Init, OrdersInit, FilledSettled
  <2>3. QED
    BY <2>1, <2>2
<1>2. TypeOK /\ Covered /\ [Next]_vars => Covered'
  BY StepCovered
<1>3. TypeOK /\ CreateLocks /\ [Next]_vars => CreateLocks'
  BY StepLocks
<1>4. IInv /\ CreateLocks /\ ReleasedOnce /\ [Next]_vars => ReleasedOnce'
  BY StepReleased
<1>5. TypeOK /\ LocksAccounted /\ CreateLocks /\ ReleasedOnce /\ Covered /\ FilledSettled
        /\ [Next]_vars => FilledSettled'
  BY StepFilled
<1>6. Spec => []LocksAccounted
  BY ExchangeLocksAccounted
<1>7. QED
  BY <1>1, <1>2, <1>3, <1>4, <1>5, <1>6, InitLocks, InitReleased, ExchangeTypes,
     ExchangeInvariant, PTL DEF Spec

-----------------------------------------------------------------------------
(* Messages: from the engine that triggers an order to the worker that ends *)
(* with it.                                                                 *)

Has(w, o) == worker[w].pc # "idle" /\ worker[w].order = o

\* The strengthening of OneMessage, place by place; an engine sends one message at a time.
Placed ==
  /\ \A e \in Engines : \A p, q \in toPublish[e] : p = q
  /\ \A o \in OrderIds :
       /\ \A e, f \in Engines : o \in toPublish[e] /\ o \in toPublish[f] => e = f
       /\ \A i, j \in DOMAIN stream : stream[i] = o /\ stream[j] = o => i = j
       /\ \A w, x \in Workers : Has(w, o) /\ Has(x, o) => w = x
       /\ \A e \in Engines, i \in DOMAIN stream : o \in toPublish[e] => stream[i] # o
       /\ \A e \in Engines, w \in Workers : o \in toPublish[e] => ~Has(w, o)
       /\ \A i \in DOMAIN stream, w \in Workers : stream[i] = o => ~Has(w, o)
       /\ \/ \E e \in Engines : o \in toPublish[e]
          \/ \E i \in DOMAIN stream : stream[i] = o
          \/ \E w \in Workers : Has(w, o)
          => orders[o].status \notin {"absent", "open"}

\* An order that was triggered is never open again.
LEMMA BegunKept ==
  ASSUME LifecycleStep, NEW o \in OrderIds, orders[o].status \notin {"absent", "open"}
  PROVE  orders'[o].status \notin {"absent", "open"}
BY DEF LifecycleStep, Lifecycle!Next, Lifecycle!vars, Lifecycle!Create, Lifecycle!Trigger,
       Lifecycle!Cancel, Lifecycle!Submit, Lifecycle!Swap, Lifecycle!Fill, Lifecycle!Fail,
       Lifecycle!Become

\* A step that puts no order anywhere keeps Placed.
LEMMA PlacedFrame ==
  ASSUME Placed, LifecycleStep, stream' = stream,
         \A e \in Engines : toPublish'[e] \subseteq toPublish[e],
         \A w \in Workers : \A o \in OrderIds : Has(w, o)' => Has(w, o)
  PROVE  Placed'
<1>1. ASSUME NEW o \in OrderIds
      PROVE  /\ \A e, f \in Engines : o \in toPublish'[e] /\ o \in toPublish'[f] => e = f
             /\ \A i, j \in DOMAIN stream : stream[i] = o /\ stream[j] = o => i = j
             /\ \A w, x \in Workers : Has(w, o)' /\ Has(x, o)' => w = x
             /\ \A e \in Engines, i \in DOMAIN stream : o \in toPublish'[e] => stream[i] # o
             /\ \A e \in Engines, w \in Workers : o \in toPublish'[e] => ~Has(w, o)'
             /\ \A i \in DOMAIN stream, w \in Workers : stream[i] = o => ~Has(w, o)'
  BY DEF Placed
<1>2. ASSUME NEW o \in OrderIds,
             \/ \E e \in Engines : o \in toPublish'[e]
             \/ \E i \in DOMAIN stream : stream[i] = o
             \/ \E w \in Workers : Has(w, o)'
      PROVE  orders'[o].status \notin {"absent", "open"}
  BY <1>2, BegunKept DEF Placed
<1>3. \A e \in Engines : \A p, q \in toPublish'[e] : p = q
  BY DEF Placed
<1>4. QED
  BY <1>1, <1>2, <1>3 DEF Placed

\* The engines' steps.
LEMMA EnginePlaced ==
  ASSUME TypeOK, Placed, LifecycleStep, NEW e \in Engines, UNCHANGED worker,
         (\E p \in Prices : EngineTick(e, p)) \/ EngineStep(e) \/ EngineCrash(e)
  PROVE  Placed'
<1>1. /\ toPublish \in [Engines -> SUBSET OrderIds] /\ stream \in Seq(OrderIds)
      /\ OrdersTypeOK /\ \A s \in batch[e] : s.order \in OrderIds
  BY DEF TypeOK, TriggerEngineTypeOK, Snapshot
<1>2. \A w \in Workers, o \in OrderIds : Has(w, o)' <=> Has(w, o)
  BY DEF Has
<1>3. CASE \E p \in Prices : EngineTick(e, p)
  BY <1>2, <1>3, PlacedFrame DEF EngineTick
<1>4. CASE EngineCrash(e)
  BY <1>1, <1>2, <1>4, PlacedFrame DEF EngineCrash
<1>5. CASE EngineTrigger(e)
  <2>1. PICK s \in batch[e] :
          \/ /\ TriggerOrder(s.order, s.row.version)
             /\ toPublish' = [toPublish EXCEPT ![e] = {s.order}]
          \/ UNCHANGED <<orders, toPublish>>
    BY <1>5 DEF EngineTrigger
  <2>2. stream' = stream /\ toPublish[e] = {} /\ s.order \in OrderIds
    BY <1>1, <1>5 DEF EngineTrigger
  <2>3. CASE UNCHANGED <<orders, toPublish>>
    BY <1>2, <2>2, <2>3, PlacedFrame
  <2>4. CASE /\ TriggerOrder(s.order, s.row.version)
             /\ toPublish' = [toPublish EXCEPT ![e] = {s.order}]
    <3> DEFINE o == s.order
    <3>1. /\ orders[o].status = "open" /\ orders'[o].status = "triggered"
          /\ \A q \in OrderIds : q # o => orders'[q] = orders[q]
      BY <1>1, <2>2, <2>4, UpdateStatusEffect DEF TriggerOrder, Statuses
    <3>2. /\ \A f \in Engines : o \notin toPublish[f]
          /\ \A i \in DOMAIN stream : stream[i] # o
          /\ \A w \in Workers : ~Has(w, o)
      BY <2>2, <3>1 DEF Placed
    <3>3. \A f \in Engines : toPublish'[f] = IF f = e THEN {o} ELSE toPublish[f]
      BY <1>1, <2>4
    <3> HIDE DEF o
    <3>4. \A f \in Engines : \A p, q \in toPublish'[f] : p = q
      BY <3>3 DEF Placed
    <3>5. ASSUME NEW q \in OrderIds
          PROVE  /\ \A f, g \in Engines : q \in toPublish'[f] /\ q \in toPublish'[g] => f = g
                 /\ \A i, j \in DOMAIN stream : stream[i] = q /\ stream[j] = q => i = j
                 /\ \A w, x \in Workers : Has(w, q) /\ Has(x, q) => w = x
                 /\ \A f \in Engines, i \in DOMAIN stream : q \in toPublish'[f] => stream[i] # q
                 /\ \A f \in Engines, w \in Workers : q \in toPublish'[f] => ~Has(w, q)
                 /\ \A i \in DOMAIN stream, w \in Workers : stream[i] = q => ~Has(w, q)
      BY <2>2, <3>2, <3>3 DEF Placed
    <3>6. ASSUME NEW q \in OrderIds,
                 \/ \E f \in Engines : q \in toPublish'[f]
                 \/ \E i \in DOMAIN stream : stream[i] = q
                 \/ \E w \in Workers : Has(w, q)
          PROVE  orders'[q].status \notin {"absent", "open"}
      BY <2>2, <3>1, <3>3, <3>6 DEF Placed
    <3>7. QED
      BY <1>2, <2>2, <3>4, <3>5, <3>6 DEF Placed
  <2>5. QED
    BY <2>1, <2>3, <2>4
<1>6. CASE EnginePublish(e)
  <2>1. PICK o \in toPublish[e] : Publish(o)
    BY <1>6 DEF EnginePublish
  <2>2. o \in OrderIds /\ \A q \in toPublish[e] : q = o
    BY <1>1, <2>1 DEF Placed
  <2>3. \A f \in Engines : toPublish'[f] = IF f = e THEN {} ELSE toPublish[f]
    BY <1>1, <1>6 DEF EnginePublish
  <2>4. CASE UNCHANGED stream
    BY <1>2, <2>3, <2>4, PlacedFrame
  <2>5. CASE stream' = Append(stream, o)
    <3>1. /\ Len(stream) \in Nat /\ DOMAIN stream = 1 .. Len(stream)
          /\ DOMAIN stream' = 1 .. Len(stream) + 1
          /\ stream'[Len(stream) + 1] = o
          /\ \A i \in 1 .. Len(stream) : stream'[i] = stream[i]
      BY <1>1, <2>2, <2>5
    <3>2. \A i \in DOMAIN stream' :
            \/ i \in DOMAIN stream /\ stream'[i] = stream[i]
            \/ i = Len(stream) + 1 /\ stream'[i] = o
      BY <3>1
    <3>3. /\ \A f \in Engines : o \notin toPublish'[f]
          /\ \A i \in DOMAIN stream : stream[i] # o
          /\ \A w \in Workers : ~Has(w, o)
      BY <2>1, <2>2, <2>3 DEF Placed
    <3>4. \A f \in Engines : \A p, q \in toPublish'[f] : p = q
      BY <2>3 DEF Placed
    <3>5. ASSUME NEW q \in OrderIds
          PROVE  /\ \A f, g \in Engines : q \in toPublish'[f] /\ q \in toPublish'[g] => f = g
                 /\ \A i, j \in DOMAIN stream' : stream'[i] = q /\ stream'[j] = q => i = j
                 /\ \A w, x \in Workers : Has(w, q) /\ Has(x, q) => w = x
                 /\ \A f \in Engines, i \in DOMAIN stream' :
                      q \in toPublish'[f] => stream'[i] # q
                 /\ \A f \in Engines, w \in Workers : q \in toPublish'[f] => ~Has(w, q)
                 /\ \A i \in DOMAIN stream', w \in Workers : stream'[i] = q => ~Has(w, q)
      BY <2>3, <3>2, <3>3 DEF Placed
    <3>6. ASSUME NEW q \in OrderIds,
                 \/ \E f \in Engines : q \in toPublish'[f]
                 \/ \E i \in DOMAIN stream' : stream'[i] = q
                 \/ \E w \in Workers : Has(w, q)
          PROVE  orders'[q].status \notin {"absent", "open"}
      <4>1. \/ \E f \in Engines : q \in toPublish[f]
            \/ \E i \in DOMAIN stream : stream[i] = q
            \/ \E w \in Workers : Has(w, q)
        BY <2>1, <2>3, <3>2, <3>6
      <4>2. QED
        BY <4>1, BegunKept DEF Placed
    <3>7. QED
      BY <1>2, <3>4, <3>5, <3>6 DEF Placed
  <2>6. QED
    BY <2>1, <2>4, <2>5 DEF Publish
<1>7. QED
  BY <1>3, <1>4, <1>5, <1>6 DEF EngineStep

\* A worker has its order from the delivery of the message to its return, and no other.
LEMMA WorkerKeepsOrder ==
  ASSUME TypeOK, NEW w \in Workers, WorkerStep(w) \/ WorkerCrash(w), ~WorkerConsume(w)
  PROVE  \A x \in Workers : \A o \in OrderIds : Has(x, o)' => Has(x, o)
<1>1. ExecutorTypeOK /\ worker \in [Workers -> WorkerState]
  BY DEF TypeOK, ExecutorTypeOK
<1>2. CASE WorkerRests(w)
  BY <1>1, <1>2, WorkerStops DEF Has
<1>3. ASSUME NEW pc, worker[w].pc \in ExecutePcs, WorkerGoes(w, pc)
      PROVE  \A x \in Workers : \A o \in OrderIds : Has(x, o)' => Has(x, o)
  BY <1>1, <1>3, WorkerMoves DEF Has, ExecutePcs
<1>4. CASE /\ worker[w].pc = "load"
           /\ worker' = [worker EXCEPT ![w] = [pc |-> "claim", order |-> worker[w].order,
                                               row |-> orders[worker[w].order]]]
  <2>1. worker'[w].order = worker[w].order /\ \A x \in Workers : x # w => worker'[x] = worker[x]
    BY <1>1, <1>4
  <2>2. QED
    BY <1>4, <2>1 DEF Has
<1>5. CASE WorkerLoad(w)
  BY <1>2, <1>4, <1>5 DEF WorkerLoad
<1>6. CASE WorkerClaim(w) \/ WorkerFill(w) \/ WorkerFail(w)
  BY <1>2, <1>3, <1>6 DEF WorkerClaim, WorkerFill, WorkerFail, ExecutePcs
<1>7. CASE WorkerQuoteFails(w) \/ WorkerSubmit(w) \/ WorkerConfirmed(w)
  BY <1>3, <1>7 DEF WorkerQuoteFails, WorkerSubmit, WorkerConfirmed, ExecutePcs
<1>8. CASE WorkerSettle(w) \/ WorkerRelease(w) \/ WorkerCrash(w)
  BY <1>2, <1>8 DEF WorkerSettle, WorkerRelease, WorkerCrash
<1>9. QED
  BY <1>5, <1>6, <1>7, <1>8 DEF WorkerStep

\* What a delivery does: the oldest message becomes the worker's.
LEMMA ConsumeEffect ==
  ASSUME TypeOK, NEW w \in Workers, WorkerConsume(w)
  PROVE  /\ worker[w].pc = "idle" /\ UNCHANGED <<orders, toPublish>>
         /\ \A x \in Workers : x # w => worker'[x] = worker[x]
         /\ 1 \in DOMAIN stream /\ stream[1] \in OrderIds
         /\ worker'[w] = [pc |-> "load", order |-> stream[1]]
         /\ \A i \in DOMAIN stream' : i + 1 \in DOMAIN stream /\ stream'[i] = stream[i + 1]
         /\ \A i \in DOMAIN stream :
              i # 1 => i - 1 \in DOMAIN stream' /\ stream'[i - 1] = stream[i]
         /\ DOMAIN stream' \subseteq Nat /\ 0 \notin DOMAIN stream'
<1>1. PICK o \in OrderIds :
        Consume(o) /\ worker' = [worker EXCEPT ![w] = [pc |-> "load", order |-> o]]
  BY DEF WorkerConsume
<1>2. /\ stream \in Seq(OrderIds) /\ stream # <<>> /\ o = stream[1] /\ stream' = Tail(stream)
      /\ worker \in [Workers -> WorkerState]
  BY <1>1 DEF Consume, TypeOK, TriggerEngineTypeOK, ExecutorTypeOK
<1>3. /\ DOMAIN stream = 1 .. Len(stream) /\ Len(stream) \in Nat /\ Len(stream) > 0
      /\ DOMAIN stream' = 1 .. Len(stream) - 1
      /\ \A i \in 1 .. Len(stream) - 1 : stream'[i] = stream[i + 1]
  BY <1>2
<1>4. QED
  BY <1>1, <1>2, <1>3 DEF WorkerConsume

\* The workers' steps.
LEMMA WorkerPlaced ==
  ASSUME TypeOK, Placed, LifecycleStep, NEW w \in Workers, WorkerStep(w) \/ WorkerCrash(w)
  PROVE  Placed'
<1>1. CASE ~WorkerConsume(w)
  <2>1. UNCHANGED triggerEngineVars
    BY <1>1 DEF WorkerStep, WorkerLoad, WorkerClaim, WorkerQuoteFails, WorkerSubmit,
                WorkerConfirmed, WorkerFill, WorkerSettle, WorkerFail, WorkerRelease,
                WorkerCrash
  <2>2. QED
    BY <1>1, <2>1, WorkerKeepsOrder, PlacedFrame DEF triggerEngineVars
<1>2. CASE WorkerConsume(w)
  <2> DEFINE o == stream[1]
  <2>1. /\ \A q \in OrderIds : Has(w, q)' <=> q = o
        /\ \A x \in Workers : x # w => \A q \in OrderIds : Has(x, q)' <=> Has(x, q)
        /\ \A q \in OrderIds : ~Has(w, q)
    BY <1>2, ConsumeEffect DEF Has
  <2>2. /\ o \in OrderIds /\ 1 \in DOMAIN stream /\ UNCHANGED toPublish
        /\ \A i \in DOMAIN stream' : i + 1 \in DOMAIN stream /\ stream'[i] = stream[i + 1]
        /\ \A i \in DOMAIN stream' : i + 1 # 1
        /\ \A i, j \in DOMAIN stream' : i + 1 = j + 1 => i = j
    <3>1. /\ o \in OrderIds /\ 1 \in DOMAIN stream /\ UNCHANGED toPublish
          /\ \A i \in DOMAIN stream' : i + 1 \in DOMAIN stream /\ stream'[i] = stream[i + 1]
      BY <1>2, ConsumeEffect
    <3>2. DOMAIN stream' \subseteq Nat /\ 0 \notin DOMAIN stream'
      BY <1>2, ConsumeEffect
    <3>3. QED
      BY <3>1, <3>2
  <2>3. /\ \A f \in Engines : o \notin toPublish[f]
        /\ \A i \in DOMAIN stream' : stream'[i] # o
        /\ \A x \in Workers : ~Has(x, o)
    BY <2>2 DEF Placed
  <2> HIDE DEF o
  <2>4. ASSUME NEW q \in OrderIds
        PROVE  /\ \A f, g \in Engines : q \in toPublish[f] /\ q \in toPublish[g] => f = g
               /\ \A i, j \in DOMAIN stream' : stream'[i] = q /\ stream'[j] = q => i = j
               /\ \A x, y \in Workers : Has(x, q)' /\ Has(y, q)' => x = y
               /\ \A f \in Engines, i \in DOMAIN stream' : q \in toPublish[f] => stream'[i] # q
               /\ \A f \in Engines, x \in Workers : q \in toPublish[f] => ~Has(x, q)'
               /\ \A i \in DOMAIN stream', x \in Workers : stream'[i] = q => ~Has(x, q)'
    <3>1. \A i, j \in DOMAIN stream' : stream'[i] = q /\ stream'[j] = q => i = j
      BY <2>2 DEF Placed
    <3>2. CASE q = o
      BY <2>1, <2>3, <3>1, <3>2
    <3>3. CASE q # o
      BY <2>1, <2>2, <3>1, <3>3 DEF Placed
    <3>4. QED
      BY <3>2, <3>3
  <2>5. ASSUME NEW q \in OrderIds,
               \/ \E f \in Engines : q \in toPublish[f]
               \/ \E i \in DOMAIN stream' : stream'[i] = q
               \/ \E x \in Workers : Has(x, q)'
        PROVE  orders'[q].status \notin {"absent", "open"}
    <3>1. \/ \E f \in Engines : q \in toPublish[f]
          \/ \E i \in DOMAIN stream : stream[i] = q
          \/ \E x \in Workers : Has(x, q)
      BY <2>1, <2>2, <2>5 DEF o
    <3>2. QED
      BY <3>1, BegunKept DEF Placed
  <2>6. QED
    BY <2>2, <2>4, <2>5 DEF Placed
<1>3. QED
  BY <1>1, <1>2

\* Every step keeps Placed.
LEMMA StepPlaced ==
  ASSUME IInv, Placed, [Next]_vars
  PROVE  Placed'
<1>1. TypeOK /\ LifecycleStep
  BY StepIInv DEF IInv
<1>2. CASE UNCHANGED <<triggerEngineVars, executorVars>>
  BY <1>1, <1>2, PlacedFrame DEF triggerEngineVars, executorVars, Has
<1>3. CASE TriggerEngineNext /\ UNCHANGED <<ledgerVars, orderServiceVars, executorVars>>
  BY <1>1, <1>3, EnginePlaced DEF TriggerEngineNext, executorVars
<1>4. CASE ExecutorNext /\ UNCHANGED orderServiceVars
  BY <1>1, <1>4, WorkerPlaced DEF ExecutorNext
<1>5. QED
  BY <1>2, <1>3, <1>4 DEF Next, vars

\* Nothing is on its way initially.
LEMMA InitPlaced == Init => Placed
BY DEF Init, TriggerEngineInit, ExecutorInit, Resting, Placed, Has

\* Place by place, an order is held once.
LEMMA PlacedOnce ==
  ASSUME Placed
  PROVE  OneMessage
<1> SUFFICES ASSUME NEW o \in OrderIds
             PROVE  /\ \A x, y \in Holders(o) : x = y
                    /\ Holders(o) # {} => orders[o].status \notin {"absent", "open"}
  BY DEF OneMessage
<1>1. \A x \in Holders(o) :
        \/ \E e \in Engines : x = <<"engine", e>> /\ o \in toPublish[e]
        \/ \E i \in DOMAIN stream : x = <<"message", i>> /\ stream[i] = o
        \/ \E w \in Workers : x = <<"worker", w>> /\ Has(w, o)
  BY DEF Holders, Has
<1>2. ASSUME NEW x \in Holders(o), NEW y \in Holders(o) PROVE x = y
  BY <1>1 DEF Placed
<1>3. Holders(o) # {} => orders[o].status \notin {"absent", "open"}
  BY <1>1 DEF Placed
<1>4. QED
  BY <1>2, <1>3

\* However many engines read an order, and whatever fails, it is sent once and held in
\* one place at a time.
THEOREM ExchangeOneMessage == Spec => []OneMessage
<1>1. IInv /\ Placed /\ [Next]_vars => Placed'
  BY StepPlaced
<1>2. Placed => OneMessage
  BY PlacedOnce
<1>3. QED
  BY <1>1, <1>2, InitPlaced, ExchangeInvariant, PTL DEF Spec

-----------------------------------------------------------------------------
(* Nothing is lost on the way, where only quotes fail.                      *)

\* A row that a worker is to claim is current as long as the order is triggered.
ClaimsCurrent ==
  \A w \in Workers :
    worker[w].pc = "claim" /\ orders[worker[w].order].status = "triggered" =>
      orders[worker[w].order].version = worker[w].row.version

\* A step puts no order under way, and leaves those that are as they are or ends them.
NoneUnderway ==
  \A o \in OrderIds :
    orders'[o].status \in {"triggered", "submitting"} => orders'[o] = orders[o]

Awaiting(o) ==
  \/ \E e \in Engines : o \in toPublish[e]
  \/ \E i \in DOMAIN stream : stream[i] = o
  \/ \E w \in Workers : worker[w].pc \in {"load", "claim"} /\ worker[w].order = o

Claimed(o) == \E w \in Workers : Executing(w) /\ worker[w].order = o

\* A status change to neither of the two puts no order under way.
LEMMA EndsUnderway ==
  ASSUME OrdersTypeOK, NEW o \in OrderIds,
         NEW s \in {"filled", "failed", "canceled"}, NEW v,
         UpdateStatus(o, s, v) \/ UNCHANGED orders
  PROVE  NoneUnderway
<1>1. s \in Statuses /\ s # "absent"
  BY DEF Statuses
<1>2. CASE UpdateStatus(o, s, v)
  BY <1>1, <1>2, UpdateStatusEffect DEF NoneUnderway
<1>3. CASE UNCHANGED orders
  BY <1>3 DEF NoneUnderway
<1>4. QED
  BY <1>2, <1>3

\* Requests put no order under way: a canceled one is not, nor is a new one.
LEMMA RequestsUnderway ==
  ASSUME TypeOK, OrderServiceNext
  PROVE  NoneUnderway
<1>1. OrdersTypeOK
  BY DEF TypeOK
<1>2. ASSUME NEW o \in OrderIds, Insert(o) PROVE NoneUnderway
  BY <1>1, <1>2, InsertEffect DEF NoneUnderway
<1>3. ASSUME NEW c \in Cancelers, CancelUpdate(c) PROVE NoneUnderway
  <2>1. cancel[c].order \in OrderIds
    BY <1>3, CancelRow DEF CancelUpdate, TypeOK
  <2>2. QED
    BY <1>1, <1>3, <2>1, EndsUnderway DEF CancelUpdate
<1>4. UNCHANGED orders => NoneUnderway
  BY DEF NoneUnderway
<1>5. QED
  BY <1>2, <1>3, <1>4
     DEF OrderServiceNext, CreateStep, CreateCheck, CreateLock, CreateInsert, CreateUndo,
         CreateCrash, CancelStep, CancelRead, CancelRelease, CancelCrash

\* What leaves messages and workers alone, and puts no order under way.
LEMMA UnderwayFrame ==
  ASSUME InFlightHeld, ClaimsCurrent, NoneUnderway, ExecutorTypeOK,
         UNCHANGED <<toPublish, stream, worker>>
  PROVE  InFlightHeld' /\ ClaimsCurrent'
<1>1. \A w \in Workers : worker[w].pc = "claim" => worker[w].order \in OrderIds
  BY WorkerRow DEF ExecutePcs
<1>2. ClaimsCurrent'
  BY <1>1 DEF ClaimsCurrent, NoneUnderway
<1>3. InFlightHeld'
  BY DEF InFlightHeld, NoneUnderway, Executing
<1>4. QED
  BY <1>2, <1>3

\* The engines' steps: what one triggers it is about to send, and sends.
LEMMA EngineInFlight ==
  ASSUME TypeOK, Placed, InFlightHeld, ClaimsCurrent, Faults \subseteq {"quote"},
         NEW e \in Engines, UNCHANGED worker,
         (\E p \in Prices : EngineTick(e, p)) \/ EngineStep(e) \/ EngineCrash(e)
  PROVE  InFlightHeld' /\ ClaimsCurrent'
<1>1. /\ toPublish \in [Engines -> SUBSET OrderIds] /\ stream \in Seq(OrderIds)
      /\ OrdersTypeOK /\ ExecutorTypeOK /\ \A s \in batch[e] : s.order \in OrderIds
  BY DEF TypeOK, TriggerEngineTypeOK, Snapshot
<1>2. UNCHANGED orders => NoneUnderway
  BY DEF NoneUnderway
<1>3. CASE EngineTrigger(e)
  <2>1. PICK s \in batch[e] :
          \/ /\ TriggerOrder(s.order, s.row.version)
             /\ toPublish' = [toPublish EXCEPT ![e] = {s.order}]
          \/ UNCHANGED <<orders, toPublish>>
    BY <1>3 DEF EngineTrigger
  <2>2. stream' = stream /\ toPublish[e] = {} /\ s.order \in OrderIds
    BY <1>1, <1>3 DEF EngineTrigger
  <2>3. CASE UNCHANGED <<orders, toPublish>>
    BY <1>1, <1>2, <2>2, <2>3, UnderwayFrame
  <2>4. CASE /\ TriggerOrder(s.order, s.row.version)
             /\ toPublish' = [toPublish EXCEPT ![e] = {s.order}]
    <3> DEFINE o == s.order
    <3>1. /\ orders[o].status = "open" /\ orders'[o].status = "triggered"
          /\ \A q \in OrderIds : q # o => orders'[q] = orders[q]
      BY <1>1, <2>2, <2>4, UpdateStatusEffect DEF TriggerOrder, Statuses
    <3>2. /\ o \in toPublish'[e]
          /\ \A f \in Engines : toPublish[f] \subseteq toPublish'[f]
      BY <1>1, <2>2, <2>4
    <3>3. \A w \in Workers :
            worker[w].pc = "claim" => /\ worker[w].order \in OrderIds
                                      /\ worker[w].order # o
      <4>1. \A w \in Workers : worker[w].pc = "claim" => worker[w].order \in OrderIds
        BY <1>1, WorkerRow DEF ExecutePcs
      <4>2. \A w \in Workers : ~Has(w, o)
        BY <2>2, <3>1 DEF Placed
      <4>3. QED
        BY <4>1, <4>2 DEF Has
    <3> HIDE DEF o
    <3>4. ClaimsCurrent'
      BY <3>1, <3>3 DEF ClaimsCurrent
    <3>5. ASSUME NEW q \in OrderIds, q # o
          PROVE  /\ orders'[q].status = "triggered" => Awaiting(q)'
                 /\ orders'[q].status = "submitting" => Claimed(q)'
      BY <2>2, <3>1, <3>2, <3>5 DEF InFlightHeld, Awaiting, Claimed, Executing
    <3>6. Awaiting(o)' /\ orders'[o].status # "submitting"
      BY <3>1, <3>2 DEF Awaiting
    <3>7. QED
      BY <3>4, <3>5, <3>6 DEF InFlightHeld, Awaiting, Claimed
  <2>5. QED
    BY <2>1, <2>3, <2>4
<1>4. CASE EnginePublish(e)
  <2>1. PICK o \in toPublish[e] : Publish(o)
    BY <1>4 DEF EnginePublish
  <2>2. o \in OrderIds /\ \A q \in toPublish[e] : q = o
    BY <1>1, <2>1 DEF Placed
  <2>3. /\ \A f \in Engines : f # e => toPublish'[f] = toPublish[f]
        /\ UNCHANGED orders /\ stream' = Append(stream, o)
    BY <1>1, <1>4, <2>1 DEF EnginePublish, Publish
  <2>4. /\ Len(stream) + 1 \in DOMAIN stream' /\ stream'[Len(stream) + 1] = o
        /\ \A i \in DOMAIN stream : i \in DOMAIN stream' /\ stream'[i] = stream[i]
    BY <1>1, <2>2, <2>3
  <2>5. ASSUME NEW q \in OrderIds, Awaiting(q) PROVE Awaiting(q)'
    <3>1. CASE \E f \in Engines : q \in toPublish[f]
      BY <2>2, <2>3, <2>4, <3>1 DEF Awaiting
    <3>2. CASE \E i \in DOMAIN stream : stream[i] = q
      BY <2>4, <3>2 DEF Awaiting
    <3>3. QED
      BY <2>5, <3>1, <3>2 DEF Awaiting
  <2>6. InFlightHeld'
    BY <2>3, <2>5 DEF InFlightHeld, Awaiting, Executing
  <2>7. ClaimsCurrent'
    BY <2>3 DEF ClaimsCurrent
  <2>8. QED
    BY <2>6, <2>7
<1>5. CASE \E p \in Prices : EngineTick(e, p)
  BY <1>1, <1>2, <1>5, UnderwayFrame DEF EngineTick
<1>6. QED
  BY <1>3, <1>4, <1>5 DEF EngineStep, EngineCrash

\* A step of one worker after which the orders that others had are as they were.
LEMMA WorkerInFlight ==
  ASSUME TypeOK, InFlightHeld, ClaimsCurrent, UNCHANGED <<toPublish, stream>>,
         NEW w \in Workers, worker[w].pc \in {"load"} \cup ExecutePcs,
         NEW o \in OrderIds, worker[w].order = o,
         \A x \in Workers : x # w => worker'[x] = worker[x],
         \A q \in OrderIds : q # o => orders'[q] = orders[q],
         orders'[o].status = "triggered" =>
           orders'[o] = orders[o] /\ (worker[w].pc \in {"load", "claim"} => Awaiting(o)'),
         orders'[o].status = "submitting" =>
           Claimed(o)' \/ (orders[o].status = "submitting" /\ ~Executing(w)),
         worker'[w].pc = "claim" => worker'[w].row = orders'[worker'[w].order]
  PROVE  InFlightHeld' /\ ClaimsCurrent'
<1>1. \A x \in Workers : worker[x].pc = "claim" => worker[x].order \in OrderIds
  BY WorkerRow DEF TypeOK, ExecutePcs
<1>2. ClaimsCurrent'
  <2> SUFFICES ASSUME NEW x \in Workers, worker'[x].pc = "claim",
                      orders'[worker'[x].order].status = "triggered"
               PROVE  orders'[worker'[x].order].version = worker'[x].row.version
    BY DEF ClaimsCurrent
  <2>1. CASE x = w
    BY <2>1
  <2>2. CASE x # w
    <3>1. worker'[x] = worker[x] /\ worker[x].order \in OrderIds
      BY <1>1, <2>2
    <3>2. orders'[worker[x].order] = orders[worker[x].order]
      BY <3>1
    <3>3. QED
      BY <3>1, <3>2 DEF ClaimsCurrent
  <2>3. QED
    BY <2>1, <2>2
<1>3. ASSUME NEW q \in OrderIds, orders'[q].status = "triggered" PROVE Awaiting(q)'
  <2>1. orders'[q] = orders[q]
    BY <1>3
  <2>2. Awaiting(q)
    BY <1>3, <2>1 DEF InFlightHeld, Awaiting
  <2>3. CASE \E x \in Workers : x # w /\ worker[x].pc \in {"load", "claim"} /\ worker[x].order = q
    BY <2>3 DEF Awaiting
  <2>4. CASE worker[w].pc \in {"load", "claim"} /\ worker[w].order = q
    BY <1>3, <2>4
  <2>5. QED
    BY <2>2, <2>3, <2>4 DEF Awaiting
<1>4. ASSUME NEW q \in OrderIds, orders'[q].status = "submitting" PROVE Claimed(q)'
  <2>1. ASSUME orders[q].status = "submitting", ~Executing(w) \/ worker[w].order # q
        PROVE  Claimed(q)'
    <3>1. PICK x \in Workers : Executing(x) /\ worker[x].order = q
      BY <2>1 DEF InFlightHeld
    <3>2. x # w
      BY <2>1, <3>1
    <3>3. QED
      BY <3>1, <3>2 DEF Claimed, Executing
  <2>2. CASE q = o
    BY <1>4, <2>1, <2>2
  <2>3. CASE q # o
    BY <1>4, <2>1, <2>3
  <2>4. QED
    BY <2>2, <2>3
<1>5. QED
  BY <1>2, <1>3, <1>4 DEF InFlightHeld, Awaiting, Claimed

\* A delivery hands an order on, from the stream to the worker.
LEMMA ConsumeInFlight ==
  ASSUME TypeOK, InFlightHeld, ClaimsCurrent, NEW w \in Workers, WorkerConsume(w)
  PROVE  InFlightHeld' /\ ClaimsCurrent'
<1> DEFINE o == stream[1]
<1>1. /\ worker[w].pc = "idle" /\ UNCHANGED <<orders, toPublish>>
      /\ \A x \in Workers : x # w => worker'[x] = worker[x]
      /\ worker'[w].pc = "load" /\ worker'[w].order = o
      /\ \A i \in DOMAIN stream :
           i # 1 => i - 1 \in DOMAIN stream' /\ stream'[i - 1] = stream[i]
  BY ConsumeEffect
<1> HIDE DEF o
<1>2. \A x \in Workers : Executing(x)' <=> Executing(x)
  BY <1>1 DEF Executing
<1>3. ClaimsCurrent'
  BY <1>1 DEF ClaimsCurrent
<1>4. ASSUME NEW q \in OrderIds, Awaiting(q) PROVE Awaiting(q)'
  <2>1. CASE \E e \in Engines : q \in toPublish[e]
    BY <1>1, <2>1 DEF Awaiting
  <2>2. CASE \E i \in DOMAIN stream : stream[i] = q
    <3>1. PICK i \in DOMAIN stream : stream[i] = q
      BY <2>2
    <3>2. CASE i = 1
      BY <1>1, <3>1, <3>2 DEF Awaiting, o
    <3>3. CASE i # 1
      BY <1>1, <3>1, <3>3 DEF Awaiting
    <3>4. QED
      BY <3>2, <3>3
  <2>3. CASE \E x \in Workers : worker[x].pc \in {"load", "claim"} /\ worker[x].order = q
    BY <1>1, <2>3 DEF Awaiting
  <2>4. QED
    BY <1>4, <2>1, <2>2, <2>3 DEF Awaiting
<1>5. ASSUME NEW q \in OrderIds, Claimed(q) PROVE Claimed(q)'
  <2>1. PICK x \in Workers : Executing(x) /\ worker[x].order = q
    BY <1>5 DEF Claimed
  <2>2. x # w
    BY <1>1, <2>1 DEF Executing
  <2>3. QED
    BY <1>1, <1>2, <2>1, <2>2 DEF Claimed
<1>6. QED
  BY <1>1, <1>3, <1>4, <1>5 DEF InFlightHeld, Awaiting, Claimed

\* The other steps of the workers: a triggered order is claimed, a claimed one is kept
\* until it is filled or failed, for its row is at the version the worker checks.
LEMMA WorkersInFlight ==
  ASSUME IInv, InFlightHeld, ClaimsCurrent, Faults \subseteq {"quote"},
         NEW w \in Workers, WorkerStep(w) \/ WorkerCrash(w), ~WorkerConsume(w)
  PROVE  InFlightHeld' /\ ClaimsCurrent'
<1>1. /\ TypeOK /\ OrdersTypeOK /\ ExecutorTypeOK /\ ExclusiveExecution
      /\ worker \in [Workers -> WorkerState]
      /\ "db" \notin Faults /\ "crash" \notin Faults
  BY DEF IInv, TypeOK, ExecutorTypeOK
<1>2. UNCHANGED <<toPublish, stream>> /\ worker[w].pc \in {"load"} \cup ExecutePcs
  BY <1>1 DEF WorkerStep, WorkerLoad, WorkerClaim, WorkerQuoteFails, WorkerSubmit,
              WorkerConfirmed, WorkerFill, WorkerSettle, WorkerFail, WorkerRelease,
              WorkerCrash, ExecutePcs, triggerEngineVars
<1>3. PICK o \in OrderIds : worker[w].order = o
  BY <1>1, <1>2, WorkerLoaded, WorkerRow
<1>4. \A x \in Workers : x # w => worker'[x] = worker[x]
  BY <1>1 DEF WorkerStep, WorkerLoad, WorkerClaim, WorkerQuoteFails, WorkerSubmit,
              WorkerConfirmed, WorkerFill, WorkerSettle, WorkerFail, WorkerRelease,
              WorkerCrash, WorkerRests, WorkerGoes
<1>5. \* What is left to see of a step: the rows, and where the worker is after it.
      ASSUME \A q \in OrderIds : q # o => orders'[q] = orders[q],
             orders'[o].status = "triggered" =>
               orders'[o] = orders[o] /\ (worker[w].pc \in {"load", "claim"} => Awaiting(o)'),
             orders'[o].status = "submitting" =>
               Claimed(o)' \/ (orders[o].status = "submitting" /\ ~Executing(w)),
             worker'[w].pc = "claim" => worker'[w].row = orders'[worker'[w].order]
      PROVE  InFlightHeld' /\ ClaimsCurrent'
  BY <1>1, <1>2, <1>3, <1>4, <1>5, WorkerInFlight
<1>6. CASE WorkerLoad(w)
  <2>1. UNCHANGED orders /\ worker[w].pc = "load"
    BY <1>6 DEF WorkerLoad
  <2>2. CASE worker' = [worker EXCEPT ![w] = [pc |-> "claim", order |-> o, row |-> orders[o]]]
    <3>1. /\ worker'[w].pc = "claim" /\ worker'[w].order = o /\ worker'[w].row = orders[o]
      BY <1>1, <2>2
    <3>2. Awaiting(o)'
      BY <3>1 DEF Awaiting
    <3>3. QED
      BY <1>5, <2>1, <3>1, <3>2 DEF Executing
  <2>3. CASE orders[o].status # "triggered" /\ WorkerRests(w)
    <3>1. worker'[w].pc = "idle"
      BY <1>1, <2>3, WorkerStops
    <3>2. QED
      BY <1>5, <2>1, <2>3, <3>1 DEF Executing
  <2>4. QED
    BY <1>1, <1>3, <1>6, <2>2, <2>3 DEF WorkerLoad
<1>7. CASE WorkerClaim(w)
  <2> DEFINE v == worker[w].row.version
  <2>1. worker[w].pc = "claim" /\ worker[w].pc \in ExecutePcs
    BY <1>7 DEF WorkerClaim, ExecutePcs
  <2>2. CASE UpdateStatus(o, "submitting", v) /\ WorkerGoes(w, "swap")
    <3>1. /\ orders'[o].status = "submitting"
          /\ \A q \in OrderIds : q # o => orders'[q] = orders[q]
      BY <1>1, <2>2, UpdateStatusEffect DEF Statuses
    <3>2. worker'[w].pc = "swap" /\ worker'[w].order = o
      BY <1>1, <1>3, <2>1, <2>2, WorkerMoves
    <3>3. Claimed(o)'
      BY <3>2 DEF Claimed, Executing
    <3>4. QED
      BY <1>5, <3>1, <3>2, <3>3
  <2>3. CASE ~VersionIs(o, v) /\ WorkerRests(w) /\ UNCHANGED orders
    <3>1. orders[o].status # "triggered"
      BY <1>3, <2>1, <2>3 DEF ClaimsCurrent, VersionIs
    <3>2. worker'[w].pc = "idle"
      BY <1>1, <2>3, WorkerStops
    <3>3. QED
      BY <1>5, <2>1, <2>3, <3>1, <3>2 DEF Executing
  <2>4. QED
    BY <1>1, <1>3, <1>7, <2>2, <2>3 DEF WorkerClaim, UpdateFails
<1>8. CASE WorkerQuoteFails(w) \/ WorkerSubmit(w) \/ WorkerConfirmed(w)
  <2>1. PICK pc \in {"fail", "confirm", "fill"} : WorkerGoes(w, pc)
    BY <1>8 DEF WorkerQuoteFails, WorkerSubmit, WorkerConfirmed
  <2>2. UNCHANGED orders /\ worker[w].pc \in {"swap", "confirm"}
    BY <1>8 DEF WorkerQuoteFails, WorkerSubmit, WorkerConfirmed
  <2>3. worker'[w].pc \in {"fail", "confirm", "fill"} /\ worker'[w].order = o
    BY <1>1, <1>3, <2>1, <2>2, WorkerMoves DEF ExecutePcs
  <2>4. Claimed(o)'
    BY <2>3 DEF Claimed, Executing
  <2>5. QED
    BY <1>5, <2>2, <2>3, <2>4
<1>9. CASE WorkerFill(w) \/ WorkerFail(w)
  <2> DEFINE v == worker[w].row.version + 1
  <2>1. worker[w].pc \in {"fill", "fail"}
    BY <1>9 DEF WorkerFill, WorkerFail
  <2>2. orders[o] = [status |-> "submitting", version |-> v]
    BY <1>1, <1>3, <2>1 DEF ExclusiveExecution, Executing
  <2>3. ~UpdateFails(o, v)
    BY <1>1, <2>2 DEF UpdateFails, VersionIs
  <2>4. \/ UpdateStatus(o, "filled", v) /\ WorkerGoes(w, "settle")
        \/ UpdateStatus(o, "failed", v) /\ WorkerGoes(w, "release")
    BY <1>3, <1>9, <2>3 DEF WorkerFill, WorkerFail
  <2>5. PICK s \in {"filled", "failed"}, pc \in {"settle", "release"} :
          UpdateStatus(o, s, v) /\ WorkerGoes(w, pc)
    BY <2>4
  <2>6. /\ orders'[o].status = s
        /\ \A q \in OrderIds : q # o => orders'[q] = orders[q]
    <3>1. s \in Statuses /\ s # "absent"
      BY DEF Statuses
    <3>2. QED
      BY <1>1, <2>5, <3>1, UpdateStatusEffect
  <2>7. worker'[w].pc = pc
    BY <1>1, <2>1, <2>5, WorkerMoves DEF ExecutePcs
  <2>8. QED
    BY <1>5, <2>6, <2>7
<1>10. CASE WorkerSettle(w) \/ WorkerRelease(w)
  <2>1. UNCHANGED orders /\ WorkerRests(w) /\ worker[w].pc \in {"settle", "release"}
    BY <1>10 DEF WorkerSettle, WorkerRelease
  <2>2. worker'[w].pc = "idle"
    BY <1>1, <2>1, WorkerStops
  <2>3. QED
    BY <1>5, <2>1, <2>2 DEF Executing
<1>11. QED
  BY <1>1, <1>6, <1>7, <1>8, <1>9, <1>10 DEF WorkerStep, WorkerCrash

\* Every step keeps the two, whoever takes it.
LEMMA StepInFlight ==
  ASSUME IInv, Placed, InFlightHeld, ClaimsCurrent, Faults \subseteq {"quote"}, [Next]_vars
  PROVE  InFlightHeld' /\ ClaimsCurrent'
<1>1. TypeOK /\ ExecutorTypeOK
  BY DEF IInv, TypeOK
<1>2. CASE NoneUnderway /\ UNCHANGED <<triggerEngineVars, executorVars>>
  BY <1>1, <1>2, UnderwayFrame DEF triggerEngineVars, executorVars
<1>3. CASE TriggerEngineNext /\ UNCHANGED <<ledgerVars, orderServiceVars, executorVars>>
  BY <1>1, <1>3, EngineInFlight DEF TriggerEngineNext, executorVars
<1>4. CASE ExecutorNext /\ UNCHANGED orderServiceVars
  BY <1>1, <1>4, ConsumeInFlight, WorkersInFlight DEF ExecutorNext
<1>5. OrderServiceNext \/ UNCHANGED vars => NoneUnderway
  BY <1>1, RequestsUnderway DEF vars, NoneUnderway
<1>6. QED
  BY <1>2, <1>3, <1>4, <1>5 DEF Next, vars

\* No order is under way initially.
LEMMA InitInFlight == Init => InFlightHeld /\ ClaimsCurrent
BY DEF Init, OrdersInit, ExecutorInit, Resting, InFlightHeld, ClaimsCurrent

\* Where only quotes fail, no order is ever lost between the processes, for any number
\* of engines and workers and whoever cancels: somebody has yet to send, take or claim a
\* triggered order, and a worker executes a submitting one.
THEOREM ExchangeInFlightHeld ==
  ASSUME Faults \subseteq {"quote"}
  PROVE  Spec => []InFlightHeld
<1> DEFINE I == Placed /\ InFlightHeld /\ ClaimsCurrent
<1>1. Init => I
  BY InitPlaced, InitInFlight
<1>2. IInv /\ I /\ [Next]_vars => I'
  BY StepPlaced, StepInFlight
<1>3. I => InFlightHeld
  OBVIOUS
<1> HIDE DEF I
<1>4. QED
  BY <1>1, <1>2, <1>3, ExchangeInvariant, PTL DEF Spec

-----------------------------------------------------------------------------
(* Orders that nobody has on the way, and the locks of orders nobody cancels. *)

\* Nobody is about to send the order, or has it, nor is a message of it under way.
Free(o) ==
  /\ \A e \in Engines : o \notin toPublish[e]
  /\ \A i \in DOMAIN stream : stream[i] # o
  /\ \A w \in Workers : ~Has(w, o)

\* Free is what Holders says of the three kinds of places.
LEMMA FreeHolders ==
  ASSUME NEW o \in OrderIds
  PROVE  Free(o) <=> Holders(o) = {}
<1>1. ASSUME Free(o) PROVE Holders(o) = {}
  BY <1>1 DEF Free, Holders, Has
<1>2. ASSUME Holders(o) = {} PROVE Free(o)
  <2>1. ASSUME NEW e \in Engines, o \in toPublish[e] PROVE FALSE
    <3>1. <<"engine", e>> \in Holders(o)
      BY <2>1 DEF Holders
    <3>2. QED
      BY <1>2, <3>1
  <2>2. ASSUME NEW i \in DOMAIN stream, stream[i] = o PROVE FALSE
    <3>1. <<"message", i>> \in Holders(o)
      BY <2>2 DEF Holders
    <3>2. QED
      BY <1>2, <3>1
  <2>3. ASSUME NEW w \in Workers, Has(w, o) PROVE FALSE
    <3>1. <<"worker", w>> \in Holders(o)
      BY <2>3 DEF Holders, Has
    <3>2. QED
      BY <1>2, <3>1
  <2>4. QED
    BY <2>1, <2>2, <2>3 DEF Free
<1>3. QED
  BY <1>1, <1>2

\* Once begun, an order that is free stays free: an engine puts only open orders on the
\* way, and all other steps pass on what is on the way already.
LEMMA FreeStays ==
  ASSUME TypeOK, [Next]_vars, NEW o \in OrderIds, Free(o), orders[o].status # "open"
  PROVE  Free(o)'
<1>1. /\ toPublish \in [Engines -> SUBSET OrderIds] /\ stream \in Seq(OrderIds)
      /\ OrdersTypeOK /\ \A e \in Engines : \A s \in batch[e] : s.order \in OrderIds
  BY DEF TypeOK, TriggerEngineTypeOK, Snapshot
<1>2. CASE UNCHANGED <<triggerEngineVars, executorVars>>
  BY <1>2 DEF triggerEngineVars, executorVars, Free, Has
<1>3. ASSUME NEW e \in Engines, UNCHANGED executorVars,
             (\E p \in Prices : EngineTick(e, p)) \/ EngineStep(e) \/ EngineCrash(e)
      PROVE  Free(o)'
  <2>1. \A w \in Workers : ~Has(w, o)'
    BY <1>3 DEF executorVars, Free, Has
  <2>2. CASE EngineTrigger(e)
    <3>1. PICK s \in batch[e] :
            \/ /\ TriggerOrder(s.order, s.row.version)
               /\ toPublish' = [toPublish EXCEPT ![e] = {s.order}]
            \/ UNCHANGED toPublish
      BY <2>2 DEF EngineTrigger
    <3>2. \A f \in Engines : o \notin toPublish'[f]
      BY <1>1, <3>1 DEF Free, TriggerOrder
    <3>3. UNCHANGED stream
      BY <2>2 DEF EngineTrigger
    <3>4. QED
      BY <2>1, <3>2, <3>3 DEF Free
  <2>3. CASE EnginePublish(e)
    <3>1. PICK q \in toPublish[e] : Publish(q)
      BY <2>3 DEF EnginePublish
    <3>2. \A f \in Engines : toPublish'[f] \subseteq toPublish[f]
      BY <1>1, <2>3 DEF EnginePublish
    <3>3. q # o /\ q \in OrderIds
      BY <1>1, <3>1 DEF Free
    <3>4. \A i \in DOMAIN stream' : stream'[i] # o
      BY <1>1, <3>1, <3>3 DEF Publish, Free
    <3>5. QED
      BY <2>1, <3>2, <3>4 DEF Free
  <2>4. CASE (\E p \in Prices : EngineTick(e, p)) \/ EngineCrash(e)
    <3>1. UNCHANGED stream /\ \A f \in Engines : toPublish'[f] \subseteq toPublish[f]
      BY <1>1, <2>4 DEF EngineTick, EngineCrash
    <3>2. QED
      BY <2>1, <3>1 DEF Free
  <2>5. QED
    BY <1>3, <2>2, <2>3, <2>4 DEF EngineStep
<1>4. ASSUME NEW w \in Workers, WorkerStep(w) \/ WorkerCrash(w)
      PROVE  Free(o)'
  <2>1. CASE ~WorkerConsume(w)
    <3>1. UNCHANGED triggerEngineVars
      BY <1>4, <2>1
         DEF WorkerStep, WorkerLoad, WorkerClaim, WorkerQuoteFails, WorkerSubmit,
             WorkerConfirmed, WorkerFill, WorkerSettle, WorkerFail, WorkerRelease,
             WorkerCrash
    <3>2. \A x \in Workers : ~Has(x, o)'
      BY <1>4, <2>1, WorkerKeepsOrder DEF Free
    <3>3. QED
      BY <3>1, <3>2 DEF Free, triggerEngineVars
  <2>2. CASE WorkerConsume(w)
    <3>1. /\ UNCHANGED toPublish
          /\ \A x \in Workers : x # w => worker'[x] = worker[x]
          /\ 1 \in DOMAIN stream /\ worker'[w] = [pc |-> "load", order |-> stream[1]]
          /\ \A i \in DOMAIN stream' : i + 1 \in DOMAIN stream /\ stream'[i] = stream[i + 1]
      BY <2>2, ConsumeEffect
    <3>2. stream[1] # o /\ worker'[w].order = stream[1]
      BY <3>1 DEF Free
    <3>3. \A x \in Workers : ~Has(x, o)'
      BY <3>1, <3>2 DEF Free, Has
    <3>4. \A i \in DOMAIN stream' : stream'[i] # o
      BY <3>1 DEF Free
    <3>5. QED
      BY <3>1, <3>3, <3>4 DEF Free
  <2>3. QED
    BY <2>1, <2>2
<1>5. QED
  BY <1>2, <1>3, <1>4 DEF Next, vars, TriggerEngineNext, ExecutorNext

\* A step of a worker changes the row and the swaps of its own order only, and only where
\* it claims, executes or ends it.
LEMMA WorkerElsewhere ==
  ASSUME TypeOK, NEW w \in Workers, WorkerStep(w) \/ WorkerCrash(w), NEW o \in OrderIds,
         Has(w, o) => worker[w].pc \in {"load", "settle", "release"}
  PROVE  orders'[o] = orders[o] /\ swaps'[o] = swaps[o]
<1>1. /\ OrdersTypeOK /\ ExecutorTypeOK /\ swaps \in [OrderIds -> Nat]
  BY DEF TypeOK, ExecutorTypeOK
<1>2. CASE WorkerClaim(w) \/ WorkerFill(w) \/ WorkerFail(w)
  <2>1. UNCHANGED swaps /\ worker[w].pc \in {"claim", "fill", "fail"}
    BY <1>2 DEF WorkerClaim, WorkerFill, WorkerFail
  <2>2. worker[w].order \in OrderIds /\ worker[w].order # o
    BY <1>1, <2>1, WorkerRow DEF ExecutePcs, Has
  <2>3. PICK s \in {"submitting", "filled", "failed"}, v \in Int :
          UpdateStatus(worker[w].order, s, v) \/ UNCHANGED orders
    <3>1. worker[w].row.version \in Nat
      BY <1>1, <2>1, WorkerRow DEF ExecutePcs, Row
    <3>2. QED
      BY <1>2, <3>1 DEF WorkerClaim, WorkerFill, WorkerFail
  <2>4. s \in Statuses /\ s # "absent"
    BY DEF Statuses
  <2>5. orders'[o] = orders[o]
    BY <1>1, <2>2, <2>3, <2>4, UpdateStatusEffect
  <2>6. QED
    BY <2>1, <2>5
<1>3. CASE WorkerSubmit(w)
  <2>1. worker[w].order # o /\ UNCHANGED orders
    BY <1>3 DEF WorkerSubmit, Has
  <2>2. QED
    BY <1>1, <1>3, <2>1 DEF WorkerSubmit
<1>4. CASE ~(WorkerClaim(w) \/ WorkerFill(w) \/ WorkerFail(w) \/ WorkerSubmit(w))
  BY <1>4 DEF WorkerStep, WorkerConsume, WorkerLoad, WorkerQuoteFails, WorkerConfirmed,
              WorkerSettle, WorkerRelease, WorkerCrash
<1>5. QED
  BY <1>2, <1>3, <1>4

\* What only a cancel may still do to an order that was begun and that no worker claims,
\* executes or ends.
LEMMA RowKept ==
  ASSUME IInv, [Next]_vars, NEW o \in OrderIds, orders[o].status \notin {"absent", "open"},
         \A w \in Workers : Has(w, o) => worker[w].pc \in {"load", "settle", "release"}
  PROVE  /\ swaps'[o] = swaps[o]
         /\ \/ orders'[o] = orders[o]
            \/ orders[o].status = "triggered" /\ orders'[o].status = "canceled"
<1>1. TypeOK /\ OrdersTypeOK /\ OrderServiceTypeOK /\ VersionsAgree /\ HeldStatuses
  BY DEF IInv, TypeOK
<1>2. CASE OrderServiceNext /\ UNCHANGED executorVars
  <2>1. ASSUME NEW q \in OrderIds, Insert(q) PROVE orders'[o] = orders[o]
    BY <1>1, <2>1, InsertEffect
  <2>2. ASSUME NEW c \in Cancelers, CancelUpdate(c)
        PROVE  \/ orders'[o] = orders[o]
               \/ orders[o].status = "triggered" /\ orders'[o].status = "canceled"
    <3>1. PICK q \in OrderIds : cancel[c].order = q
      BY <1>1, <2>2, CancelRow DEF CancelUpdate
    <3>2. CASE UNCHANGED orders
      BY <3>2
    <3>3. CASE UpdateStatus(q, "canceled", cancel[c].row.version)
      <4>1. /\ \A p \in OrderIds : p # q => orders'[p] = orders[p]
            /\ orders'[q].status = "canceled" /\ orders[q].version = cancel[c].row.version
        BY <1>1, <3>3, CanceledEffect
      <4>2. orders[q].status = cancel[c].row.status
            /\ cancel[c].row.status \in {"open", "triggered"}
        BY <1>1, <2>2, <3>1, <4>1 DEF CancelUpdate, VersionsAgree, HeldStatuses, Agrees
      <4>3. QED
        BY <4>1, <4>2
    <3>4. QED
      BY <2>2, <3>1, <3>2, <3>3 DEF CancelUpdate
  <2>3. UNCHANGED swaps
    BY <1>2 DEF executorVars
  <2>4. QED
    BY <1>2, <2>1, <2>2, <2>3
       DEF OrderServiceNext, CreateStep, CreateCheck, CreateLock, CreateInsert, CreateUndo,
           CreateCrash, CancelStep, CancelRead, CancelRelease, CancelCrash
<1>3. CASE TriggerEngineNext /\ UNCHANGED executorVars
  <2>1. ASSUME NEW e \in Engines, NEW s \in batch[e],
               TriggerOrder(s.order, s.row.version)
        PROVE  orders'[o] = orders[o]
    <3>1. s.order \in OrderIds /\ s.order # o
      BY <1>1, <2>1 DEF TypeOK, TriggerEngineTypeOK, Snapshot, TriggerOrder
    <3>2. QED
      BY <1>1, <2>1, <3>1, UpdateStatusEffect DEF TriggerOrder, Statuses
  <2>2. orders'[o] = orders[o]
    BY <1>3, <2>1 DEF TriggerEngineNext, EngineStep, EngineTick, EngineTrigger,
                      EnginePublish, EngineCrash
  <2>3. QED
    BY <1>3, <2>2 DEF executorVars
<1>4. CASE ExecutorNext
  BY <1>1, <1>4, WorkerElsewhere DEF ExecutorNext
<1>5. CASE UNCHANGED vars
  BY <1>5 DEF vars, executorVars
<1>6. QED
  BY <1>2, <1>3, <1>4, <1>5 DEF Next

\* What is lost between engines, stream and workers is never executed late, whatever fails
\* and for any number of them: it stays as it is, or a triggered order is canceled.
THEOREM ExchangeLostStays == Spec => LostStays
<1>1. ASSUME IInv, [Next]_vars, NEW o \in OrderIds, Lost(o)
      PROVE  \/ Lost(o)' /\ orders'[o] = orders[o]
             \/ orders[o].status = "triggered" /\ orders'[o].status = "canceled"
  <2>1. Free(o) /\ orders[o].status \in {"triggered", "submitting"}
    BY <1>1, FreeHolders DEF Lost
  <2>2. Free(o)'
    BY <1>1, <2>1, FreeStays DEF IInv
  <2>3. \/ orders'[o] = orders[o]
        \/ orders[o].status = "triggered" /\ orders'[o].status = "canceled"
    BY <1>1, <2>1, RowKept DEF Free
  <2>4. (Free(o) <=> Holders(o) = {})'
    BY FreeHolders, PTL
  <2>5. QED
    BY <2>1, <2>2, <2>3, <2>4 DEF Lost
<1>2. IInv /\ [Next]_vars =>
        [\A o \in OrderIds :
           Lost(o) => \/ Lost(o)' /\ orders'[o] = orders[o]
                      \/ orders[o].status = "triggered" /\ orders'[o].status = "canceled"]_vars
  BY <1>1
<1>3. QED
  BY <1>2, ExchangeInvariant, PTL DEF Spec, LostStays
-----------------------------------------------------------------------------
(* The lock of an accepted order that nobody cancels, whatever fails.       *)

\* A cancel under way is of an order that users cancel.
CancelsAsked == \A c \in Cancelers : cancel[c].pc # "idle" => cancel[c].order \in Cancelable

\* A worker that gives a lock back has sent no swap and, were its last statement to have
\* failed, left the order submitting.
ReleasesUnswapped ==
  \A w \in Workers :
    worker[w].pc = "release" =>
      /\ orders[worker[w].order].status \in {"submitting", "failed"}
      /\ swaps[worker[w].order] = 0

\* How the lock of an order is: not yet spoken of, held, given up, or settled.
Unplaced(o) ==
  /\ orders[o].status = "absent"
  /\ entries[o]["lock_funds"] = IF create[o] = "locked" THEN 1 ELSE 0
  /\ entries[o]["release_funds"] = 0 /\ entries[o]["filled"] = 0

LockHeld(o) == entries[o]["release_funds"] = 0 /\ entries[o]["filled"] = 0

LockGivenUp(o) ==
  /\ entries[o]["release_funds"] = 1 /\ entries[o]["filled"] = 0
  /\ orders[o].status \in {"submitting", "failed"} /\ swaps[o] = 0 /\ Free(o)

LockSettled(o) ==
  entries[o]["release_funds"] = 1 /\ entries[o]["filled"] > 0 /\ Free(o)

\* The strengthening of AcceptedLock for one order.
LockStage(o) ==
  /\ create[o] \in {"new", "checked", "locked"} => Unplaced(o)
  /\ create[o] = "accepted" =>
       /\ entries[o]["lock_funds"] = 1
       /\ LockHeld(o) \/ LockGivenUp(o) \/ LockSettled(o)

\* Cancels are of orders that users cancel, from their first step on.
LEMMA StepCancelsAsked ==
  ASSUME TypeOK, CancelsAsked, [Next]_vars
  PROVE  CancelsAsked'
<1>1. cancel \in [Cancelers -> CancelState]
  BY DEF TypeOK, OrderServiceTypeOK
<1>2. CASE OrderServiceNext
  <2>1. CASE \E o \in OrderIds : CreateStep(o) \/ CreateCrash(o)
    <3>1. UNCHANGED cancel
      BY <2>1 DEF CreateStep, CreateCheck, CreateLock, CreateInsert, CreateUndo, CreateCrash
    <3>2. QED
      BY <3>1 DEF CancelsAsked
  <2>2. ASSUME NEW c \in Cancelers,
               \/ \E u \in Users, o \in OrderIds : CancelRead(c, u, o)
               \/ CancelStep(c) \/ CancelCrash(c)
        PROVE  CancelsAsked'
    <3>1. \A d \in Cancelers : d # c => cancel'[d] = cancel[d]
      BY <1>1, <2>2 DEF CancelRead, CancelStep, CancelRelease, CancelUpdate, CancelCrash,
                        CancelGoes
    <3>2. CASE \E u \in Users, o \in OrderIds : CancelRead(c, u, o)
      <4>1. cancel'[c].order \in Cancelable
        BY <1>1, <3>2 DEF CancelRead, CancelGoes
      <4>2. QED
        BY <3>1, <4>1 DEF CancelsAsked
    <3>3. CASE cancel' = [cancel EXCEPT ![c] = Idle]
      <4>1. cancel'[c].pc = "idle"
        BY <1>1, <3>3 DEF Idle
      <4>2. QED
        BY <3>1, <4>1 DEF CancelsAsked
    <3>4. CASE cancel[c].pc # "idle" /\ cancel' = [cancel EXCEPT ![c] = [cancel[c] EXCEPT !.pc = "update"]]
      <4>1. cancel[c] \in [pc : {"release", "update"}, order : OrderIds, row : Row]
        BY <3>4, CancelRow DEF TypeOK
      <4>2. cancel'[c].order = cancel[c].order
        BY <1>1, <3>4, <4>1
      <4>3. QED
        BY <3>1, <3>4, <4>2 DEF CancelsAsked
    <3>5. QED
      BY <2>2, <3>2, <3>3, <3>4
         DEF CancelStep, CancelRelease, CancelUpdate, CancelCrash, CancelGoes
  <2>3. QED
    BY <1>2, <2>1, <2>2 DEF OrderServiceNext
<1>3. CASE UNCHANGED cancel
  BY <1>3 DEF CancelsAsked
<1>4. QED
  BY <1>2, <1>3 DEF Next, vars, orderServiceVars

\* Only failing a submitting order that was not swapped brings a worker to its release, and
\* nobody else touches that order.
LEMMA StepReleasesUnswapped ==
  ASSUME IInv, Placed, ReleasesUnswapped, [Next]_vars
  PROVE  ReleasesUnswapped'
<1>1. /\ TypeOK /\ OrdersTypeOK /\ ExecutorTypeOK /\ ExclusiveExecution /\ SwapsMatch
      /\ worker \in [Workers -> WorkerState]
  BY DEF IInv, TypeOK, ExecutorTypeOK
<1>2. ASSUME NEW w \in Workers, worker[w].pc = "release", worker'[w] = worker[w]
      PROVE  /\ orders'[worker'[w].order].status \in {"submitting", "failed"}
             /\ swaps'[worker'[w].order] = 0
  <2>1. PICK o \in OrderIds : worker[w].order = o
    BY <1>1, <1>2, WorkerRow DEF ExecutePcs
  <2>2. \A x \in Workers : Has(x, o) => worker[x].pc \in {"load", "settle", "release"}
    <3>1. Has(w, o)
      BY <1>2, <2>1 DEF Has
    <3>2. QED
      BY <1>2, <3>1 DEF Placed
  <2>3. orders[o].status \in {"submitting", "failed"} /\ swaps[o] = 0
    BY <1>2, <2>1 DEF ReleasesUnswapped
  <2>4. orders'[o] = orders[o] /\ swaps'[o] = swaps[o]
    BY <2>2, <2>3, RowKept
  <2>5. QED
    BY <1>2, <2>1, <2>3, <2>4
<1>3. ASSUME NEW w \in Workers, WorkerFail(w)
      PROVE  /\ orders'[worker'[w].order].status \in {"submitting", "failed"}
             /\ swaps'[worker'[w].order] = 0
  <2>1. worker[w].pc = "fail" /\ WorkerGoes(w, "release") /\ UNCHANGED swaps
    BY <1>3 DEF WorkerFail
  <2>2. PICK o \in OrderIds : worker[w].order = o
    BY <1>1, <2>1, WorkerRow DEF ExecutePcs
  <2>3. worker'[w].order = o
    BY <1>1, <2>1, <2>2, WorkerMoves DEF ExecutePcs
  <2>4. orders[o].status = "submitting" /\ swaps[o] = 0
    <3>1. orders[o] = [status |-> "submitting", version |-> worker[w].row.version + 1]
      BY <1>1, <2>1, <2>2 DEF ExclusiveExecution, Executing
    <3>2. swaps[o] = 0
      BY <1>1, <2>1, <2>2 DEF SwapsMatch
    <3>3. QED
      BY <3>1, <3>2
  <2>5. orders'[o].status \in {"submitting", "failed"}
    <3>1. CASE UpdateStatus(o, "failed", worker[w].row.version + 1)
      BY <1>1, <3>1, UpdateStatusEffect DEF Statuses
    <3>2. QED
      BY <1>3, <2>2, <2>4, <3>1 DEF WorkerFail
  <2>6. QED
    BY <2>1, <2>3, <2>4, <2>5
<1>4. ASSUME NEW w \in Workers, WorkerStep(w) \/ WorkerCrash(w), ~WorkerFail(w)
      PROVE  \A x \in Workers : worker'[x].pc = "release" => worker'[x] = worker[x]
  <2>1. CASE WorkerRests(w)
    BY <1>1, <2>1, WorkerStops
  <2>2. ASSUME NEW pc \in ExecutePcs, pc # "release", worker[w].pc \in ExecutePcs,
               WorkerGoes(w, pc)
        PROVE  \A x \in Workers : worker'[x].pc = "release" => worker'[x] = worker[x]
    BY <1>1, <2>2, WorkerMoves
  <2>3. CASE WorkerConsume(w) \/ WorkerLoad(w)
    BY <1>1, <2>1, <2>3 DEF WorkerConsume, WorkerLoad
  <2>4. QED
    BY <1>4, <2>1, <2>2, <2>3
       DEF WorkerStep, WorkerClaim, WorkerQuoteFails, WorkerSubmit, WorkerConfirmed,
           WorkerFill, WorkerSettle, WorkerRelease, WorkerCrash, ExecutePcs
<1>5. CASE \E w \in Workers : WorkerFail(w)
  <2>1. PICK w \in Workers : WorkerFail(w)
    BY <1>5
  <2>2. \A x \in Workers : x # w => worker'[x] = worker[x]
    BY <1>1, <2>1, WorkerMoves DEF WorkerFail, ExecutePcs
  <2>3. QED
    BY <1>2, <1>3, <2>1, <2>2 DEF ReleasesUnswapped
<1>6. CASE \A x \in Workers : worker'[x].pc = "release" => worker'[x] = worker[x]
  BY <1>2, <1>6 DEF ReleasesUnswapped
<1>7. CASE UNCHANGED executorVars
  BY <1>6, <1>7 DEF executorVars
<1>8. QED
  BY <1>4, <1>5, <1>6, <1>7 DEF Next, vars, ExecutorNext

\* An order that is not created by this very step is absent after it if it was before.
LEMMA AbsentStays ==
  ASSUME TypeOK, [Next]_vars, NEW o \in OrderIds, orders[o].status = "absent",
         create'[o] = create[o]
  PROVE  orders'[o].status = "absent"
<1>1. OrdersTypeOK /\ create \in [OrderIds -> CreatePhases]
  BY DEF TypeOK, OrderServiceTypeOK
<1>2. ASSUME NEW q \in OrderIds, CreateInsert(q) PROVE orders'[o] = orders[o]
  <2>1. q # o
    BY <1>1, <1>2 DEF CreateInsert, CreateGoes
  <2>2. QED
    BY <1>1, <1>2, <2>1, InsertEffect DEF CreateInsert
<1>3. ASSUME NEW q, NEW s, NEW v, UpdateStatus(q, s, v) PROVE orders'[o] = orders[o]
  <2>1. q # o /\ orders' = [orders EXCEPT ![q] = [status |-> s, version |-> @.version + 1]]
    BY <1>3 DEF UpdateStatus, VersionIs, SetStatus
  <2>2. QED
    BY <1>1, <2>1 DEF OrdersTypeOK
<1>4. CASE OrderServiceNext
  BY <1>2, <1>3, <1>4
     DEF OrderServiceNext, CreateStep, CreateCheck, CreateLock, CreateUndo, CreateCrash,
         CancelStep, CancelRead, CancelRelease, CancelUpdate, CancelCrash
<1>5. CASE TriggerEngineNext
  BY <1>3, <1>5 DEF TriggerEngineNext, EngineStep, EngineTick, EngineTrigger, EnginePublish,
                    EngineCrash, TriggerOrder
<1>6. CASE ExecutorNext
  BY <1>3, <1>6 DEF ExecutorNext, WorkerStep, WorkerConsume, WorkerLoad, WorkerClaim,
                    WorkerQuoteFails, WorkerSubmit, WorkerConfirmed, WorkerFill,
                    WorkerSettle, WorkerFail, WorkerRelease, WorkerCrash
<1>7. QED
  BY <1>4, <1>5, <1>6 DEF Next, vars

\* A step that adds no entry of the order.
EntriesSame(o) ==
  /\ entries'[o]["lock_funds"] = entries[o]["lock_funds"]
  /\ entries'[o]["release_funds"] = entries[o]["release_funds"]
  /\ entries'[o]["filled"] = entries[o]["filled"]

\* A step that adds no entry of the order and leaves its request keeps its stage.
LEMMA StageFrame ==
  ASSUME IInv, FundsInv, [Next]_vars, NEW o \in OrderIds, LockStage(o), EntriesSame(o),
         create'[o] = create[o]
  PROVE  LockStage(o)'
<1>1. TypeOK
  BY DEF IInv
<1>2. CASE create[o] \in {"new", "checked", "locked"}
  BY <1>1, <1>2, AbsentStays DEF LockStage, Unplaced, EntriesSame
<1>3. CASE create[o] = "accepted" /\ LockHeld(o)
  BY <1>3 DEF LockStage, LockHeld, EntriesSame
<1>4. CASE create[o] = "accepted" /\ LockGivenUp(o)
  <2>1. Free(o)'
    BY <1>1, <1>4, FreeStays DEF LockGivenUp
  <2>2. orders'[o] = orders[o] /\ swaps'[o] = swaps[o]
    BY <1>4, RowKept DEF LockGivenUp, Free
  <2>3. LockGivenUp(o)'
    BY <1>4, <2>1, <2>2 DEF LockGivenUp, EntriesSame
  <2>4. QED
    BY <1>4, <2>3 DEF LockStage, EntriesSame
<1>5. CASE create[o] = "accepted" /\ LockSettled(o)
  <2>1. orders[o].status = "filled"
    BY <1>5 DEF LockSettled, FundsInv
  <2>2. Free(o)'
    BY <1>1, <1>5, <2>1, FreeStays DEF LockSettled
  <2>3. LockSettled(o)'
    BY <1>5, <2>2 DEF LockSettled, EntriesSame
  <2>4. QED
    BY <1>5, <2>3 DEF LockStage, EntriesSame
<1>6. CASE create[o] \notin {"new", "checked", "locked", "accepted"}
  BY <1>6 DEF LockStage
<1>7. QED
  BY <1>2, <1>3, <1>4, <1>5, <1>6 DEF LockStage

\* The steps of the order's own create request.
LEMMA CreateStage ==
  ASSUME TypeOK, NEW o \in OrderIds, LockStage(o), CreateStep(o) \/ CreateCrash(o)
  PROVE  LockStage(o)'
<1>1. /\ LedgerTypeOK /\ OrdersTypeOK /\ create \in [OrderIds -> CreatePhases]
  BY DEF TypeOK, OrderServiceTypeOK
<1>2. CASE CreateGoes(o, "rejected") \/ CreateGoes(o, "undo")
  BY <1>1, <1>2 DEF CreateGoes, LockStage
<1>3. CASE create[o] = "new" /\ CreateGoes(o, "checked") /\ UNCHANGED <<orders, ledgerVars>>
  BY <1>1, <1>3 DEF CreateGoes, LockStage, Unplaced, ledgerVars
<1>4. CASE /\ create[o] = "checked" /\ CreateGoes(o, "locked") /\ UNCHANGED orders
           /\ LockFunds(LockAccount(o), LockAmount(o), o)
  <2>1. /\ entries'[o]["lock_funds"] = 1 /\ entries'[o]["release_funds"] = 0
        /\ entries'[o]["filled"] = 0
    BY <1>1, <1>4, LockEntries DEF LockStage, Unplaced
  <2>2. create'[o] = "locked"
    BY <1>1, <1>4 DEF CreateGoes
  <2>3. QED
    BY <1>4, <2>1, <2>2 DEF LockStage, Unplaced
<1>5. CASE create[o] = "locked" /\ CreateGoes(o, "accepted") /\ UNCHANGED ledgerVars
  <2>1. create'[o] = "accepted"
    BY <1>1, <1>5 DEF CreateGoes
  <2>2. QED
    BY <1>5, <2>1 DEF LockStage, Unplaced, LockHeld, ledgerVars
<1>6. QED
  BY <1>2, <1>3, <1>4, <1>5
     DEF CreateStep, CreateCheck, CreateLock, CreateInsert, CreateUndo, CreateCrash

\* Requests for other orders add no entry of this one.
LEMMA RequestsElsewhere ==
  ASSUME TypeOK, CancelsAsked, OrderServiceNext, NEW o \in OrderIds \ Cancelable,
         ~(CreateStep(o) \/ CreateCrash(o))
  PROVE  EntriesSame(o) /\ create'[o] = create[o]
<1>1. LedgerTypeOK /\ create \in [OrderIds -> CreatePhases]
  BY DEF TypeOK, OrderServiceTypeOK
<1>2. ASSUME NEW q \in OrderIds, CreateStep(q) \/ CreateCrash(q)
      PROVE  EntriesSame(o) /\ create'[o] = create[o]
  <2>1. q # o
    BY <1>2
  <2>2. create'[o] = create[o]
    BY <1>1, <1>2, <2>1 DEF CreateStep, CreateCheck, CreateLock, CreateInsert, CreateUndo,
                            CreateCrash, CreateGoes
  <2>3. CASE LockFunds(LockAccount(q), LockAmount(q), q)
    BY <1>1, <2>1, <2>2, <2>3, LockEntries DEF EntriesSame
  <2>4. CASE ReleaseFunds(LockAccount(q), LockAmount(q), q)
    BY <1>1, <2>1, <2>2, <2>4, ReleaseEntries DEF EntriesSame
  <2>5. CASE UNCHANGED ledgerVars
    BY <2>2, <2>5 DEF ledgerVars, EntriesSame
  <2>6. QED
    BY <1>2, <2>2, <2>3, <2>4, <2>5
       DEF CreateStep, CreateCheck, CreateLock, CreateInsert, CreateUndo, CreateCrash
<1>3. ASSUME NEW c \in Cancelers, CancelRelease(c) PROVE EntriesSame(o)
  <2>1. PICK q \in OrderIds : cancel[c].order = q
    BY <1>3, CancelRow DEF CancelRelease, TypeOK
  <2>2. q # o
    BY <1>3, <2>1 DEF CancelsAsked, CancelRelease
  <2>3. CASE ReleaseFunds(LockAccount(q), LockAmount(q), q)
    BY <1>1, <2>2, <2>3, ReleaseEntries DEF EntriesSame
  <2>4. CASE UNCHANGED ledgerVars
    BY <2>4 DEF ledgerVars, EntriesSame
  <2>5. QED
    BY <1>3, <2>1, <2>3, <2>4 DEF CancelRelease
<1>4. ASSUME NEW c \in Cancelers,
             \/ \E u \in Users, q \in OrderIds : CancelRead(c, u, q)
             \/ CancelStep(c) \/ CancelCrash(c)
      PROVE  EntriesSame(o) /\ create'[o] = create[o]
  <2>1. create'[o] = create[o]
    BY <1>4 DEF CancelRead, CancelStep, CancelRelease, CancelUpdate, CancelCrash
  <2>2. CASE UNCHANGED ledgerVars
    BY <2>1, <2>2 DEF ledgerVars, EntriesSame
  <2>3. QED
    BY <1>3, <1>4, <2>1, <2>2 DEF CancelRead, CancelStep, CancelUpdate, CancelCrash
<1>5. QED
  BY <1>2, <1>4 DEF OrderServiceNext

\* A worker moves the funds of its own order, as the last thing it does.
LEMMA WorkerEntries ==
  ASSUME TypeOK, NEW w \in Workers, WorkerStep(w) \/ WorkerCrash(w), NEW o \in OrderIds
  PROVE  \/ EntriesSame(o)
         \/ /\ Has(w, o) /\ WorkerRests(w) /\ ~WorkerConsume(w)
            /\ entries'[o]["lock_funds"] = entries[o]["lock_funds"]
            /\ entries'[o]["release_funds"] = entries[o]["release_funds"] + 1
            /\ UNCHANGED <<orders, swaps>>
            /\ \/ entries'[o]["filled"] = entries[o]["filled"] + 2
               \/ entries'[o]["filled"] = entries[o]["filled"] /\ worker[w].pc = "release"
<1>1. LedgerTypeOK /\ ExecutorTypeOK
  BY DEF TypeOK
<1>2. CASE UNCHANGED ledgerVars
  BY <1>2 DEF ledgerVars, EntriesSame
<1>3. CASE WorkerSettle(w) /\ ~UNCHANGED ledgerVars
  <2>1. PICK q \in OrderIds : worker[w].order = q
    BY <1>1, <1>3, WorkerRow DEF WorkerSettle, ExecutePcs
  <2>2. PICK out \in QuoteOut :
          ProcessFillWithLockRelease(LockAccount(q), LockAccount(q), BuyAccount(q),
                                     LockAmount(q), LockAmount(q), out, q)
    BY <1>3, <2>1 DEF WorkerSettle
  <2>3. /\ \A p \in OrderIds :
             /\ entries'[p]["lock_funds"] = entries[p]["lock_funds"]
             /\ p # q => entries'[p] = entries[p]
        /\ entries'[q]["release_funds"] = entries[q]["release_funds"] + 1
        /\ entries'[q]["filled"] = entries[q]["filled"] + 2
    BY <1>1, <2>2, SettleEntries
  <2>4. worker[w].pc = "settle" /\ WorkerRests(w) /\ UNCHANGED <<orders, swaps>>
    BY <1>3 DEF WorkerSettle
  <2>5. Has(w, q) /\ ~WorkerConsume(w)
    BY <2>1, <2>4 DEF Has, WorkerConsume
  <2>6. QED
    BY <2>3, <2>4, <2>5 DEF EntriesSame
<1>4. CASE WorkerRelease(w) /\ ~UNCHANGED ledgerVars
  <2>1. PICK q \in OrderIds : worker[w].order = q
    BY <1>1, <1>4, WorkerRow DEF WorkerRelease, ExecutePcs
  <2>2. ReleaseFunds(LockAccount(q), LockAmount(q), q)
    BY <1>4, <2>1 DEF WorkerRelease
  <2>3. /\ \A p \in OrderIds :
             /\ entries'[p]["lock_funds"] = entries[p]["lock_funds"]
             /\ entries'[p]["filled"] = entries[p]["filled"]
             /\ p # q => entries'[p]["release_funds"] = entries[p]["release_funds"]
        /\ entries'[q]["release_funds"] = entries[q]["release_funds"] + 1
    BY <1>1, <2>2, ReleaseEntries
  <2>4. worker[w].pc = "release" /\ WorkerRests(w) /\ UNCHANGED <<orders, swaps>>
    BY <1>4 DEF WorkerRelease
  <2>5. Has(w, q) /\ ~WorkerConsume(w)
    BY <2>1, <2>4 DEF Has, WorkerConsume
  <2>6. QED
    BY <2>3, <2>4, <2>5 DEF EntriesSame
<1>5. QED
  BY <1>2, <1>3, <1>4
     DEF WorkerStep, WorkerConsume, WorkerLoad, WorkerClaim, WorkerQuoteFails, WorkerSubmit,
         WorkerConfirmed, WorkerFill, WorkerFail, WorkerCrash

\* When it has moved them nobody has the order, since only this worker had it.
LEMMA WorkerStage ==
  ASSUME IInv, Placed, FundsInv, ReleasesUnswapped, ExecutorNext, UNCHANGED orderServiceVars,
         NEW o \in OrderIds, LockStage(o)
  PROVE  LockStage(o)'
<1>1. /\ TypeOK /\ worker \in [Workers -> WorkerState] /\ [Next]_vars
      /\ entries[o]["filled"] \in Nat
  BY DEF IInv, TypeOK, ExecutorTypeOK, Next, LedgerTypeOK, EntryTypes
<1>2. PICK w \in Workers : WorkerStep(w) \/ WorkerCrash(w)
  BY DEF ExecutorNext
<1>3. create'[o] = create[o]
  BY DEF orderServiceVars
<1>4. CASE EntriesSame(o)
  BY <1>1, <1>3, <1>4, StageFrame
<1>5. CASE /\ Has(w, o) /\ WorkerRests(w) /\ ~WorkerConsume(w)
           /\ entries'[o]["lock_funds"] = entries[o]["lock_funds"]
           /\ entries'[o]["release_funds"] = entries[o]["release_funds"] + 1
           /\ UNCHANGED <<orders, swaps>>
           /\ \/ entries'[o]["filled"] = entries[o]["filled"] + 2
              \/ entries'[o]["filled"] = entries[o]["filled"] /\ worker[w].pc = "release"
  <2>1. orders[o].status # "absent"
    BY <1>5 DEF Placed
  <2>2. CASE create[o] # "accepted"
    BY <1>3, <2>1, <2>2 DEF LockStage, Unplaced
  <2>3. CASE create[o] = "accepted"
    <3>1. LockHeld(o) /\ entries[o]["lock_funds"] = 1
      BY <1>5, <2>3 DEF LockStage, LockGivenUp, LockSettled, Free
    <3>2. entries'[o]["release_funds"] = 1 /\ entries'[o]["lock_funds"] = 1
      BY <1>5, <3>1 DEF LockHeld
    <3>3. Free(o)'
      <4>1. UNCHANGED triggerEngineVars
        BY <1>2, <1>5
           DEF WorkerStep, WorkerLoad, WorkerClaim, WorkerQuoteFails, WorkerSubmit,
               WorkerConfirmed, WorkerFill, WorkerSettle, WorkerFail, WorkerRelease,
               WorkerCrash
      <4>2. /\ \A e \in Engines : o \notin toPublish[e]
            /\ \A i \in DOMAIN stream : stream[i] # o
            /\ \A x \in Workers : x # w => ~Has(x, o)
        BY <1>5 DEF Placed
      <4>3. worker'[w].pc = "idle" /\ \A x \in Workers : x # w => worker'[x] = worker[x]
        BY <1>1, <1>5, WorkerStops DEF TypeOK
      <4>4. \A x \in Workers : ~Has(x, o)'
        BY <4>2, <4>3 DEF Has
      <4>5. QED
        BY <4>1, <4>2, <4>4 DEF Free, triggerEngineVars
    <3>4. CASE entries'[o]["filled"] = entries[o]["filled"] + 2
      <4>1. entries'[o]["filled"] > 0
        BY <1>1, <3>4
      <4>2. LockSettled(o)'
        BY <3>2, <3>3, <4>1 DEF LockSettled
      <4>3. QED
        BY <1>3, <2>3, <3>2, <4>2 DEF LockStage
    <3>5. CASE entries'[o]["filled"] = entries[o]["filled"] /\ worker[w].pc = "release"
      <4>1. orders'[o].status \in {"submitting", "failed"} /\ swaps'[o] = 0
        BY <1>5, <3>5 DEF ReleasesUnswapped, Has
      <4>2. LockGivenUp(o)'
        BY <3>1, <3>2, <3>3, <3>5, <4>1 DEF LockGivenUp, LockHeld
      <4>3. QED
        BY <1>3, <2>3, <3>2, <4>2 DEF LockStage
    <3>6. QED
      BY <1>5, <3>4, <3>5
  <2>4. QED
    BY <2>2, <2>3
<1>6. QED
  BY <1>1, <1>2, <1>4, <1>5, WorkerEntries

\* Every step keeps the stage of every order that nobody cancels.
LEMMA StepStage ==
  ASSUME IInv, Placed, FundsInv, CancelsAsked, ReleasesUnswapped, [Next]_vars,
         NEW o \in OrderIds \ Cancelable, LockStage(o)
  PROVE  LockStage(o)'
<1>1. TypeOK
  BY DEF IInv
<1>2. CASE OrderServiceNext
  BY <1>1, <1>2, CreateStage, RequestsElsewhere, StageFrame
<1>3. CASE UNCHANGED ledgerVars /\ UNCHANGED orderServiceVars
  <2>1. EntriesSame(o) /\ create'[o] = create[o]
    BY <1>3 DEF EntriesSame, ledgerVars, orderServiceVars
  <2>2. QED
    BY <2>1, StageFrame
<1>4. CASE ExecutorNext /\ UNCHANGED orderServiceVars
  BY <1>4, WorkerStage
<1>5. QED
  BY <1>2, <1>3, <1>4 DEF Next, vars

\* Whatever fails, and whoever cancels other orders, an accepted order that nobody cancels
\* gives its lock back at most once: in its settlement, or given up unswapped for good.
THEOREM ExchangeAcceptedLock == Spec => []AcceptedLock
<1> DEFINE I == /\ Placed /\ FundsInv /\ CancelsAsked /\ ReleasesUnswapped
                /\ \A o \in OrderIds \ Cancelable : LockStage(o)
<1>1. Init => I
  <2> SUFFICES ASSUME Init PROVE I
    OBVIOUS
  <2>1. Placed
    BY InitPlaced
  <2>2. /\ \A w \in Workers : worker[w].pc = "idle"
        /\ \A c \in Cancelers : cancel[c].pc = "idle"
        /\ \A o \in OrderIds : /\ create[o] = "new" /\ orders[o].status = "absent"
                               /\ entries[o] = [t \in EntryTypes |-> 0]
    BY DEF Init, OrdersInit, LedgerInit, OrderServiceInit, ExecutorInit, Resting, Idle
  <2>3. FundsInv /\ CancelsAsked /\ ReleasesUnswapped
    BY <2>2 DEF FundsInv, CancelsAsked, ReleasesUnswapped, EntryTypes
  <2>4. \A o \in OrderIds : LockStage(o)
    BY <2>2 DEF LockStage, Unplaced, EntryTypes
  <2>5. QED
    BY <2>1, <2>3, <2>4
<1>2. IInv /\ I /\ [Next]_vars => I'
  <2> SUFFICES ASSUME IInv, I, [Next]_vars PROVE I'
    OBVIOUS
  <2>1. Placed' /\ FundsInv'
    BY StepPlaced, StepFunds
  <2>2. CancelsAsked' /\ ReleasesUnswapped'
    BY StepCancelsAsked, StepReleasesUnswapped DEF IInv
  <2>3. \A o \in OrderIds \ Cancelable : LockStage(o)'
    BY StepStage
  <2>4. QED
    BY <2>1, <2>2, <2>3
<1>3. I => AcceptedLock
  BY FreeHolders
     DEF AcceptedLock, LockStage, LockHeld, LockGivenUp, LockSettled
<1> HIDE DEF I
<1>4. QED
  BY <1>1, <1>2, <1>3, ExchangeInvariant, PTL DEF Spec

-----------------------------------------------------------------------------
(* The tick stream only restricts when the engines see which price: what is *)
(* proved of the exchange holds with the stream as well.                    *)

\* An engine's own record is all that EngineGoes changes of inHand.
LEMMA GoesType ==
  ASSUME FeedTypeOK, NEW e \in Engines, NEW state \in {NoTick} \cup Given,
         EngineGoes(e, state)
  PROVE  inHand' \in [Engines -> {NoTick} \cup Given]
BY DEF FeedTypeOK, EngineGoes

\* The tick an engine was given, or handles, carries one of the prices.
LEMMA InHandPrice ==
  ASSUME FeedTypeOK, NEW e \in Engines, inHand[e].phase \in {"given", "read"}
  PROVE  inHand[e] \in Given /\ inHand[e].price \in Prices
<1>1. inHand[e] \in {NoTick} \cup Given
  BY DEF FeedTypeOK
<1>2. NoTick.phase = "none"
  BY DEF NoTick
<1>3. inHand[e] \in Given
  BY <1>1, <1>2
<1>4. QED
  BY <1>3 DEF Given

\* The price process and the stream hold ticks, and nothing else.
LEMMA FeedTypes ==
  ASSUME FeedTypeOK, [FeedNext]_<<vars, feedVars>>
  PROVE  FeedTypeOK'
<1>0. MaxTicks \in Nat
  BY PriceFeedAssumption
<1>1. ASSUME NEW p \in Prices, SimulatorTick(p) PROVE FeedTypeOK'
  BY <1>0, <1>1 DEF FeedTypeOK, SimulatorTick
<1>2. ASSUME NEW e \in Engines, EngineConsume(e) PROVE FeedTypeOK'
  <2>1. Head(ticks) \in Prices /\ Tail(ticks) \in Seq(Prices)
    BY <1>2 DEF FeedTypeOK, EngineConsume
  <2>2. [phase |-> "given", price |-> Head(ticks)] \in Given
    BY <2>1 DEF Given
  <2>3. inHand' \in [Engines -> {NoTick} \cup Given]
    BY <1>2, <2>2, GoesType DEF EngineConsume
  <2>4. QED
    BY <1>2, <2>1, <2>3 DEF FeedTypeOK, EngineConsume
<1>3. ASSUME NEW e \in Engines, EngineRead(e) PROVE FeedTypeOK'
  <2>1. inHand[e] \in Given
    BY <1>3, InHandPrice DEF EngineRead
  <2>2. [inHand[e] EXCEPT !.phase = "read"] \in Given
    BY <2>1 DEF Given
  <2>3. inHand' \in [Engines -> {NoTick} \cup Given]
    BY <1>3, <2>2, GoesType DEF EngineRead
  <2>4. QED
    BY <1>3, <2>3 DEF FeedTypeOK, EngineRead
<1>4. ASSUME NEW e \in Engines, EngineAck(e) PROVE FeedTypeOK'
  <2>1. inHand' \in [Engines -> {NoTick} \cup Given]
    BY <1>4, GoesType DEF EngineAck
  <2>2. QED
    BY <1>4, <2>1 DEF FeedTypeOK, EngineAck
<1>5. ASSUME UNCHANGED feedVars PROVE FeedTypeOK'
  BY <1>5 DEF FeedTypeOK, feedVars
<1>6. QED
  BY <1>1, <1>2, <1>3, <1>4, <1>5 DEF FeedNext, EngineLoop, EngineHandle

\* Every step with the stream is a step of the exchange, or none of its business.
LEMMA FeedStep ==
  ASSUME FeedTypeOK, [FeedNext]_<<vars, feedVars>>
  PROVE  [Next]_vars
<1>1. ASSUME NEW p \in Prices, SimulatorTick(p) PROVE [Next]_vars
  BY <1>1 DEF SimulatorTick
<1>2. ASSUME NEW e \in Engines, EngineConsume(e) \/ EngineAck(e) PROVE [Next]_vars
  BY <1>2 DEF EngineConsume, EngineAck
<1>3. ASSUME NEW e \in Engines, EngineRead(e) PROVE [Next]_vars
  <2>1. inHand[e].price \in Prices
    BY <1>3, InHandPrice DEF EngineRead
  <2>2. TriggerEngineNext
    BY <1>3, <2>1 DEF EngineRead, TriggerEngineNext
  <2>3. QED
    BY <1>3, <2>2 DEF EngineRead, Next
<1>4. ASSUME NEW e \in Engines, EngineHandle(e) PROVE [Next]_vars
  <2>1. TriggerEngineNext
    BY <1>4 DEF EngineHandle, TriggerEngineNext
  <2>2. QED
    BY <1>4, <2>1 DEF EngineHandle, Next
<1>5. CASE OrderServiceNext /\ UNCHANGED <<triggerEngineVars, executorVars, feedVars>>
  BY <1>5 DEF Next
<1>6. CASE ExecutorNext /\ UNCHANGED <<orderServiceVars, feedVars>>
  BY <1>6 DEF Next
<1>7. CASE UNCHANGED <<vars, feedVars>>
  BY <1>7
<1>8. QED
  BY <1>1, <1>2, <1>3, <1>4, <1>5, <1>6, <1>7 DEF FeedNext, EngineLoop

\* The exchange with the stream of ticks implements the exchange that may see any
\* price at any time, for any prices and any number of ticks and engines.
THEOREM FeedImplementsExchange == FeedSpec => Spec
<1>1. FeedInit => Init /\ FeedTypeOK
  BY PriceFeedAssumption DEF FeedInit, FeedTypeOK
<1>2. FeedTypeOK /\ [FeedNext]_<<vars, feedVars>> => FeedTypeOK'
  BY FeedTypes
<1>3. FeedTypeOK /\ [FeedNext]_<<vars, feedVars>> => [Next]_vars
  BY FeedStep
<1>4. QED
  BY <1>1, <1>2, <1>3, PTL DEF FeedSpec, Spec

\* So no swap is sent for an order that is canceled or failed, and one for an order
\* that is filled, whatever ticks the engines are given and acknowledge.
THEOREM FeedSwapSafety == FeedSpec => []SwapSafety
BY FeedImplementsExchange, ExchangeSwapSafety, PTL
=============================================================================
