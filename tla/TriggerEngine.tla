--------------------------- MODULE TriggerEngine ---------------------------
(***************************************************************************)
(* internal/trigger/engine.go: a goroutine of every worker process.  For   *)
(* each price tick it reads a batch of open orders, and for each one the   *)
(* tick satisfies it runs the compare-and-swap to triggered and appends an *)
(* order.execute message.                                                  *)
(***************************************************************************)
EXTENDS Orders, Sequences

CONSTANTS Engines,       \* the engines: one per worker process deployed
          Prices,        \* the mid prices a tick may carry
          BatchSize      \* TRIGGER_BATCH_SIZE

ASSUME TriggerEngineAssumption ==
  /\ Prices \subseteq Nat
  /\ BatchSize \in Nat

VARIABLES batch,         \* each engine: the rows it read and has not yet looked at
          toPublish,     \* each engine: the order it has triggered and not yet sent
          stream         \* order.execute: the messages not yet delivered

triggerEngineVars == <<batch, toPublish, stream>>

Snapshot == [order : OrderIds, row : Row]

TriggerEngineTypeOK ==
  /\ batch \in [Engines -> SUBSET Snapshot]
  /\ toPublish \in [Engines -> SUBSET OrderIds]
  /\ stream \in Seq(OrderIds)

TriggerEngineInit ==
  /\ batch = [e \in Engines |-> {}]
  /\ toPublish = [e \in Engines |-> {}]
  /\ stream = <<>>

ShouldTrigger(o, p) ==
  IF Req[o].op = "gte" THEN p >= Req[o].price ELSE p <= Req[o].price

\* A tick arrives; the batch is the oldest open orders the tick satisfies.  The
\* code tests the price as it walks the batch, on the rows it read here.
EngineTick(e, p) ==
  /\ batch[e] = {} /\ toPublish[e] = {}
  /\ batch' = [batch EXCEPT ![e] =
                 {[order |-> o, row |-> orders[o]] :
                    o \in {q \in OpenOrdersForTrigger(BatchSize) : ShouldTrigger(q, p)}}]
  /\ UNCHANGED <<orders, toPublish, stream>>

\* triggerOrder's compare-and-swap for the oldest order left in the batch.  A
\* conflict, like any other failure of the statement, is logged and skipped.
EngineTrigger(e) ==
  /\ toPublish[e] = {}
  /\ \E s \in batch[e] :
       /\ \A r \in batch[e] : s.order <= r.order
       /\ batch' = [batch EXCEPT ![e] = @ \ {s}]
       /\ \/ /\ TriggerOrder(s.order, s.row.version)
             /\ toPublish' = [toPublish EXCEPT ![e] = {s.order}]
          \/ /\ orders[s.order].status # "open" \/ UpdateFails(s.order, s.row.version)
             /\ UNCHANGED <<orders, toPublish>>
  /\ UNCHANGED stream

\* Mutant: the message is not sent.
EngineForget(e) ==
  /\ toPublish[e] # {}
  /\ toPublish' = [toPublish EXCEPT ![e] = {}]
  /\ UNCHANGED <<orders, batch, stream>>

\* RedisQueue.Publish: XADD order.execute, which may fail.
Publish(o) ==
  \/ stream' = Append(stream, o)
  \/ "queue" \in Faults /\ UNCHANGED stream

\* When the message is not sent the order stays triggered all the same.
EnginePublish(e) ==
  /\ \E o \in toPublish[e] : Publish(o)
  /\ toPublish' = [toPublish EXCEPT ![e] = {}]
  /\ UNCHANGED <<orders, batch>>

\* The process stops: the batch, and a message not yet sent, are lost.
EngineCrash(e) ==
  /\ "crash" \in Faults
  /\ batch[e] # {} \/ toPublish[e] # {}
  /\ batch' = [batch EXCEPT ![e] = {}]
  /\ toPublish' = [toPublish EXCEPT ![e] = {}]
  /\ UNCHANGED <<orders, stream>>

-----------------------------------------------------------------------------

EngineStep(e) == EngineTrigger(e) \/ EnginePublish(e)

TriggerEngineNext ==
  \E e \in Engines :
    \/ \E p \in Prices : EngineTick(e, p)
    \/ EngineStep(e)
    \/ EngineCrash(e)
=============================================================================
