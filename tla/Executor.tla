------------------------------ MODULE Executor ------------------------------
(***************************************************************************)
(* internal/executor/service.go: the executor goroutines of the worker     *)
(* processes.  Each takes one order.execute message at a time and carries  *)
(* it through to the end or to the first error; either way the message is  *)
(* acknowledged and never delivered again.                                 *)
(***************************************************************************)
EXTENDS TriggerEngine

CONSTANTS Workers,       \* the executor goroutines
          QuoteOut       \* the amounts a quote may promise in return (Jupiter)

ASSUME ExecutorAssumption == QuoteOut \subseteq Nat

VARIABLES worker,        \* each worker: where it is, and the order row it read
          swaps          \* per order: the swap transactions submitted to Solana

executorVars == <<worker, swaps>>

Resting == [pc |-> "idle"]

\* A message was delivered ("load"); then ExecuteOrder, step by step.
ExecutePcs == {"claim", "swap", "confirm", "fill", "settle", "fail", "release"}

WorkerState == {Resting} \cup [pc : {"load"}, order : OrderIds]
                         \cup [pc : ExecutePcs, order : OrderIds, row : Row]

ExecutorTypeOK ==
  /\ worker \in [Workers -> WorkerState]
  /\ swaps \in [OrderIds -> Nat]

ExecutorInit ==
  /\ worker = [w \in Workers |-> Resting]
  /\ swaps = [o \in OrderIds |-> 0]

WorkerGoes(w, pc) == worker' = [worker EXCEPT ![w].pc = pc]

\* processMessage returns, with or without an error; the message is acknowledged.
WorkerRests(w) == worker' = [worker EXCEPT ![w] = Resting]

-----------------------------------------------------------------------------

\* RedisQueue.Consume: XREADGROUP with ">", so a message goes to one worker, once.
Consume(o) ==
  /\ stream # <<>>
  /\ o = Head(stream)
  /\ stream' = Tail(stream)

WorkerConsume(w) ==
  /\ worker[w].pc = "idle"
  /\ \E o \in OrderIds :
       /\ Consume(o)
       /\ worker' = [worker EXCEPT ![w] = [pc |-> "load", order |-> o]]
  /\ UNCHANGED <<orders, ledgerVars, swaps, batch, toPublish>>

\* GetByID and the status check.
WorkerLoad(w) ==
  LET o == worker[w].order IN
  /\ worker[w].pc = "load"
  /\ \/ /\ orders[o].status = "triggered"
        /\ worker' = [worker EXCEPT ![w] = [pc |-> "claim", order |-> o, row |-> orders[o]]]
     \/ /\ orders[o].status # "triggered" \/ "db" \in Faults
        /\ WorkerRests(w)
  /\ UNCHANGED <<orders, ledgerVars, triggerEngineVars, swaps>>

\* UpdateStatus to submitting, on the version just read.
WorkerClaim(w) ==
  LET o == worker[w].order  v == worker[w].row.version IN
  /\ worker[w].pc = "claim"
  /\ \/ /\ UpdateStatus(o, "submitting", v)
        /\ WorkerGoes(w, "swap")
     \/ /\ UpdateFails(o, v)
        /\ WorkerRests(w)
        /\ UNCHANGED orders
  /\ UNCHANGED <<ledgerVars, triggerEngineVars, swaps>>

\* Mutant: the failed quote gives the lock back without recording the failure.
WorkerQuoteFailsSilently(w) ==
  /\ "quote" \in Faults
  /\ worker[w].pc = "swap"
  /\ WorkerGoes(w, "release")
  /\ UNCHANGED <<orders, ledgerVars, triggerEngineVars, swaps>>

\* The quote or the swap transaction cannot be had, or the quote is refused.
WorkerQuoteFails(w) ==
  /\ "quote" \in Faults
  /\ worker[w].pc = "swap"
  /\ WorkerGoes(w, "fail")
  /\ UNCHANGED <<orders, ledgerVars, triggerEngineVars, swaps>>

\* SubmitTransaction: from here on the swap is on chain, whatever happens below.
WorkerSubmit(w) ==
  /\ worker[w].pc = "swap"
  /\ swaps' = [swaps EXCEPT ![worker[w].order] = @ + 1]
  /\ WorkerGoes(w, "confirm")
  /\ UNCHANGED <<orders, ledgerVars, triggerEngineVars>>

\* Mutant: a swap that is not confirmed in time counts as failed.
WorkerConfirmationFails(w) ==
  /\ worker[w].pc = "confirm"
  /\ WorkerGoes(w, "fail")
  /\ UNCHANGED <<orders, ledgerVars, triggerEngineVars, swaps>>

\* WaitForConfirmation returns true; its only error is a cancelled context, after
\* which no statement of this worker succeeds: that is WorkerCrash.
WorkerConfirmed(w) ==
  /\ worker[w].pc = "confirm"
  /\ WorkerGoes(w, "fill")
  /\ UNCHANGED <<orders, ledgerVars, triggerEngineVars, swaps>>

\* Mutant: the filled order is not settled.
WorkerFillOnly(w) ==
  LET o == worker[w].order  v == worker[w].row.version + 1 IN
  /\ worker[w].pc = "fill"
  /\ \/ UpdateStatus(o, "filled", v)
     \/ UpdateFails(o, v) /\ UNCHANGED orders
  /\ WorkerRests(w)
  /\ UNCHANGED <<ledgerVars, triggerEngineVars, swaps>>

\* handleExecutionSuccess: UpdateStatus to filled, on the version read plus one.
WorkerFill(w) ==
  LET o == worker[w].order  v == worker[w].row.version + 1 IN
  /\ worker[w].pc = "fill"
  /\ \/ /\ UpdateStatus(o, "filled", v)
        /\ WorkerGoes(w, "settle")
     \/ /\ UpdateFails(o, v)
        /\ WorkerRests(w)
        /\ UNCHANGED orders
  /\ UNCHANGED <<ledgerVars, triggerEngineVars, swaps>>

\* handleExecutionSuccess: ProcessFillWithLockRelease.  The quote's InAmount is the
\* amount asked for, the order's lock; a failure is returned and logged.
WorkerSettle(w) ==
  LET o == worker[w].order IN
  /\ worker[w].pc = "settle"
  /\ \/ \E out \in QuoteOut :
          ProcessFillWithLockRelease(LockAccount(o), LockAccount(o), BuyAccount(o),
                                     LockAmount(o), LockAmount(o), out, o)
     \/ /\ \/ ~Settleable(LockAccount(o), LockAccount(o), BuyAccount(o),
                          LockAmount(o), LockAmount(o))
           \/ "db" \in Faults
        /\ UNCHANGED ledgerVars
  /\ WorkerRests(w)
  /\ UNCHANGED <<orders, triggerEngineVars, swaps>>

\* handleExecutionError: UpdateStatusWithError to failed; its failure is only logged.
WorkerFail(w) ==
  LET o == worker[w].order  v == worker[w].row.version + 1 IN
  /\ worker[w].pc = "fail"
  /\ \/ UpdateStatus(o, "failed", v)
     \/ UpdateFails(o, v) /\ UNCHANGED orders
  /\ WorkerGoes(w, "release")
  /\ UNCHANGED <<ledgerVars, triggerEngineVars, swaps>>

\* handleExecutionError: ReleaseFunds, whether or not the status was written.
WorkerRelease(w) ==
  LET o == worker[w].order IN
  /\ worker[w].pc = "release"
  /\ \/ ReleaseFunds(LockAccount(o), LockAmount(o), o)
     \/ /\ ~Releasable(LockAccount(o), LockAmount(o)) \/ "db" \in Faults
        /\ UNCHANGED ledgerVars
  /\ WorkerRests(w)
  /\ UNCHANGED <<orders, triggerEngineVars, swaps>>

\* The process stops, or its context is cancelled.  The message stays pending in
\* the consumer group, which nobody reads again; RecoverPendingOrders does nothing.
WorkerCrash(w) ==
  /\ "crash" \in Faults
  /\ worker[w].pc # "idle"
  /\ WorkerRests(w)
  /\ UNCHANGED <<orders, ledgerVars, triggerEngineVars, swaps>>

-----------------------------------------------------------------------------

\* What a running worker does; none of these waits for anything but a message.
WorkerStep(w) ==
  \/ WorkerConsume(w) \/ WorkerLoad(w) \/ WorkerClaim(w)
  \/ WorkerQuoteFails(w) \/ WorkerSubmit(w) \/ WorkerConfirmed(w)
  \/ WorkerFill(w) \/ WorkerSettle(w)
  \/ WorkerFail(w) \/ WorkerRelease(w)

ExecutorNext == \E w \in Workers : WorkerStep(w) \/ WorkerCrash(w)
=============================================================================
