------------------------------ MODULE Exchange ------------------------------
(***************************************************************************)
(* The whole system: API handlers, trigger engines and executor workers    *)
(* over one database and one message stream.                               *)
(***************************************************************************)
EXTENDS OrderService, Executor, FiniteSetsExt

vars == <<orders, ledgerVars, orderServiceVars, triggerEngineVars, executorVars>>

Init ==
  /\ OrdersInit
  /\ LedgerInit
  /\ OrderServiceInit
  /\ TriggerEngineInit
  /\ ExecutorInit

\* The steps of one process leave the local state of the others alone.
Next ==
  \/ OrderServiceNext /\ UNCHANGED <<triggerEngineVars, executorVars>>
  \/ TriggerEngineNext /\ UNCHANGED <<ledgerVars, orderServiceVars, executorVars>>
  \/ ExecutorNext /\ UNCHANGED orderServiceVars

Spec == Init /\ [][Next]_vars

\* A goroutine that is not stopped goes on with what it has begun, and an idle
\* worker takes the next message.  No tick, no request and no fault is promised.
Fairness ==
  /\ \A e \in Engines :
       WF_vars(EngineStep(e) /\ UNCHANGED <<ledgerVars, orderServiceVars, executorVars>>)
  /\ \A w \in Workers : WF_vars(WorkerStep(w) /\ UNCHANGED orderServiceVars)

FairSpec == Spec /\ Fairness

-----------------------------------------------------------------------------

\* TypeOK: every process's state has its shape; no locked balance is negative.
TypeOK ==
  /\ OrdersTypeOK
  /\ LedgerTypeOK
  /\ OrderServiceTypeOK
  /\ TriggerEngineTypeOK
  /\ ExecutorTypeOK

\* Lifecycle: seen from outside, the orders live by OrderLifecycle, whatever races
\* between cancelers, engines, workers and crashes: statuses change only along its
\* edges, one swap at most is sent, never for an order that was canceled or has
\* failed, and nothing is filled without one.
Lifecycle == INSTANCE OrderLifecycle
               WITH status <- [o \in OrderIds |-> orders[o].status]

LifecycleSpec == Lifecycle!Spec

\* SwapSafety: no swap was sent for an order that is canceled or failed, and a filled
\* order had exactly one (executor/service.go:268-302, 343).
SwapSafety == Lifecycle!SwapSafety

\* A row read earlier is of an order that existed, is not ahead of the current row,
\* and if it has the current version, it has the current status.
Agrees(row, current) ==
  /\ row.status # "absent"
  /\ row.version <= current.version
  /\ row.version = current.version => row.status = current.status

\* VersionsAgree: every row that a canceler, an engine or a worker read earlier and
\* will still act upon agrees with the table; UpdateStatus, which compares versions
\* and no status, is safe only because of it (order_repository.go:206-223).
VersionsAgree ==
  /\ \A c \in Cancelers :
       cancel[c].pc # "idle" => Agrees(cancel[c].row, orders[cancel[c].order])
  /\ \A e \in Engines : \A s \in batch[e] : Agrees(s.row, orders[s.order])
  /\ \A w \in Workers :
       worker[w].pc = "claim" => Agrees(worker[w].row, orders[worker[w].order])

\* Between its claim of an order and its last status change.
Executing(w) == worker[w].pc \in {"swap", "confirm", "fill", "fail"}

\* ExclusiveExecution: a worker that has claimed an order has it to itself until its
\* last status change: the row is submitting at the version it will check, and no
\* other worker executes it (executor/service.go:176, 297, 343).
ExclusiveExecution ==
  \A w \in Workers :
    Executing(w) =>
      /\ orders[worker[w].order] = [status |-> "submitting",
                                    version |-> worker[w].row.version + 1]
      /\ \A x \in Workers :
           Executing(x) /\ worker[x].order = worker[w].order => x = w

\* What each process had checked of the row it read, and still relies on.
HeldStatuses ==
  /\ \A c \in Cancelers :
       cancel[c].pc # "idle" => cancel[c].row.status \in {"open", "triggered"}
  /\ \A e \in Engines : \A s \in batch[e] : s.row.status = "open"
  /\ \A w \in Workers : worker[w].pc = "claim" => worker[w].row.status = "triggered"

\* The swaps of an order against its status and against where its worker is.
SwapsMatch ==
  /\ \A o \in OrderIds :
       orders[o].status \notin {"submitting", "filled"} => swaps[o] = 0
  /\ \A w \in Workers :
       /\ worker[w].pc \in {"swap", "fail"} => swaps[worker[w].order] = 0
       /\ worker[w].pc \in {"confirm", "fill"} => swaps[worker[w].order] = 1

\* The inductive invariant behind VersionsAgree, ExclusiveExecution and Lifecycle.
IInv == TypeOK /\ VersionsAgree /\ HeldStatuses /\ ExclusiveExecution /\ SwapsMatch

\* What the ledger says is still locked for each order.
LocksHeld ==
  [o \in OrderIds |->
     LockAmount(o) * (entries[o]["lock_funds"] - entries[o]["release_funds"])]

\* LocksAccounted: what is locked on an account is what the lock entries of its
\* orders locked less what their release entries released.
LocksAccounted ==
  \A a \in Accounts :
    locked[a] = SumFunctionOnSet(LocksHeld, {o \in OrderIds : LockAccount(o) = a})

\* CanceledReleased: a canceled order's lock has been released, and an order that is
\* canceled or failed was never settled (order/service.go:192-200).
CanceledReleased ==
  \A o \in OrderIds :
    /\ orders[o].status = "canceled" => entries[o]["release_funds"] > 0
    /\ orders[o].status \in {"canceled", "failed"} => entries[o]["filled"] = 0

Active(o) == orders[o].status \in {"open", "triggered", "submitting"}

\* LockKept: an order's lock is released at most once, and not while the order is
\* active: "the system locks the funds until the order completes or is canceled"
\* (docs, POST /orders).  It needs a system nobody cancels orders in and whose
\* statements do not fail: order/service.go:192 and executor/service.go:297-316
\* release without owning the status.
LockKept ==
  \A o \in OrderIds :
    /\ entries[o]["release_funds"] <= entries[o]["lock_funds"]
    /\ Active(o) => /\ entries[o]["lock_funds"] = 1
                    /\ entries[o]["release_funds"] = 0

\* SubmittingLocked: an order that a worker has claimed still has the lock that its fill is
\* to be paid from: "the system locks the funds until the order completes or is canceled"
\* (docs, POST /orders).  A cancel that has released the lock and then loses the race for
\* the status breaks it (order/service.go:192-200).
SubmittingLocked ==
  \A o \in OrderIds :
    orders[o].status = "submitting"
      => entries[o]["lock_funds"] > entries[o]["release_funds"]

\* LockHasOrder: once its create request is over, a lock that was not released
\* belongs to an order that exists (order/service.go:137-152).
LockHasOrder ==
  \A o \in OrderIds :
    /\ create[o] \notin {"locked", "undo"}
    /\ entries[o]["lock_funds"] > entries[o]["release_funds"]
    => orders[o].status # "absent"

Settling(o) == \E w \in Workers : worker[w].pc = "settle" /\ worker[w].order = o

\* FilledSettled: a filled order whose worker is done with it has been paid for in
\* the wallets: its fill entries are in the ledger (executor/service.go:343-377).
FilledSettled ==
  \A o \in OrderIds :
    orders[o].status = "filled" /\ ~Settling(o) => entries[o]["filled"] > 0

\* From where an order is on its way to be executed: engines that are about to send its
\* message, messages that nobody has taken, and workers that took one.
Holders(o) ==
  {<<"engine", e>> : e \in {f \in Engines : o \in toPublish[f]}}
    \cup {<<"message", i>> : i \in {j \in DOMAIN stream : stream[j] = o}}
    \cup {<<"worker", w>> : w \in {x \in Workers : worker[x].pc # "idle" /\ worker[x].order = o}}

\* OneMessage: two engines that read the same order never both send it, and nothing
\* sends it again: it is held in one place at most, and in none before it is triggered
\* (trigger/engine.go:188-232, queue/redis.go:45-61, :91-117).
OneMessage ==
  \A o \in OrderIds :
    /\ \A x, y \in Holders(o) : x = y
    /\ Holders(o) # {} => orders[o].status \notin {"absent", "open"}

\* Lost: on its way to be executed, and with nobody.
Lost(o) == orders[o].status \in {"triggered", "submitting"} /\ Holders(o) = {}

\* LostStays: an order that a failed XADD, a failed statement or a crash has lost between
\* the processes is never executed late, at a price of another day, by a process that held
\* an old row of it: nothing moves it any more but a cancel of a triggered one
\* (trigger/engine.go:201-220, executor/service.go:119-128, 176).
LostStays ==
  [][\A o \in OrderIds :
       Lost(o) => \/ Lost(o)' /\ orders'[o] = orders[o]
                  \/ orders[o].status = "triggered" /\ orders'[o].status = "canceled"]_vars

\* AcceptedLock: whatever fails, an accepted order that nobody cancels gives its lock back
\* at most once, and only in its settlement, or when it was given up: never swapped, and
\* with no process that could still swap it, although the release does not look at whether
\* the status was written (order/service.go:137-152, executor/service.go:297-316, :377).
AcceptedLock ==
  \A o \in OrderIds \ Cancelable :
    create[o] = "accepted" =>
      /\ entries[o]["lock_funds"] = 1
      /\ entries[o]["release_funds"] \in {0, 1}
      /\ entries[o]["filled"] > 0 => entries[o]["release_funds"] = 1
      /\ entries[o]["release_funds"] = 1 /\ entries[o]["filled"] = 0 =>
           /\ orders[o].status \in {"submitting", "failed"}
           /\ Holders(o) = {}
           /\ swaps[o] = 0

\* InFlightHeld: where only quotes fail, no order is lost between the processes: a triggered
\* one is about to be sent, in the stream or with a worker that has yet to claim it; a
\* submitting one is with the worker that claimed it (executor/service.go:149-176).
InFlightHeld ==
  \A o \in OrderIds :
    /\ orders[o].status = "triggered" =>
         \/ \E e \in Engines : o \in toPublish[e]
         \/ \E i \in DOMAIN stream : stream[i] = o
         \/ \E w \in Workers : worker[w].pc \in {"load", "claim"} /\ worker[w].order = o
    /\ orders[o].status = "submitting" =>
         \E w \in Workers : Executing(w) /\ worker[w].order = o

\* TriggeredResolved: a triggered order does not stay in flight for ever; it ends
\* filled, failed or canceled (trigger/engine.go:188-232, executor/service.go:149-390).
TriggeredResolved ==
  \A o \in OrderIds :
    orders[o].status = "triggered"
      ~> orders[o].status \in {"filled", "failed", "canceled"}
=============================================================================
