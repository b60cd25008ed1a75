# A TLA+ model of the Solana stop-market exchange

This directory models the Go program of this repository: a custodial exchange
in which users keep balances in wallets, place orders that are triggered by a
price, and have a worker swap the funds on chain. TLC checks the models on
small instances; TLAPS proves the most important results for every instance.

    tlc -config Exchange.cfg MCExchange.tla     # model-check one run
    tlapm Exchange_proofs.tla                   # check one module of proofs

## 1. Inventory of the system

Three processes share one PostgreSQL database and one Redis server.

| process | goroutines | state it owns |
|---|---|---|
| `cmd/api` | one per HTTP request | none that outlives a request |
| `cmd/worker` | trigger engine, executor workers | the batch a tick selected; the order a worker has in hand |
| `cmd/price` | simulator, hub, and handler, reader and writer of each WebSocket client | tick counter, channels, map of clients |

The table lists the components, their state and what makes each correct.

| component (source) | state | operations | interacts through | correct when |
|---|---|---|---|---|
| ledger service (`internal/ledger/service.go`) | `wallets`, `ledger_entries` | lock, release, settle, compensate | called by order service and executor; row locks | books match the balances, nothing is overdrawn, each lock is released once |
| wallet service (`internal/wallet/service.go`) | the same tables | create wallet, deposit, withdraw | row locks, `UNIQUE(user_id, asset)` | as above; a transaction is all or nothing |
| reconciliation (`internal/ledger/reconcile.go`) | the same tables | compare, correct | row locks | it reports a difference only where there is one |
| transactions (`internal/repository/db.go`) | connection pool, snapshots | begin, commit, roll back | every service | no deadlock, no check on a stale value |
| order service (`internal/order/service.go`) | `orders` | create, cancel | ledger service, compare-and-swap on `version` | an order holds its lock exactly while it is active |
| order repository | `orders` | insert, compare-and-swap | all processes | a status changes only along the lifecycle |
| trigger engine (`internal/trigger/engine.go`) | batch of open orders | tick, trigger, publish | `orders`, stream `order.execute` | each order is triggered, and published, at most once |
| executor (`internal/executor/service.go`) | order in hand | consume, claim, swap, fill or fail, settle or release | stream, `orders`, ledger, Jupiter, Solana | one swap per order, none for an order that was canceled; what is filled is settled; the swap takes what the ledger debits |
| message queue (`internal/queue/redis.go`) | streams `price.ticks`, `order.execute` | publish, consume, acknowledge | simulator, engine, executor | a tick goes to one engine, a message to one worker |
| price hub (`internal/price/hub.go`) | channels, map of clients | register, unregister, broadcast, pumps | channels only | no send on a closed channel, no blocked hub, no gap in a client's stream |
| simulator (`internal/price/simulator.go`) | tick counter | tick, stop | calls the hub, publishes to `price.ticks` | never blocked by a client; a tick that satisfies an order triggers it |
| idempotency middleware (`internal/api/middleware/idempotency.go`) | `idempotency_keys` | look up, save | wraps the POST handlers | a replay is the answer to the same request; a patient client is served once |
| user service (`internal/user/service.go`) | `users` | create, rename, soft-delete; looked up by every other service | `UNIQUE(username)`; a look-up outside the transaction that follows | a name belongs to one user for ever; what a deleted user had is touched by no request but those already under way |
| router, handlers, authentication, configuration, logging | none | decode, call, encode | HTTP | not modelled: no state |

**What is hard.** Most of it is *interleaving*: every service method is a
sequence of separate statements or transactions, and a cancel, a second
engine, a second worker, a retry or a crash may come between any two. The
rows are protected by two mechanisms only: row locks inside one transaction
(wallets), and a compare-and-swap on `orders.version` that does not look at the
status. Then *partial failure*: lock and insert, status and release, status
and settlement are each two transactions. *Liveness* rests on a stream whose
pending messages nobody reads. In the price process the hub, a reader and a
writer share one channel per client that exactly one of them may close.
`PROJECT.json` lists each hazard with its line and the properties that would
catch it.

## 2. The modules

    Ledger ─┬─ WalletLedger ─┬─ MCWalletLedger       one action per transaction
            ├─ UserService ──┴─ UserWallets ── MCUserWallets
            ├─ WalletTx ────── MCWalletTx            the same, per statement
            └─ Orders ─┬─ OrderService ──┐
                       └─ TriggerEngine ─┤
                             └─ Executor ┴─ Exchange ─┬─ MCExchange
                                                      └─ PriceFeed ── MCPriceFeed
    OrderLifecycle  (abstract)  <── refined by Exchange
    OrderAmounts ── MCOrderAmounts
    Idempotency ── MCIdempotency
    PriceHub
    Sums_proofs        sums over finite sets
    Ledger_proofs      the operations of Ledger
    UserWallets_proofs           WalletLedger and UserWallets
    Exchange_proofs              OrderLifecycle, Exchange and PriceFeed
    WalletTx_proofs, OrderAmounts_proofs, Idempotency_proofs, PriceHub_proofs

* **Ledger** has the two wallet tables as functions of accounts: `available`,
  `locked`, the sums of the ledger entries' deltas, and how many entries of
  each kind refer to an order. Each method of the ledger, reconciliation and
  wallet services is one action. That is justified by **WalletTx**, see below.
  `ProcessFill` is left out: no program calls it, only a test helper.
* **WalletLedger** lets those transactions run in any order, with any amount.
* **UserService** has the rows of `users` with their names and which of them are
  soft-deleted, and for each handler the request it has looked a user up for and
  not yet carried out (`requests`): the look-up and what follows are two steps.
  `UpdateUser` is no step, see section 6.
* **UserWallets** puts that look-up in front of the wallets: a wallet operation
  or the lock of an order runs only for a handler that has found the user
  (`Serve`), while releases, settlements and corrections look nobody up
  (`OrderFlow`).
* **Orders** is the `orders` table: a status and a version per order, and the
  statements of the repository. `UpdateStatus` is `WHERE version = v`.
* **OrderService** cuts `CreateOrder` at its statements (check, lock, insert,
  undo) and `CancelOrder` at its own (read, release, update). Between two
  steps the row a request read may become stale. `Cancelable` are the orders
  whose users may ask for a cancel: all or some of them, so that what holds of
  orders nobody cancels can be said beside those that are.
* **TriggerEngine**: `EngineTick` reads a batch, `EngineTrigger` tries the
  compare-and-swap for one order of it, `EnginePublish` sends the message.
* **Executor**: `ExecuteOrder` from delivery to its last transaction, with
  its error path. `swaps` counts the transactions that reached the chain.
* **Exchange** composes the three over the shared tables and the stream. The
  environment's failures are the constant `Faults`: `"db"` (a statement fails
  and rolls back), `"queue"` (XADD fails), `"quote"` (Jupiter fails or its
  quote is refused), `"crash"` (a process stops between two steps).
* **PriceFeed** adds the stream `price.ticks` to **Exchange**: the simulator sends
  ticks, the consumer group gives each to one engine, and the engine handles what
  it was given to the end before it takes the next one. In **Exchange** alone an
  engine may see any price at any time, which is enough for safety; here a tick is
  an event that can be used up, as liveness needs.
* **OrderAmounts** follows the decimals of an order: the lock of the request, the
  row its columns round, the amount of the swap in base units, the mints it is
  asked for, the output of the quote, which the mock does not cut to whole base units
  (`Promised`), the entries of the settlement. Its transactions are atomic; what
  may happen between them is the subject of **Exchange**.
* **OrderLifecycle** is the abstract specification: what an observer of the
  status and of the chain sees. A swap is sent once, while the order is
  submitting; filled needs it, failed excludes it. `Exchange` implements it
  with `status` mapped to the status column of the rows.
* **WalletTx** runs transactions statement by statement as PostgreSQL does
  under REPEATABLE READ: a connection of the pool, a snapshot when the first
  statement begins, row locks kept to the end, a serialization failure when
  the row changed after the snapshot, UNIQUE on insert, the request timeout. A
  deposit that finds no wallet asks the pool for a second connection while it holds
  its own.
  Its property `AtomicOperations` says that each commit is one action of
  **Ledger** on the state it commits in.
* **Idempotency** is the middleware: look-up, handler, save, with any number
  of requests under way, failures, crashes and expiry.
* **PriceHub** has the hub's goroutine, the handler, reader and writer of each
  client, the three kinds of buffered channels, the simulator and the shutdown.

State and actions carry the names of the code where it has names; `PROJECT.json`
maps every definition to its lines. Operators called *Mutant* in a comment are
deliberately wrong variants: replacing the definition they are named after must
break the property they are listed with, which shows that the property can fail.

## 3. The runs

| run | question | bounds | result |
|---|---|---|---|
| wallet_ledger | do books and balances stay in step, is nothing overdrawn, is a name given once, is a deleted user left alone? | two user ids of which one has wallets, two names, two handlers, two assets, one order id, amounts 1 and 2, balances to 2, two entries of a kind per order; a look-up may fail | holds |
| wallet_tx | is a transaction one step, and does nobody wait in a circle, for rows or for connections? | nine transactions of one user over three assets: two locks, two opposite fills, release, withdrawal, two deposits, creation; two connections per process | holds |
| exchange | do versions agree, is execution exclusive, do the orders live by the lifecycle, are locks accounted for, is each order sent once, does what a fault loses stay lost, is an accepted order's lock given back once? | two sell orders of which the first may be canceled, two engines, two workers, one canceler, every fault | holds |
| no_cancel | does an active order keep its lock, has every lock an order, is a filled order settled, no order lost between the processes, a triggered one resolved, and an open one triggered by its tick? | a sell and a buy, two engines, two workers, three ticks of two prices, batches of one order, refused quotes; nobody cancels, no failing statement, no lost message, no crash | holds under fairness |
| order_amounts | what do rounding columns and whole base units do to balances, locks and swaps? | three orders of one user out of eight requests; columns of quarters, requests of eighths, SOL finer and USDC coarser than a column | holds |
| idempotency | is a replay faithful, is a patient client served once, is nothing carried out after a save? | seven requests, two keys; one key carries four equal requests and one other; failures and crashes | holds |
| price_hub | is the use of channels safe, do dead clients leave, are messages delivered? | two clients, capacities 1, three ticks | holds under fairness |
| cancel_race | an order that a worker has claimed still has its lock (design document, line 670: until it completes or is canceled) | as exchange with one engine, no faults, both orders may be canceled | **violated** |
| crashed_create | lock and insert are atomic (`order/service.go:137`, design line 351) | crash | **violated** |
| swap_mints | a buy pays USDC and receives SOL, a sell the reverse (`executor/service.go:209`, `:213`) | one order of order_amounts | **violated** |
| recovery | a restarted worker re-queues what was in flight (design line 895) | crash, fairness | **violated** |
| reconcile | a discrepancy means lost money (design line 1506) | one user, two assets, amounts 1 and 2, accounts start empty | **violated** |

Deadlock is checked in wallet_ledger and reconcile, which never end. The other systems
may legitimately stop: all orders finished, all requests answered, all clients
gone.

**Why the bounds are enough for the questions.** Two orders of one user are the
smallest instance in which a lock of one order can be spent by another (they
share an account), and two engines and two workers the smallest in which the
same order is triggered or delivered twice. One canceler still produces every
order of a cancel and an execution, as the canceler starts again; in `exchange`
it cancels one order repeatedly, which is how the same lock is released twice, at
the expense of the other order, which nobody cancels (`Cancelable`) and of which
`AcceptedLock` speaks.
Amounts above one are needed only where amounts of different sizes meet
(`wallet_ledger`, and the buy of `no_cancel`, which locks size times price).
In `wallet_ledger` two handlers are what it takes for two creations, two deletions, or
a deletion and a deposit, to pass their look-ups together; the second id has no
wallet (`Traded`), as wallets of different users share nothing. In `no_cancel` a
batch of one order is the smallest that the older order can fill, and three ticks
let the first be used up on it, the second reach the other, and a third come in
between; more ticks repeat this.
In `price_hub` capacity 1 makes every channel full after one message, so each
default case of a `select` is taken; three ticks are one more than can be
under way in the two channels before a client's. In `order_amounts` a column unit
is a quarter instead of 10^-8 of a token, which keeps what matters: SOL has more
base units than a column can tell apart, USDC fewer; among the requests are
locks that are whole units, half units, less and more than half, and one that is
no whole number of base units. `idempotency` has four equal requests of one key, so
that two may be carried out and two answered from the table. `WalletTx` bounds nothing but
the set of transactions: each runs once, some only after another has ended
(`After`: one client works through a list). Two deposits that insert a wallet can
take both connections of the pool. The bounds `MaxBalance`, `MaxEntries`
(**WalletLedger**), `MaxTicks` (**PriceHub**, **PriceFeed**) stop counters that the code
does not bound; they are guards of `Next`, not of the operations. Symmetry is
used in `idempotency`, between requests of equal key and content, and in `exchange`,
between engines and between workers; both runs check invariants and action properties
only, and none names a particular one of them. The proofs of section 4 do not depend on any of these values except
that `WalletLedger`'s theorems are about its `Next`, guards included, for every
value of the two bounds.

**Fairness.** `Exchange!Fairness` says that a goroutine goes on with what it has
begun and that an idle worker takes the next message: `StartWorker` and the
engine's loop wait for nothing else. It promises no tick, no request, no cancel
and no success of a statement. `PriceFeed!FeedFairness` adds that an engine whose
loop waits for the stream takes the tick that is there (`Engine.run`
blocks on nothing else); it promises no tick. `PriceHub!Fairness` says that Go's `select` takes a
case that stays ready sooner or later, that pumps run, and that a read of a
connection that was closed fails; it promises no tick, no connection, no write
error, and not that the hub ever returns.

## 4. What is proved

Every safety invariant and every action property that a passing run checks, and the
refinement, is also a theorem; section 5 names the four liveness properties that are not.
Each holds for every set of users, assets, orders, transactions, clients, engines, workers
and cancelers, every subset of faults, every batch and pool size, capacity of a channel,
scale of a column and base unit of an asset, under the named assumptions of the modules
(each request is one `ValidateOrderRequest` accepts; base and quote differ; the two
accounts of a fill are of one user; opening balances belong to rows that exist). What a
theorem assumes besides stands in its ASSUME: the properties that add up over orders need
finitely many of them, `WalletTxNoCircularWait` finitely many transactions.

*Sums.* What is locked on an account is a sum over its orders, so what a sum does when one
term changes is needed. The library's induction theorems cannot be used (they take a
predicate as a parameter), but that the subsets of a finite set are well-founded is a fact
about *sets*: `SmallestSubset` says that a non-empty set of subsets of a finite set has a
minimal member. `Sums_proofs` gets from it that a sum exists, loses the term that is removed
(`SumRemove`), changes by what one term changes (`SumChange`), and is at least each of its
terms when none is negative (`SumBounds`). `WalletTx_proofs` finds a row of highest rank in
the same way (`Highest`).

*Ledger.* `Ledger_proofs` has one lemma per operation for its types and one for
its effect on the books. `UserWallets_proofs` uses them for
`WalletLedgerTypes` (a locked balance is never negative although no CHECK
constraint says so), `WalletLedgerBooks` (`BooksMatch` is inductive together
with the types) and `WalletLedgerNoOverdraft`, an action property: no call of a
user or of the order flow takes an available balance below zero, or further below
where a manual correction left it there. `ReconcileVerdict` follows from the books: the
discrepancy reported of an account is its opening balance plus what is locked, always,
so the correction offered for it cannot remove it. The same lemmas give the books of the two
systems that call the ledger: `ExchangeBooks`, with every fault, and `WalletTxBooks`.
`ExchangeSolvent` adds that in the exchange no balance is ever negative.

*Users.* `UserWallets_proofs` shows besides that the wallets behind the user service implement
`WalletLedger` (`UserWalletsLedger`: what a served request does is one of its calls), so
the theorems above hold of them too. `NameIsSpent` is inductive given the types of the
users table. `UserWalletsDeletedFrozen` rests on three lemmas: a user who is gone stays
gone, since nobody is looked up who is deleted (`GoneStays`); no handler serves a user
who is gone (`GoneUnserved`); an operation moves one account of its user only
(`OperationElsewhere`).

*Transactions.* `WalletTxInvariant` says of every transaction under way that the rows it
holds and those it has yet to lock are the two parts of its order of locks
(`LocksInOrder`), that what it read of a row that it holds is what the row contains
(`HeldRows`), and that only creations and deposits insert a row (`InsertsKnown`). `HeldRows`
is inductive since a lock reads the row as it is or is refused (`LockEffect`), and a row
changes only at the commit of whoever holds it (`OperationEffect`). So a commit that was
checked against what was *read* is the operation of **Ledger** on what *is*
(`CommitIsOperation`): this is `WalletTxAtomic`, and why **Ledger** may have one action per
method. That no transactions wait in a circle: of the rows that those of a circle wait for,
one has the highest rank; whoever holds it waits for no row, as that would be a higher one
(`NobodyWaitsForRow`). So all of them are deposits that wait for the pool, and they have all
of its connections (`OnlyDepositsCircle`, from the inductive `PoolLimit`). The ranks order
the rows of one user, which is enough: both rows of a fill are of one user.

*Decimals.* `NearestFacts` states what rounding to the nearest multiple does, and
`StoredCredit` and `StoredDebit` what it does to a balance to which an unrounded amount is
added. From them come `OrderAmountsSwapWithinLock` (`AskedWithin`: whole base units below
the lock, by less than one) and `OrderAmountsBooksFollow`: the difference of a balance and
its entries is never negative and at most one column unit for each debit made (`BooksInv`,
`DebitsMade`), and an order makes two at most. `OrderAmountsExactLocks` is about requests that columns can hold
(`ExactInv`): there a lock is a multiple of a column unit, nothing is rounded, and the sum of
what the orders under way hold (`Held`) changes as the locked balance does (`SumChange`).

*Price hub.* `PriceHubChannelOpen` is inductive once it is known that a client which has not
been registered yet has an open and empty channel (`NotYetRegistered`): whoever closes a
channel takes its client out of the map. `PriceHubDrainReady` holds since nobody but a
client's writer receives from its channel (`OnlyWriterReceives`) and a closed channel keeps
what is buffered. For `PriceHubNoGaps`, what the client took followed by what waits for it is
a segment of what was broadcast, and ends at the last broadcast while it is registered: a
send that finds the channel full ends the segment for good instead of leaving a hole
(`BroadcastSegment`, `SegmentGrows`, `SegmentStays`). These are theorems of `Spec`, so of
`FairSpec` too.

*Idempotency.* In `Idempotency_proofs`, `RowsSaved` ties a row to a request of its key that was
carried out, and a replay to a row of its own content; `OneAttempt` says that a client that
retries in turn has at most one attempt under way. With `CarriedOutOnce` they are inductive
(`CheckInv`, `MoveInv`, `SaveInv`); `ReplayFaithful` follows, and so does
`IdempotencyNoneAfterSaved`: where all attempts of a key have one content, a saved response
means that the key has a row that matches, so a look-up replays it.

*Orders.* `ExchangeTypes`, then `ExchangeInvariant`: `IInv` is the inductive
invariant. The difficulty is that `UpdateStatus` compares the version and never
the status, so a status change is right only if whoever makes it *knew* the
status that goes with its version. Hence the parts of `IInv`:

* `VersionsAgree`: a row that some process read is not ahead of the table, and if
  its version is current then so is its status;
* `HeldStatuses`: what each process checked of the row it read (a canceler holds
  open or triggered, an engine open, a worker that will claim triggered);
* `ExclusiveExecution`: between claim and last status change, the row is
  submitting at the version the worker will check, and no other worker has it;
* `SwapsMatch`: the swaps of an order against its status and its worker's place.

`VersionsAgree` is kept since every status change bumps the version. With
`HeldStatuses` it follows that a successful compare-and-swap changes from the
status the process had checked: so no cancel or trigger ever touches a
submitting row (`ForeignSteps`), so `ExclusiveExecution` is kept, so `SwapsMatch`
is. The same case analysis shows that each step is one of `OrderLifecycle` or a
stutter: `ExchangeLifecycle`. `LifecycleSwapSafety` is proved of the abstract
specification and carried over to the exchange by `ExchangeSwapSafety`.

*Funds of orders.* `ExchangeCanceledReleased` needs three more facts (`FundsInv`): a
cancel that still has to write the status has released before; a worker that settles has
written filled; fill entries exist of filled orders only. Entries are only ever added and
filled is a last status (`FinalKept`, from the lifecycle), so a step can break them only
where a process gets to such a point. The next two state what they assume, and the runs
cancel_race and crashed_create show that they must: `ExchangeLockHasOrder`, for systems in
which no statement fails and no process stops, from `CreateLocks` (where a request is tells
whether its lock and its order exist); `ExchangeLockKept`, in which besides nobody cancels,
from `ReleasedOnce` (the lock of a closed order is released once, by the worker that closed
it: it owned the order, by `ExclusiveExecution`, so its last status change cannot miss).

`ExchangeLocksAccounted` holds with every fault: each step changes an account's locked
balance as it changes what the entries of *one* order hold (`LocksHeld`), and the sum over the
account's orders by as much. It is what makes a settlement possible: while it is owed, its
order's lock is not released, no other order was released more often than it was locked
(`ReleasedOnce`), so the locked balance covers it, and no balance is overdrawn (`Covered`).
Hence `ExchangeFilledSettled`, where nobody cancels, no statement fails, no process stops and
the user has a wallet row for what the order buys. The code needs each of the four: a lock that
a cancel released cannot be settled, and what a failed or missing settlement leaves unpaid
nobody retries.

`ExchangeAcceptedLock` holds with every fault too, and of an order that nobody cancels while
others are. By where its create request is, the order is in one of a few stages (`LockStage`):
not placed, so with nobody (`Unplaced`); placed with its lock held (`LockHeld`); given up,
unswapped and with nobody (`LockGivenUp`); settled and with nobody (`LockSettled`). Only the
order's own request and the worker that has it add entries of it (`RequestsElsewhere`,
`WorkerEntries`); that worker does so as the last thing it does, and since no two places have
one order (`Placed`), the order is with nobody from then on (`WorkerStage`). That nobody takes
it up again is `FreeStays`.

*Messages.* An order is on its way to be executed in three kinds of places: with an engine that
is about to send it, in the stream, with a worker. `Placed` says of each pair of places that
they do not have the same order, and that an order which is in one of them is neither absent
nor open. It is kept by every step, whatever fails: an engine puts only an order there that was
open until this very step and so was nowhere (`EnginePlaced`), the lifecycle never returns to
open (`BegunKept`), and a delivery moves the oldest message to an idle worker (`ConsumeEffect`,
`WorkerPlaced`). This is `ExchangeOneMessage`. The converse, `ExchangeInFlightHeld`, is about
systems in which only quotes fail, since a failed XADD, statement or process loses an order
(run recovery); cancels are allowed. It needs that the row a worker is to claim is current as
long as the order is triggered (`ClaimsCurrent`), so a claim fails only when somebody canceled
the order, and `ExclusiveExecution`, so the last status change of a worker cannot fail at all
(`WorkersInFlight`). It is the safety half of `TriggeredResolved`: whatever is triggered or
submitting is with an engine, the stream or a worker, which `Fairness` makes go on.
With the faults that it excludes, `ExchangeLostStays` says what becomes of an order that is
lost: it stays with nobody, as an engine puts only open orders on their way (`FreeStays`), and
no worker changes a row of an order that it does not have (`WorkerElsewhere`), so only a
cancel does (`RowKept`).

`FeedImplementsExchange` shows that the stream of ticks only restricts which prices the
engines see, and so carries every theorem of the exchange over to **PriceFeed**. The runs
check the same formulas on an instance.

## 5. What is only model-checked, and what is assumed

* Liveness (`TriggeredResolved`, `TickTriggers`, `DeadClientLeaves`, `Delivered`) is out of the
  prover's reach, as it needs fairness and ENABLED. Every other property of a passing run is
  checked and proved.
* A statement that fails has had no effect, except the insert of an order: when its
  commit's answer is lost, `CreateOrder` goes on and releases the lock of an order that
  exists, and so does `CreateInsert`. Elsewhere the caller gives up on the error, as if
  it had crashed just after the commit (an engine: as if its XADD had failed), or goes on
  as it does after a success (`handleExecutionError`).
* The Solana client is the one in the repository, which confirms every
  transaction it was given; its only error is a cancelled context, after which no
  statement of that worker can succeed (`WorkerCrash`). The proof of `SwapSafety`
  rests on this: with a client that may report a timeout for a transaction that is
  on chain, `handleExecutionError` would mark the order failed and release its lock.
  The mutant `WorkerConfirmationFails` shows it.
* In **Ledger** and what is built on it amounts are whole column units: it speaks
  of requests whose sizes, prices and locks have at most eight decimals.
  **OrderAmounts** shows what others do (section 6). Slippage, fees and the price
  walk are data the properties do not tell apart.
* That a deposit succeeds in the end when it shares the pool with others is not
  checked: with fairness the instance is too large. `NoCircularWait` is the safety part:
  whoever waits, waits for somebody who does not, unless it is as many deposits as the pool
  has connections, all of them waiting for a second one; those end by their timeout.
* **PriceFeed** loses no tick: with a failing query or a crash the tick in hand would be
  lost, and nobody reads what stays pending. Those faults are in `exchange`, where ticks
  come from nowhere.
* **WalletTx** justifies the atomic actions of **Ledger** for the kinds of transactions
  it has; `Compensate` and `FixDiscrepancy` have the same shape (one locked row).

## 6. What the checks found

Five statements of the documentation, or of a comment, do not hold of the code;
each is a run with an expected violation and an entry under `findings`:

1. `CancelOrder` releases the funds, in a transaction of its own, before it
   contends for the status. In the run a cancel reads an open order; the engine triggers
   and publishes it; the cancel releases its lock; a worker takes the message and claims the
   order, which is then submitting without a lock, while the cancel's UPDATE on the version
   it read can no longer succeed (cancel_race).
2. `CreateOrder` locks and inserts in two transactions; a crash between them
   leaves a lock without an order (crashed_create).
3. The swap is asked for in the wrong direction: the mints are those of base and
   quote, exchanged for a sell, while the amount and the settlement are those of
   the asset the order pays with. A buy locks and is debited USDC, but the swap
   takes SOL (swap_mints; with the two mints exchanged `Backed` holds of the model).
4. After a crash an order stays triggered or submitting for ever:
   `RecoverPendingOrders` is empty and pending messages are never claimed (recovery).
5. `ReconcileUser` counts lock entries as spent and reports every account with a
   lock as unbalanced (reconcile).

More that the modelling shows, which no run states as a violation:

* A lock is computed before the columns round it and released after: a request with
  more than eight decimals in its size, price or their product may leave a stored lock
  that is smaller than what a cancel or a fill wants to release, and then neither can
  (`ExactLocks` holds only under `Representable`).
* A fill is settled only if the user has wallet rows for both assets (`Settleable`;
  `OpenRows` in the runs), which no step of an order creates and nobody retries.
* Two cancels of one order that is open both release its lock, and one of them then fails
  on the version: the second release is taken from what another order of the user has locked.
  `LockKept` and `AcceptedLock` are therefore about orders that nobody cancels.
* When the answer to the insert of an order is lost, its creation is reported as failed and
  its lock released, but the order is open and will be triggered (`CreateInsert`).
* The diagram of the lifecycle (design line 327) draws submitting to canceled; its text
  (lines 716 and 858) and the code refuse that, and so does `OrderLifecycle`.
* When Jupiter is unavailable, the design (lines 873-874) keeps the order triggered to be
  retried; the code marks it failed and releases its lock (`WorkerQuoteFails`, `WorkerFail`).
* A request is carried out again when it is repeated before its response is saved, or after
  a save that failed, although the design (line 377) promises equal results for a key within
  24 hours; `CarriedOutOnce` is about clients that wait for the save, and `NoneAfterSaved`
  says that after a save it happens no more.
* As many first deposits as the pool has connections can each hold one and wait for a
  second until the request times out (`NoCircularWait` names this case).
* `DeleteUser` looks at neither balances nor orders: what a deleted user holds stays
  there, and the user's open orders go on (`DeletedFrozen` says no more than that).
  A deleted user's name is taken for ever, and a creation that asks for it is told so by
  a failing insert, since the look-up does not see the deleted row (`NameIsSpent`).
* `UpdateUser` always fails: it sets `users.updated_at`, which no migration creates.
* The engine reads the oldest open orders of a pair and then tests the price: as many
  orders out of reach as the batch holds keep every newer one from being looked at
  (`InReach` in `TickTriggers`).
* The engine sends a slippage limit of 5.0 with every order; no code acts on
  `orders.max_slippage_pct`, although the design (line 871) says that it decides.
* A worker that is told to stop cancels the context of what is under way before it waits
  for it (`cmd/worker/main.go:161-170`), so no later statement of an order in hand can
  succeed: to the database a graceful stop is a crash, and so it is in `Executor`.
* The handlers compare a service's error with exact texts, but the services wrap their
  errors, so the 404 and 409 answers for users and wallets (design lines 401-402) are
  never sent; a replayed answer is sent with status 200 whatever the first one had.

## 7. Not modelled

Router, handlers, authentication, configuration and logging keep no state; the
service operation each handler calls is modelled. The
Jupiter client and its mock are a quote that arrives, with what was asked and some
output, or does not: exchange rate, slippage and price impact are data. Acknowledgement
and the pending list of the streams are written and never read. `ReconcileUser` is a
verdict on one state of both tables; that it reads them in two statements, and of the
entries only the newest 10000, is left out, as no program calls it. `ReconcileAll`,
snapshots and queries change nothing. `SubmitOrder`, `ProcessFill` and the `WithTx`
variants of the order statements have no caller, nor has the second price service of
`internal/price/service.go`. Migrations run before the programs do.

## 8. Plan

1. Proofs: the safety halves of the liveness properties that are left: of `TickTriggers`, that
   a tick is with the stream or one engine until it has been handled; of `Delivered` and
   `DeadClientLeaves`, that a client whose writer is done is on its way out.
2. The stream's pending list and acknowledgements, with a recovery that claims them,
   as a specification of what `RecoverPendingOrders` would have to do.
3. Migrations as steps, if they are ever run beside the programs.
