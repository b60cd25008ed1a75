----------------------------- MODULE OrderAmounts -----------------------------
(***************************************************************************)
(* The decimals of an order, from the request to the settlement: what is   *)
(* locked, what the NUMERIC(20,8) columns make of it, what the swap is     *)
(* asked for in base units, what the ledger then debits.  Each transaction *)
(* is one step; their interleavings are the subject of Exchange.           *)
(*                                                                         *)
(* Amounts are integers: One of them make a token, Cell of them the least  *)
(* amount a column holds.  A request may have finer decimals than a column *)
(* and the product of two columns has; arithmetic in Go is exact.          *)
(***************************************************************************)
EXTENDS Integers, FiniteSetsExt

CONSTANTS OrderIds,    \* the orders of one user
          Base, Quote, \* the assets of the pair
          Scale,       \* column units in a token: 10^8
          Part,        \* how many times finer a request, or a quote's output, may be
          BaseUnits,   \* base units in a token: lamports, micro USDC
          Asked,       \* the requests that may come: side, size and trigger price
          Outs,        \* what a quote may promise, in parts of a base unit (1/Part)
          Opening      \* the user's balances at the start

One == Scale * Part * Scale * Part
Cell == One \div Scale
Assets == {Base, Quote}

ASSUME OrderAmountsAssumption ==
  /\ Base # Quote
  /\ Scale \in Nat \ {0} /\ Part \in Nat \ {0}
  /\ BaseUnits \in [Assets -> Nat \ {0}]
  /\ \A a \in Assets : One % BaseUnits[a] = 0
  /\ Outs \subseteq Nat \ {0}
  /\ Opening \in [Assets -> Nat] /\ \A a \in Assets : Opening[a] % Cell = 0
  \* A product of two of their amounts is exact in units of 1/One.
  /\ Asked \subseteq [side : {"buy", "sell"}, size : Nat \ {0}, price : Nat \ {0}]
  /\ \A r \in Asked : r.size % (Scale * Part) = 0 /\ r.price % (Scale * Part) = 0

VARIABLES phase,       \* where each order is
          asked,       \* its request, once one came
          row,         \* its row in the orders table, once inserted
          swap,        \* the swap transaction submitted for it
          wallet       \* per asset: the two balances and the sum of ledger deltas

vars == <<phase, asked, row, swap, wallet>>

Nothing == [none |-> TRUE]

Phases == {"new", "locked", "rejected", "open", "canceled", "swapped",
           "failed", "settled", "unsettled"}

TypeOK ==
  /\ phase \in [OrderIds -> Phases]
  /\ \A o \in OrderIds :
       /\ asked[o] \in {Nothing} \cup Asked
       /\ row[o] # Nothing => row[o].size >= 0 /\ row[o].price >= 0
       /\ swap[o] # Nothing => swap[o].took > 0 /\ swap[o].gave \in Outs
  /\ \A a \in Assets :
       /\ wallet[a].available >= 0 /\ wallet[a].available % Cell = 0
       /\ wallet[a].locked >= 0 /\ wallet[a].locked % Cell = 0
       /\ wallet[a].booked % Cell = 0

Init ==
  /\ phase = [o \in OrderIds |-> "new"]
  /\ asked = [o \in OrderIds |-> Nothing]
  /\ row = [o \in OrderIds |-> Nothing]
  /\ swap = [o \in OrderIds |-> Nothing]
  /\ wallet = [a \in Assets |-> [available |-> Opening[a], locked |-> 0, booked |-> 0]]

-----------------------------------------------------------------------------
(* Columns, products and base units.                                        *)

\* Mutant: a column cuts the decimals it does not hold.
Truncated(x) == IF x < 0 THEN -(((-x) \div Cell) * Cell) ELSE (x \div Cell) * Cell

\* What a NUMERIC(20,8) column keeps of a value: the nearest, halves away from zero.
Stored(x) ==
  LET Nearest(n) == ((2 * n + Cell) \div (2 * Cell)) * Cell
  IN  IF x < 0 THEN -Nearest(-x) ELSE Nearest(x)

Times(x, y) == (x * y) \div One

LockAsset(r) == IF r.side = "buy" THEN Quote ELSE Base
BuyAsset(r) == IF r.side = "buy" THEN Base ELSE Quote
LockAmount(r) == IF r.side = "buy" THEN Times(r.size, r.price) ELSE r.size

\* Mutant: the amount is rounded up to whole base units.
InAmountUp(r) ==
  LET n == LockAmount(r) * BaseUnits[LockAsset(r)] IN (n + One - 1) \div One

\* ExecuteOrder: the amount asked for, in whole base units of the asset paid with.
InAmount(r) == (LockAmount(r) * BaseUnits[LockAsset(r)]) \div One

Tokens(n, a) == n * (One \div BaseUnits[a])

\* What a quote promises need not be whole base units: the mock multiplies by its rate
\* and does not cut.
Promised(n, a) == Tokens(n, a) \div Part

\* ExecuteOrder: the mints are those of base and quote, exchanged for a sell order.
InputMint(r) == IF r.side = "sell" THEN Quote ELSE Base
OutputMint(r) == IF r.side = "sell" THEN Base ELSE Quote

\* UpdateBalancesWithTx: the sums are rounded as they are stored, and so is the delta
\* of the ledger entry, on its own.
Booked(w, a, toAvailable, toLocked) ==
  [w EXCEPT ![a] = [available |-> Stored(@.available + toAvailable),
                    locked    |-> Stored(@.locked + toLocked),
                    booked    |-> @.booked + Stored(toAvailable)]]

Goes(o, to) == phase' = [phase EXCEPT ![o] = to]

CanRelease(r) == wallet[LockAsset(r)].locked >= LockAmount(r)

Release(w, r) == Booked(w, LockAsset(r), LockAmount(r), -LockAmount(r))

-----------------------------------------------------------------------------

\* CreateOrder: the lock is that of the request, before any column rounds it.
Lock(o) ==
  /\ phase[o] = "new"
  /\ \E r \in Asked :
       /\ wallet[LockAsset(r)].available >= LockAmount(r)
       /\ wallet' = Booked(wallet, LockAsset(r), -LockAmount(r), LockAmount(r))
       /\ asked' = [asked EXCEPT ![o] = r]
  /\ Goes(o, "locked")
  /\ UNCHANGED <<row, swap>>

\* orderRepo.Create: the row keeps what its columns hold of the size and the price.
Insert(o) ==
  /\ phase[o] = "locked"
  /\ row' = [row EXCEPT ![o] = [side  |-> asked[o].side,
                                size  |-> Stored(asked[o].size),
                                price |-> Stored(asked[o].price)]]
  /\ Goes(o, "open")
  /\ UNCHANGED <<asked, swap, wallet>>

\* The insert failed: the lock of the request is released, if it can be.
Undo(o) ==
  /\ phase[o] = "locked"
  /\ wallet' = IF CanRelease(asked[o]) THEN Release(wallet, asked[o]) ELSE wallet
  /\ Goes(o, "rejected")
  /\ UNCHANGED <<asked, row, swap>>

\* Mutant: the release does not look at the locked balance.
CancelUnchecked(o) ==
  /\ phase[o] = "open"
  /\ wallet' = Release(wallet, row[o])
  /\ Goes(o, "canceled")
  /\ UNCHANGED <<asked, row, swap>>

\* CancelOrder: the lock of the row; an order whose lock is short stays open.
Cancel(o) ==
  /\ phase[o] = "open"
  /\ CanRelease(row[o])
  /\ wallet' = Release(wallet, row[o])
  /\ Goes(o, "canceled")
  /\ UNCHANGED <<asked, row, swap>>

\* handleExecutionError: failed, whether or not the lock of the row can be released.
Fail(o) ==
  /\ phase[o] = "open"
  /\ wallet' = IF CanRelease(row[o]) THEN Release(wallet, row[o]) ELSE wallet
  /\ Goes(o, "failed")
  /\ UNCHANGED <<asked, row, swap>>

\* GetQuote answers with the mints and the amount it was asked for; nothing buys nothing.
QuoteOf(r, n) ==
  [from |-> InputMint(r), to |-> OutputMint(r),
   took |-> InAmount(r), gave |-> IF InAmount(r) = 0 THEN 0 ELSE n]

\* ValidateQuote, which may also refuse the price impact: then Fail.
Acceptable(quote) == quote.gave > 0

\* ExecuteOrder up to SubmitTransaction.
Swap(o) ==
  /\ phase[o] = "open"
  /\ \E n \in Outs :
       /\ Acceptable(QuoteOf(row[o], n))
       /\ swap' = [swap EXCEPT ![o] = QuoteOf(row[o], n)]
  /\ Goes(o, "swapped")
  /\ UNCHANGED <<asked, row, wallet>>

\* Mutant: only what was sold is released.
FilledSoldOnly(w, r, sold, bought) ==
  Booked(Booked(w, LockAsset(r), 0, -sold), BuyAsset(r), bought, 0)

\* ProcessFillWithLockRelease, with the quote's amounts read as base units of the
\* order's own assets: release of the row's lock, sale, purchase.
Filled(w, r, sold, bought) ==
  Booked(Booked(Release(w, r), LockAsset(r), -sold, 0), BuyAsset(r), bought, 0)

Settle(o) ==
  LET r == row[o]
      sold == Tokens(swap[o].took, LockAsset(r))
      bought == Promised(swap[o].gave, BuyAsset(r))
      covered == /\ CanRelease(r)
                 /\ wallet[LockAsset(r)].available + LockAmount(r) >= sold
  IN  /\ phase[o] = "swapped"
      /\ \/ covered /\ wallet' = Filled(wallet, r, sold, bought) /\ Goes(o, "settled")
         \/ ~covered /\ UNCHANGED wallet /\ Goes(o, "unsettled")
      /\ UNCHANGED <<asked, row, swap>>

Next ==
  \E o \in OrderIds :
    Lock(o) \/ Insert(o) \/ Undo(o) \/ Cancel(o) \/ Fail(o) \/ Swap(o) \/ Settle(o)

Spec == Init /\ [][Next]_vars

-----------------------------------------------------------------------------

Begun == {o \in OrderIds : phase[o] # "new"}

\* BooksFollow: rounding never lets an available balance fall behind its ledger
\* entries, and lets it run ahead of them by one column unit per debit at most: a
\* debit of half a unit is rounded up in the entry and down in the wallet
\* (wallet_repository.go:165-193, migrations/0001_init.sql:13-43).
BooksFollow ==
  \A a \in Assets :
    LET ahead == wallet[a].available - Opening[a] - wallet[a].booked
    IN  ahead >= 0 /\ ahead <= Cell * 2 * Cardinality(Begun)

Representable(r) ==
  /\ Stored(r.size) = r.size /\ Stored(r.price) = r.price
  /\ Stored(LockAmount(r)) = LockAmount(r)

\* What the orders under way have locked of an asset.
Held(a) ==
  [o \in OrderIds |-> IF phase[o] \in {"locked", "open", "swapped"}
                         /\ LockAsset(asked[o]) = a
                      THEN LockAmount(asked[o]) ELSE 0]

\* ExactLocks: as long as every size, price and lock has at most eight decimals, the
\* locked balance is the sum of the locks of the orders that hold one, so every lock
\* can be released and every fill settled, whatever was cancelled, filled or undone
\* before, and although the fill sells less than the lock (order/service.go:95-107,
\* 179-192, ledger/service.go:212-251, executor/service.go:304-326).
ExactLocks ==
  (\A o \in Begun : Representable(asked[o])) =>
    /\ \A a \in Assets : wallet[a].locked = SumFunctionOnSet(Held(a), OrderIds)
    /\ \A o \in OrderIds : phase[o] # "unsettled"
    /\ \A o \in OrderIds : phase[o] = "open" => CanRelease(row[o])

\* SwapWithinLock: the swap asks for no more than the row's lock, and for less than
\* one base unit below it (executor/service.go:203-229).
SwapWithinLock ==
  \A o \in OrderIds :
    swap[o] # Nothing =>
      LET a == LockAsset(row[o])
          asks == Tokens(swap[o].took, a)
      IN  /\ asks <= LockAmount(row[o])
          /\ LockAmount(row[o]) < asks + Tokens(1, a)

\* What the swaps brought on chain, in tokens of an asset.
OnChain(a) ==
  LET Submitted == {o \in OrderIds : swap[o] # Nothing}
  IN  MapThenSumSet(LAMBDA o : Promised(swap[o].gave, a),
                    {o \in Submitted : swap[o].to = a})
      - MapThenSumSet(LAMBDA o : Tokens(swap[o].took, a),
                      {o \in Submitted : swap[o].from = a})

\* Backed: once every swap has been settled, the user's balances have changed by what
\* the swaps brought on chain, up to the rounding of each update: a buy order pays
\* USDC and receives SOL, a sell order the reverse (executor/service.go:208-216).
Backed ==
  (\A o \in OrderIds : phase[o] \notin {"swapped", "unsettled"}) =>
    \A a \in Assets :
      LET drift == wallet[a].available + wallet[a].locked - Opening[a] - OnChain(a)
          slack == 2 * Cell * Cardinality(Begun)
      IN  drift <= slack /\ -drift <= slack
=============================================================================
