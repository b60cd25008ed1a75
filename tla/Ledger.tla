------------------------------- MODULE Ledger -------------------------------
(***************************************************************************)
(* The wallets and ledger_entries tables and the transactions that         *)
(* internal/ledger/service.go, internal/ledger/reconcile.go and            *)
(* internal/wallet/service.go run on them.  Each of those methods is one   *)
(* database transaction that holds the row locks of the wallets it changes *)
(* (SELECT ... FOR UPDATE), so each is one action here; a method that      *)
(* returns an error rolls back and changes nothing, so it is no step.      *)
(*                                                                         *)
(* Amounts are integers: one unit stands for the least decimal the         *)
(* NUMERIC(20,8) columns hold.                                             *)
(***************************************************************************)
EXTENDS Integers, FiniteSets

CONSTANTS Users,        \* users.id
          Assets,       \* wallets.asset: SOL, USDC
          OrderIds,     \* the order ids that ledger entries refer to (ref_id)
          OpenRows,     \* the wallet rows that exist when the system starts
          Opening       \* and what each holds, as available balance

Accounts == Users \X Assets

ASSUME LedgerAssumption ==
  /\ OpenRows \subseteq Accounts
  /\ Opening \in [Accounts -> Nat]
  /\ \A a \in Accounts \ OpenRows : Opening[a] = 0

VARIABLES rows,        \* the accounts that have a row in wallets
          available,   \* wallets.available_decimal
          locked,      \* wallets.locked_decimal
          deltaSum,    \* SUM(delta) of the ledger entries of an account
          lockSum,     \* the same sum over its lock_funds/release_funds entries
          entries      \* per order: how many entries of each type refer to it

ledgerVars == <<rows, available, locked, deltaSum, lockSum, entries>>

EntryTypes == {"lock_funds", "release_funds", "filled"}

LedgerTypeOK ==
  /\ rows \in SUBSET Accounts
  /\ available \in [Accounts -> Int]
  /\ locked \in [Accounts -> Nat]
  /\ deltaSum \in [Accounts -> Int]
  /\ lockSum \in [Accounts -> Int]
  /\ entries \in [OrderIds -> [EntryTypes -> Nat]]

LedgerInit ==
  /\ rows = OpenRows
  /\ available = Opening
  /\ locked = [a \in Accounts |-> 0]
  /\ deltaSum = [a \in Accounts |-> 0]
  /\ lockSum = [a \in Accounts |-> 0]
  /\ entries = [o \in OrderIds |-> [t \in EntryTypes |-> 0]]

-----------------------------------------------------------------------------
(* The row update and the insert every transaction is made of.             *)

Plus(f, a, x) == [f EXCEPT ![a] = @ + x]

Entry(o, type) == [entries EXCEPT ![o][type] = @ + 1]

\* UpdateBalancesWithTx followed by CreateWithTx of one entry of type lock_funds
\* or release_funds: x moves from locked to available (a lock moves -x).
MoveLocked(a, x) ==
  /\ available' = Plus(available, a, x)
  /\ locked' = Plus(locked, a, -x)
  /\ deltaSum' = Plus(deltaSum, a, x)
  /\ lockSum' = Plus(lockSum, a, x)

\* The same with an entry of another type: x enters the available balance.
Credit(a, x) ==
  /\ available' = Plus(available, a, x)
  /\ deltaSum' = Plus(deltaSum, a, x)
  /\ UNCHANGED <<locked, lockSum>>

-----------------------------------------------------------------------------
(* internal/ledger/service.go                                              *)

SufficientBalance(a, amount) == a \in rows /\ available[a] >= amount

LockFunds(a, amount, o) ==
  /\ SufficientBalance(a, amount)
  /\ MoveLocked(a, -amount)
  /\ entries' = Entry(o, "lock_funds")
  /\ UNCHANGED rows

\* Mutant: the release does not compare the locked balance with the amount.
ReleasableUnchecked(a, amount) == a \in rows

Releasable(a, amount) == a \in rows /\ locked[a] >= amount

ReleaseFunds(a, amount, o) ==
  /\ Releasable(a, amount)
  /\ MoveLocked(a, amount)
  /\ entries' = Entry(o, "release_funds")
  /\ UNCHANGED rows

\* Mutant: the settlement debits the locked balance and releases no lock.
FillWithoutRelease(lock, sell, buy, lockAmount, sellAmount, buyAmount, o) ==
  /\ {lock, sell, buy} \subseteq rows
  /\ locked[sell] >= sellAmount
  /\ locked' = Plus(locked, sell, -sellAmount)
  /\ available' = Plus(available, buy, buyAmount)
  /\ deltaSum' = Plus(Plus(deltaSum, sell, -sellAmount), buy, buyAmount)
  /\ entries' = [entries EXCEPT ![o]["filled"] = @ + 2]
  /\ UNCHANGED <<rows, lockSum>>

\* ProcessFillWithLockRelease locks the three wallets first, so it fails when any
\* of them has no row; the sold amount is checked against the balance as it is
\* after the release of the order's lock.
Settleable(lock, sell, buy, lockAmount, sellAmount) ==
  /\ {lock, sell, buy} \subseteq rows
  /\ locked[lock] >= lockAmount
  /\ Plus(available, lock, lockAmount)[sell] >= sellAmount

\* Its statements once the checks have passed: release, sale, purchase.
Settle(lock, sell, buy, lockAmount, sellAmount, buyAmount, o) ==
  /\ available' = Plus(Plus(Plus(available, lock, lockAmount), sell, -sellAmount),
                       buy, buyAmount)
  /\ locked' = Plus(locked, lock, -lockAmount)
  /\ deltaSum' = Plus(Plus(Plus(deltaSum, lock, lockAmount), sell, -sellAmount),
                      buy, buyAmount)
  /\ lockSum' = Plus(lockSum, lock, lockAmount)
  /\ entries' = [entries EXCEPT ![o]["release_funds"] = @ + 1,
                                ![o]["filled"] = @ + 2]
  /\ UNCHANGED rows

ProcessFillWithLockRelease(lock, sell, buy, lockAmount, sellAmount, buyAmount, o) ==
  /\ Settleable(lock, sell, buy, lockAmount, sellAmount)
  /\ Settle(lock, sell, buy, lockAmount, sellAmount, buyAmount, o)

Compensate(a, amount) ==
  /\ a \in rows
  /\ Credit(a, amount)
  /\ UNCHANGED <<rows, entries>>

-----------------------------------------------------------------------------
(* internal/ledger/reconcile.go                                            *)

\* ReconcileUser's verdict on one account, from the wallet row and its entries.
Discrepancy(a) == (available[a] + locked[a]) - deltaSum[a]

\* FixDiscrepancy brings the wallet total to what the caller expects, by the
\* available balance alone and with no check on its sign.
FixDiscrepancy(a, expected) ==
  /\ a \in rows
  /\ expected # available[a] + locked[a]
  /\ Credit(a, expected - (available[a] + locked[a]))
  /\ UNCHANGED <<rows, entries>>

-----------------------------------------------------------------------------
(* internal/wallet/service.go                                              *)

\* CreateWallet opens an empty row and writes no ledger entry.
CreateWallet(a) ==
  /\ a \notin rows
  /\ rows' = rows \cup {a}
  /\ UNCHANGED <<available, locked, deltaSum, lockSum, entries>>

\* Mutant: the entry of a deposit is left out.
DepositWithoutEntry(a, amount) ==
  /\ rows' = rows \cup {a}
  /\ available' = Plus(available, a, amount)
  /\ UNCHANGED <<locked, deltaSum, lockSum, entries>>

\* Deposit creates the wallet row when the account has none.
Deposit(a, amount) ==
  /\ rows' = rows \cup {a}
  /\ Credit(a, amount)
  /\ UNCHANGED entries

\* Mutant: a withdrawal is checked against the whole balance, locked part included.
WithdrawLocked(a, amount) ==
  /\ a \in rows
  /\ available[a] + locked[a] >= amount
  /\ Credit(a, -amount)
  /\ UNCHANGED <<rows, entries>>

Withdraw(a, amount) ==
  /\ SufficientBalance(a, amount)
  /\ Credit(a, -amount)
  /\ UNCHANGED <<rows, entries>>

-----------------------------------------------------------------------------

\* BooksMatch: whatever was called, an account's ledger entries add up to the change
\* of its available balance since the start, its lock and release entries to what is
\* now locked, and an account without a row holds nothing (ledger/service.go:64-311,
\* wallet/service.go:227-396, reconcile.go:168-214).
BooksMatch ==
  \A a \in Accounts :
    /\ deltaSum[a] = available[a] - Opening[a]
    /\ lockSum[a] + locked[a] = 0
    /\ a \notin rows => available[a] = 0 /\ locked[a] = 0
=============================================================================
