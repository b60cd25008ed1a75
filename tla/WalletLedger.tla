---------------------------- MODULE WalletLedger ----------------------------
(***************************************************************************)
(* The ledger on its own: any caller runs any of its transactions, in any  *)
(* order, on any account.  What the books promise whoever calls them.      *)
(***************************************************************************)
EXTENDS Ledger

CONSTANTS Amounts,      \* the amounts callers pass: positive
          MaxBalance,   \* bound: no call takes a wallet's total above this
          MaxEntries    \* bound: entries of one type per order

ASSUME WalletLedgerAssumption ==
  /\ Amounts \subseteq Nat \ {0}
  /\ MaxBalance \in Nat
  /\ MaxEntries \in Nat

Total(a) == available[a] + locked[a]

Room(a, amount) == Total(a) + amount <= MaxBalance

EntryRoom(o) == \A t \in EntryTypes : entries[o][t] < MaxEntries

OrderTransaction(o) ==
  /\ EntryRoom(o)
  /\ \E a \in Accounts, x \in Amounts : LockFunds(a, x, o) \/ ReleaseFunds(a, x, o)

\* The order's own lock may differ from what the fill sells, as the arguments do.
FillTransaction(o) ==
  /\ EntryRoom(o)
  /\ \E u \in Users, lock, sell, buy \in Assets, x, y, z \in Amounts :
       /\ Room(<<u, buy>>, z)
       /\ ProcessFillWithLockRelease(<<u, lock>>, <<u, sell>>, <<u, buy>>, x, y, z, o)

WalletTransaction(a) ==
  \/ CreateWallet(a)
  \/ \E x \in Amounts : Room(a, x) /\ Deposit(a, x)
  \/ \E x \in Amounts : Withdraw(a, x)
  \/ \E x \in Amounts : Room(a, x) /\ Compensate(a, x)

ReconcileTransaction(a) ==
  \E expected \in 0..MaxBalance : FixDiscrepancy(a, expected)

\* What users and the order flow call; ReconcileTransaction is an administrator's.
Call ==
  \/ \E o \in OrderIds : OrderTransaction(o)
  \/ \E o \in OrderIds : FillTransaction(o)
  \/ \E a \in Accounts : WalletTransaction(a)

Next ==
  \/ Call
  \/ \E a \in Accounts : ReconcileTransaction(a)

Spec == LedgerInit /\ [][Next]_ledgerVars

-----------------------------------------------------------------------------

\* TypeOK: the shapes of the two tables' summaries; a locked balance is never
\* negative, because every debit of it is checked under the row lock.
TypeOK == LedgerTypeOK

\* NoOverdraft: no call takes an available balance below zero, or further below
\* where a correction left it there: withdrawals, locks and settlements check it
\* first, under the row lock.  Only FixDiscrepancy can.
NoOverdraft ==
  [][Call => \A a \in Accounts :
               available'[a] < 0 => available'[a] >= available[a]]_ledgerVars

\* ReconcileBalanced: ReconcileUser's IsBalanced, for accounts that started empty:
\* the wallet total equals the ledger total (reconcile.go:108-109).
ReconcileBalanced ==
  \A a \in Accounts : Opening[a] = 0 => Discrepancy(a) = 0
=============================================================================
