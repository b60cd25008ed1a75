---------------------------- MODULE UserWallets ----------------------------
(***************************************************************************)
(* The user service over the wallets: every operation that a user asks for *)
(* looks the user up before, and outside of, the transaction that changes  *)
(* a wallet; releases, settlements and corrections look nobody up.         *)
(***************************************************************************)
EXTENDS WalletLedger, UserService

CONSTANT Traded   \* bound: the accounts that have transactions

\* A wallet refers to a user (wallets.user_id REFERENCES users).
ASSUME UserWalletsAssumption ==
  /\ Traded \subseteq Accounts
  /\ \A a \in OpenRows : FirstNames[a[1]] # NoName

UserWalletsInit == LedgerInit /\ UserInit

\* CreateWallet, Deposit, Withdraw, and the lock of CreateOrder.
UserOperation(a) ==
  \/ CreateWallet(a)
  \/ \E x \in Amounts : Room(a, x) /\ Deposit(a, x)
  \/ \E x \in Amounts : Withdraw(a, x)
  \/ \E x \in Amounts, o \in OrderIds : EntryRoom(o) /\ LockFunds(a, x, o)

\* The transaction of a request whose user was found when the handler looked.
Serve(h) ==
  /\ requests[h].kind = "wallet"
  /\ \E a \in Traded : a[1] = requests[h].user /\ UserOperation(a)
  /\ Ends(h)
  /\ UNCHANGED <<username, deleted>>

\* What CancelOrder, the executor and an administrator cause, for any user with
\* wallets, deleted or not.
OrderFlow ==
  /\ \/ \E o \in OrderIds, a \in Traded, x \in Amounts :
          EntryRoom(o) /\ ReleaseFunds(a, x, o)
     \/ \E o \in OrderIds : FillTransaction(o)
     \/ \E a \in Traded, x \in Amounts : Room(a, x) /\ Compensate(a, x)
     \/ \E a \in Traded : ReconcileTransaction(a)
  /\ UNCHANGED userVars

HandlerStep(h) ==
  \/ Serve(h)
  \/ UserStep(h) /\ UNCHANGED ledgerVars

UserWalletsNext == OrderFlow \/ \E h \in Handlers : HandlerStep(h)

UserWalletsSpec ==
  UserWalletsInit /\ [][UserWalletsNext]_<<ledgerVars, userVars>>

-----------------------------------------------------------------------------

\* Deleted, with no request left that had found the user before.
Gone(u) ==
  /\ u \in deleted
  /\ \A h \in Handlers : requests[h] # [kind |-> "wallet", user |-> u]

Balances(a) == <<a \in rows, available[a], locked[a]>>

\* DeletedFrozen: once a user is gone, it is for ever: no handler moves what the
\* user's wallets hold, so what is left there can be neither used nor withdrawn, as
\* DeleteUser looks at no balance; the orders left can still lose or gain
\* (user/service.go:170-206, wallet/service.go:69-73, order/service.go:63-67).
DeletedFrozen ==
  [][\A a \in Accounts :
       Gone(a[1]) => Gone(a[1])' /\ (Balances(a)' = Balances(a) \/ OrderFlow)]_<<ledgerVars, userVars>>
=============================================================================
