------------------------- MODULE UserWallets_proofs -------------------------
(***************************************************************************)
(* The transactions on the wallets, for any accounts, amounts and orders,  *)
(* and the user service over them, for any users, names and handlers.      *)
(***************************************************************************)
EXTENDS UserWallets, Ledger_proofs

-----------------------------------------------------------------------------
(* The ledger transactions on their own: module WalletLedger.              *)

\* The amounts that callers pass are positive.
LEMMA AmountsPositive == Amounts \subseteq Nat /\ \A x \in Amounts : x > 0
BY WalletLedgerAssumption

\* A user and an asset make an account.
LEMMA AccountPairs == \A u \in Users, m \in Assets : <<u, m>> \in Accounts
BY DEF Accounts

\* Every transaction keeps the tables well typed and is booked.
LEMMA StepBooked ==
  ASSUME TypeOK, Next
  PROVE  TypeOK' /\ Booked
<1> USE AmountsPositive DEF TypeOK
<1>1. ASSUME NEW o \in OrderIds, OrderTransaction(o) PROVE TypeOK' /\ Booked
  <2>1. PICK a \in Accounts, x \in Amounts : LockFunds(a, x, o) \/ ReleaseFunds(a, x, o)
    BY <1>1 DEF OrderTransaction
  <2>2. CASE LockFunds(a, x, o)
    <3>1. a \in rows /\ MoveLocked(a, -x) /\ rows' = rows /\ -x \in Int
      BY <2>2 DEF LockFunds, SufficientBalance
    <3>2. QED
      BY <2>2, <3>1, LockFundsType, MoveLockedBooked
  <2>3. CASE ReleaseFunds(a, x, o)
    <3>1. a \in rows /\ MoveLocked(a, x) /\ rows' = rows /\ x \in Int
      BY <2>3 DEF ReleaseFunds, Releasable
    <3>2. QED
      BY <2>3, <3>1, ReleaseFundsType, MoveLockedBooked
  <2>4. QED
    BY <2>1, <2>2, <2>3
<1>2. ASSUME NEW o \in OrderIds, FillTransaction(o) PROVE TypeOK' /\ Booked
  <2>1. PICK u \in Users, lock \in Assets, sell \in Assets, buy \in Assets,
             x \in Amounts, y \in Amounts, z \in Amounts :
               ProcessFillWithLockRelease(<<u, lock>>, <<u, sell>>, <<u, buy>>, x, y, z, o)
    BY <1>2 DEF FillTransaction
  <2>2. <<u, lock>> \in Accounts /\ <<u, sell>> \in Accounts /\ <<u, buy>> \in Accounts
    BY AccountPairs
  <2>3. QED
    BY <2>1, <2>2, FillType, FillBooked
<1>3. ASSUME NEW a \in Accounts, WalletTransaction(a) PROVE TypeOK' /\ Booked
  <2>1. CASE CreateWallet(a)
    BY <2>1 DEF CreateWallet, LedgerTypeOK, Booked
  <2>2. ASSUME NEW x \in Int, Credit(a, x), UNCHANGED entries,
               rows' = rows \cup {a}
        PROVE  TypeOK' /\ Booked
    <3>1. LedgerTypeOK'
      BY <2>2, CreditType DEF LedgerTypeOK
    <3>2. Booked
      BY <2>2, CreditBooked
    <3>3. QED
      BY <3>1, <3>2
  <2>3. ASSUME NEW x \in Amounts, Deposit(a, x) PROVE TypeOK' /\ Booked
    BY <2>2, <2>3 DEF Deposit
  <2>4. ASSUME NEW x \in Amounts, Withdraw(a, x) PROVE TypeOK' /\ Booked
    <3>1. rows' = rows \cup {a} /\ Credit(a, -x) /\ UNCHANGED entries /\ -x \in Int
      BY <2>4 DEF Withdraw, SufficientBalance
    <3>2. QED
      BY <2>2, <3>1
  <2>5. ASSUME NEW x \in Amounts, Compensate(a, x) PROVE TypeOK' /\ Booked
    BY <2>2, <2>5 DEF Compensate
  <2>6. QED
    BY <1>3, <2>1, <2>3, <2>4, <2>5 DEF WalletTransaction
<1>4. ASSUME NEW a \in Accounts, ReconcileTransaction(a) PROVE TypeOK' /\ Booked
  <2>1. PICK e \in 0..MaxBalance : FixDiscrepancy(a, e)
    BY <1>4 DEF ReconcileTransaction
  <2>2. e - (available[a] + locked[a]) \in Int
    BY WalletLedgerAssumption DEF LedgerTypeOK
  <2>3. /\ Credit(a, e - (available[a] + locked[a]))
        /\ rows' = rows /\ entries' = entries /\ a \in rows
    BY <2>1 DEF FixDiscrepancy
  <2>4. LedgerTypeOK'
    BY <2>2, <2>3, CreditType DEF LedgerTypeOK
  <2>5. Booked
    BY <2>2, <2>3, CreditBooked
  <2>6. QED
    BY <2>4, <2>5
<1>5. QED
  BY <1>1, <1>2, <1>3, <1>4 DEF Next, Call

\* The wallet and ledger tables keep their shape, and no locked balance is negative,
\* for any accounts, amounts and sequence of transactions.
THEOREM WalletLedgerTypes == Spec => []TypeOK
<1>1. LedgerInit => TypeOK
  BY LedgerAssumption DEF LedgerInit, TypeOK, LedgerTypeOK, EntryTypes
<1>2. TypeOK /\ [Next]_ledgerVars => TypeOK'
  <2>1. CASE Next
    BY <2>1, StepBooked
  <2>2. CASE UNCHANGED ledgerVars
    BY <2>2 DEF ledgerVars, TypeOK, LedgerTypeOK
  <2>3. QED
    BY <2>1, <2>2
<1>3. QED
  BY <1>1, <1>2, PTL DEF Spec

\* The ledger explains the wallets: every account's entries add up to the change of
\* its available balance, its lock and release entries to what is locked.
THEOREM WalletLedgerBooks == Spec => []BooksMatch
<1>1. TypeOK /\ BooksMatch /\ [Next]_ledgerVars => BooksMatch'
  <2>1. TypeOK /\ BooksMatch /\ Next => BooksMatch'
    BY StepBooked, BooksStay DEF TypeOK
  <2>2. BooksMatch /\ UNCHANGED ledgerVars => BooksMatch'
    BY DEF ledgerVars, BooksMatch
  <2>3. QED
    BY <2>1, <2>2
<1>2. QED
  BY <1>1, BooksStart, WalletLedgerTypes, PTL DEF Spec

-----------------------------------------------------------------------------

Safe(a) == available'[a] >= 0 \/ available'[a] >= available[a]

\* A change of one account's available balance by x that does not overdraw it.
LEMMA PlusSafe ==
  ASSUME LedgerTypeOK, NEW a \in Accounts, NEW x \in Int,
         available' = Plus(available, a, x), x >= 0 \/ available[a] + x >= 0
  PROVE  \A b \in Accounts : Safe(b)
<1>1. ASSUME NEW b \in Accounts
      PROVE  available'[b] = available[b] + (IF b = a THEN x ELSE 0)
  BY DEF LedgerTypeOK, Plus
<1>2. \A b \in Accounts : available[b] \in Int
  BY DEF LedgerTypeOK
<1>3. QED
  BY <1>1, <1>2 DEF Safe

\* No settlement overdraws the account it sells from.
LEMMA FillSafe ==
  ASSUME LedgerTypeOK, NEW k \in Accounts, NEW s \in Accounts, NEW b \in Accounts,
         NEW x \in Nat, NEW y \in Nat, NEW z \in Nat, NEW o \in OrderIds,
         ProcessFillWithLockRelease(k, s, b, x, y, z, o)
  PROVE  \A c \in Accounts : Safe(c)
<1>1. SUFFICES ASSUME NEW c \in Accounts
               PROVE  Safe(c)
  OBVIOUS
<1> DEFINE f == Plus(available, k, x)
           g == Plus(f, s, -y)
<1>2. available \in [Accounts -> Int] /\ available[c] \in Int
  BY DEF LedgerTypeOK
<1>3. f \in [Accounts -> Int] /\ f[c] >= available[c] /\ f[c] \in Int
  BY <1>2 DEF Plus
<1>4. f[s] >= y /\ available' = Plus(g, b, z)
  BY DEF ProcessFillWithLockRelease, Settleable, Settle
<1> HIDE DEF f
<1>5. g \in [Accounts -> Int] /\ (c # s => g[c] = f[c]) /\ g[s] = f[s] - y /\ g[c] \in Int
  BY <1>3 DEF Plus
<1>6. f[s] \in Int
  BY <1>3
<1> HIDE DEF g
<1>7. g[c] >= 0 \/ g[c] >= available[c]
  BY <1>2, <1>3, <1>4, <1>5, <1>6
<1>8. Plus(g, b, z)[c] >= g[c] /\ Plus(g, b, z)[c] \in Int
  BY <1>5 DEF Plus
<1>9. QED
  BY <1>2, <1>4, <1>5, <1>7, <1>8 DEF Safe

\* No call but a manual correction takes an available balance below zero, for any
\* amounts and any order of calls: the overdraft check and the debit it guards are
\* in one transaction.
THEOREM WalletLedgerNoOverdraft == Spec => NoOverdraft
<1> USE AmountsPositive
<1>1. ASSUME TypeOK, Call, NEW a \in Accounts,
             available'[a] < 0, ~(available'[a] >= available[a])
      PROVE  FALSE
  <2> USE <1>1
  <2>0. Next
    BY DEF Next
  <2>1. LedgerTypeOK /\ available[a] \in Int
    BY DEF TypeOK, LedgerTypeOK
  <2>2. TypeOK' /\ available'[a] \in Int
    BY <2>0, StepBooked DEF TypeOK, LedgerTypeOK
  <2>3. ~Safe(a)
    BY <2>1, <2>2 DEF Safe
  <2>4. ASSUME NEW o \in OrderIds, OrderTransaction(o) PROVE FALSE
    <3>1. PICK b \in Accounts, x \in Amounts : LockFunds(b, x, o) \/ ReleaseFunds(b, x, o)
      BY <2>4 DEF OrderTransaction
    <3>2. available[b] \in Int /\ x \in Int /\ -x \in Int /\ x > 0
      BY <2>1 DEF LedgerTypeOK
    <3>3. CASE LockFunds(b, x, o)
      <4>1. available' = Plus(available, b, -x) /\ available[b] >= x
        BY <3>3 DEF LockFunds, MoveLocked, SufficientBalance
      <4>2. available[b] + (-x) >= 0
        BY <3>2, <4>1
      <4>3. QED
        BY <2>1, <2>3, <3>2, <4>1, <4>2, PlusSafe
    <3>4. CASE ReleaseFunds(b, x, o)
      <4>1. available' = Plus(available, b, x)
        BY <3>4 DEF ReleaseFunds, MoveLocked
      <4>2. QED
        BY <2>1, <2>3, <3>2, <4>1, PlusSafe
    <3>5. QED
      BY <3>1, <3>3, <3>4
  <2>5. ASSUME NEW o \in OrderIds, FillTransaction(o) PROVE FALSE
    <3>1. PICK u \in Users, lock \in Assets, sell \in Assets, buy \in Assets,
               x \in Amounts, y \in Amounts, z \in Amounts :
                 ProcessFillWithLockRelease(<<u, lock>>, <<u, sell>>, <<u, buy>>, x, y, z, o)
      BY <2>5 DEF FillTransaction
    <3>2. <<u, lock>> \in Accounts /\ <<u, sell>> \in Accounts /\ <<u, buy>> \in Accounts
      BY AccountPairs
    <3>3. QED
      BY <2>1, <2>3, <3>1, <3>2, FillSafe
  <2>6. ASSUME NEW b \in Accounts, WalletTransaction(b) PROVE FALSE
    <3>1. CASE CreateWallet(b)
      <4>1. available' = available
        BY <3>1 DEF CreateWallet
      <4>2. QED
        BY <2>1, <2>3, <4>1 DEF Safe
    <3>2. ASSUME NEW x \in Amounts, Deposit(b, x) \/ Compensate(b, x) PROVE FALSE
      <4>1. available' = Plus(available, b, x) /\ x \in Int /\ x >= 0
        BY <3>2 DEF Deposit, Compensate, Credit
      <4>2. QED
        BY <2>1, <2>3, <4>1, PlusSafe
    <3>3. ASSUME NEW x \in Amounts, Withdraw(b, x) PROVE FALSE
      <4>1. available' = Plus(available, b, -x) /\ available[b] >= x
        BY <3>3 DEF Withdraw, Credit, SufficientBalance
      <4>2. available[b] \in Int /\ x \in Int /\ -x \in Int
        BY <2>1 DEF LedgerTypeOK
      <4>3. available[b] + (-x) >= 0
        BY <4>1, <4>2
      <4>4. QED
        BY <2>1, <2>3, <4>1, <4>2, <4>3, PlusSafe
    <3>4. QED
      BY <2>6, <3>1, <3>2, <3>3 DEF WalletTransaction
  <2>7. QED
    BY <2>4, <2>5, <2>6 DEF Call
<1>2. TypeOK => [Call => \A a \in Accounts :
                           available'[a] < 0 => available'[a] >= available[a]]_ledgerVars
  BY <1>1
<1>3. QED
  BY <1>2, WalletLedgerTypes, PTL DEF Spec, NoOverdraft
-----------------------------------------------------------------------------

\* What ReconcileUser reports of an account is what the account started with and what
\* its open orders lock, and never anything else: no transaction is lost from the
\* books, but FixDiscrepancy, which moves wallet and entries together, cannot change
\* the verdict either (reconcile.go:108-109, 168-214).
THEOREM ReconcileVerdict ==
  Spec => [](\A a \in Accounts : Discrepancy(a) = Opening[a] + locked[a])
<1>1. TypeOK /\ BooksMatch => \A a \in Accounts : Discrepancy(a) = Opening[a] + locked[a]
  <2> SUFFICES ASSUME TypeOK, BooksMatch, NEW a \in Accounts
               PROVE  Discrepancy(a) = Opening[a] + locked[a]
    OBVIOUS
  <2>1. /\ available[a] \in Int /\ locked[a] \in Int /\ deltaSum[a] \in Int
        /\ Opening[a] \in Int
    BY LedgerAssumption DEF TypeOK, LedgerTypeOK
  <2>2. deltaSum[a] = available[a] - Opening[a]
    BY DEF BooksMatch
  <2>3. QED
    BY <2>1, <2>2 DEF Discrepancy
<1>2. QED
  BY <1>1, WalletLedgerTypes, WalletLedgerBooks, PTL

-----------------------------------------------------------------------------
(* The user service over them.                                             *)

userWalletsVars == <<ledgerVars, userVars>>

-----------------------------------------------------------------------------
(* The users table and what the handlers know of it.                       *)

\* A request that a handler has in hand is one of the kinds it may be.
LEMMA RequestFields ==
  ASSUME UserTypeOK, NEW h \in Handlers
  PROVE  /\ requests[h].kind = "create" => requests[h].name \in Names
         /\ requests[h].kind = "delete" => requests[h].user \in Users
         /\ requests[h].kind = "wallet" =>
              /\ requests[h].user \in Users
              /\ requests[h] = [kind |-> "wallet", user |-> requests[h].user]
<1>1. requests[h] \in Request
  BY DEF UserTypeOK
<1>2. CASE requests[h] = Idle
  BY <1>2 DEF Idle
<1>3. CASE requests[h] \in [kind : {"create"}, name : Names]
  BY <1>3
<1>4. CASE requests[h] \in [kind : {"delete", "wallet"}, user : Users]
  BY <1>4
<1>5. QED
  BY <1>1, <1>2, <1>3, <1>4 DEF Request

\* A handler ends its request, or begins one of a legal kind.
LEMMA RequestTypes ==
  ASSUME UserTypeOK, NEW h \in Handlers, NEW r \in Request,
         Ends(h) \/ Begin(h, r)
  PROVE  requests' \in [Handlers -> Request]
BY DEF UserTypeOK, Ends, Begin, Request

\* The users table keeps its shape in every step.
LEMMA UserTypes ==
  ASSUME UserTypeOK, [UserWalletsNext]_userWalletsVars
  PROVE  UserTypeOK'
<1>1. ASSUME NEW h \in Handlers, Ends(h), UNCHANGED <<username, deleted>>
      PROVE  UserTypeOK'
  <2>1. Idle \in Request
    BY DEF Request
  <2>2. QED
    BY <1>1, <2>1, RequestTypes DEF UserTypeOK
<1>2. ASSUME NEW h \in Handlers, NEW r \in Request, Begin(h, r),
             UNCHANGED <<username, deleted>>
      PROVE  UserTypeOK'
  BY <1>2, RequestTypes DEF UserTypeOK
<1>3. ASSUME NEW h \in Handlers, UserStep(h) PROVE UserTypeOK'
  <2>1. ASSUME NEW n \in Names, CreateUserCheck(h, n) PROVE UserTypeOK'
    <3>1. [kind |-> "create", name |-> n] \in Request
      BY DEF Request
    <3>2. QED
      BY <1>2, <2>1, <3>1 DEF CreateUserCheck
  <2>2. CASE CreateUser(h)
    <3>1. Idle \in Request /\ requests[h].name \in Names
      BY <2>2, RequestFields DEF CreateUser, Request
    <3>2. username' \in [Users -> Names \cup {NoName}]
      BY <2>2, <3>1 DEF CreateUser, UserTypeOK
    <3>3. requests' \in [Handlers -> Request]
      BY <2>2, <3>1, RequestTypes DEF CreateUser
    <3>4. QED
      BY <2>2, <3>2, <3>3 DEF CreateUser, UserTypeOK
  <2>3. ASSUME NEW u \in Users, DeleteUserCheck(h, u) \/ WalletCheck(h, u)
        PROVE  UserTypeOK'
    <3>1. /\ [kind |-> "delete", user |-> u] \in Request
          /\ [kind |-> "wallet", user |-> u] \in Request
      BY DEF Request
    <3>2. QED
      BY <1>2, <2>3, <3>1 DEF DeleteUserCheck, WalletCheck
  <2>4. CASE DeleteUser(h)
    <3>1. Idle \in Request /\ requests[h].user \in Users
      BY <2>4, RequestFields DEF DeleteUser, Request
    <3>2. requests' \in [Handlers -> Request]
      BY <2>4, <3>1, RequestTypes DEF DeleteUser
    <3>3. QED
      BY <2>4, <3>1, <3>2 DEF DeleteUser, UserTypeOK
  <2>5. CASE GiveUp(h)
    BY <1>1, <2>5 DEF GiveUp
  <2>6. QED
    BY <1>3, <2>1, <2>2, <2>3, <2>4, <2>5 DEF UserStep
<1>4. ASSUME UNCHANGED userVars PROVE UserTypeOK'
  BY <1>4 DEF userVars, UserTypeOK
<1>5. ASSUME NEW h \in Handlers, Serve(h) PROVE UserTypeOK'
  BY <1>1, <1>5 DEF Serve
<1>6. QED
  BY <1>3, <1>4, <1>5 DEF UserWalletsNext, HandlerStep, OrderFlow, userWalletsVars

\* The types that the system starts with.
LEMMA UserInitTypes == UserInit => UserTypeOK
BY UserServiceAssumption DEF UserInit, UserTypeOK, Request

\* No two users ever have one name, whichever creations pass the look-up together
\* and however often it fails, for any number of users, names and handlers.
THEOREM UserWalletsNameIsSpent == UserWalletsSpec => []NameIsSpent
<1>1. UserWalletsInit => UserTypeOK /\ NameIsSpent
  <2>1. UserInit => NameIsSpent
    BY UserServiceAssumption DEF UserInit, NameIsSpent, Row
  <2>2. QED
    BY <2>1, UserInitTypes DEF UserWalletsInit
<1>2. UserTypeOK /\ [UserWalletsNext]_userWalletsVars => UserTypeOK'
  BY UserTypes
<1>3. UserTypeOK /\ NameIsSpent /\ [UserWalletsNext]_userWalletsVars => NameIsSpent'
  <2> SUFFICES ASSUME UserTypeOK, NameIsSpent, [UserWalletsNext]_userWalletsVars
               PROVE  NameIsSpent'
    OBVIOUS
  <2>1. CASE UNCHANGED username
    BY <2>1 DEF NameIsSpent, Row
  <2>2. ASSUME NEW h \in Handlers, CreateUser(h) PROVE NameIsSpent'
    <3> DEFINE n == requests[h].name
    <3>1. PICK u \in Users : ~Row(u) /\ username' = [username EXCEPT ![u] = n]
      BY <2>2 DEF CreateUser
    <3>2. \A v \in Users : username[v] # n
      BY <2>2 DEF CreateUser, NameTaken
    <3>3. \A v \in Users : username'[v] = IF v = u THEN n ELSE username[v]
      BY <3>1 DEF UserTypeOK
    <3> HIDE DEF n
    <3>4. QED
      BY <3>2, <3>3 DEF NameIsSpent, Row
  <2>3. UNCHANGED username \/ \E h \in Handlers : CreateUser(h)
    BY DEF UserWalletsNext, HandlerStep, Serve, OrderFlow, UserStep, CreateUserCheck,
           DeleteUserCheck, DeleteUser, WalletCheck, GiveUp, userVars, userWalletsVars
  <2>4. QED
    BY <2>1, <2>2, <2>3
<1>4. QED
  BY <1>1, <1>2, <1>3, PTL DEF UserWalletsSpec, userWalletsVars
-----------------------------------------------------------------------------
(* The wallets behind the user service are wallets.                         *)

\* What a served request does is one of the ledger's transactions.
LEMMA OperationIsCall ==
  ASSUME NEW a \in Accounts, UserOperation(a)
  PROVE  Call
<1>1. ASSUME NEW x \in Amounts, NEW o \in OrderIds, EntryRoom(o) /\ LockFunds(a, x, o)
      PROVE  Call
  BY <1>1 DEF Call, OrderTransaction
<1>2. QED
  BY <1>1 DEF UserOperation, Call, WalletTransaction

\* So is what the orders and an administrator cause.
LEMMA FlowIsNext ==
  ASSUME OrderFlow
  PROVE  Next
<1>1. Traded \subseteq Accounts
  BY UserWalletsAssumption
<1>2. ASSUME NEW o \in OrderIds, NEW a \in Traded, NEW x \in Amounts,
             EntryRoom(o) /\ ReleaseFunds(a, x, o)
      PROVE  Next
  BY <1>1, <1>2 DEF Next, Call, OrderTransaction
<1>3. QED
  BY <1>1, <1>2 DEF OrderFlow, Next, Call, WalletTransaction

\* The wallets that users reach through their checks live by the ledger's
\* specification, so its theorems hold of them.
THEOREM UserWalletsLedger == UserWalletsSpec => Spec
<1>1. UserWalletsInit => LedgerInit
  BY DEF UserWalletsInit
<1>2. [UserWalletsNext]_userWalletsVars => [Next]_ledgerVars
  <2>1. ASSUME NEW h \in Handlers, Serve(h) PROVE Next
    BY <2>1, OperationIsCall, UserWalletsAssumption DEF Serve, Next
  <2>2. ASSUME NEW h \in Handlers, HandlerStep(h) PROVE [Next]_ledgerVars
    BY <2>1, <2>2 DEF HandlerStep
  <2>3. QED
    BY <2>2, FlowIsNext DEF UserWalletsNext, userWalletsVars
<1>3. QED
  BY <1>1, <1>2, PTL DEF UserWalletsSpec, Spec, userWalletsVars

\* The entries explain the balances of every user's wallets, deleted users' included.
THEOREM UserWalletsBooks == UserWalletsSpec => []BooksMatch
BY UserWalletsLedger, WalletLedgerBooks, PTL

-----------------------------------------------------------------------------
(* The wallets of deleted users.                                            *)

\* A user's operation changes the balances of one account of that user only.
LEMMA OperationElsewhere ==
  ASSUME LedgerTypeOK, NEW a \in Accounts, NEW b \in Accounts, a # b, UserOperation(a)
  PROVE  Balances(b)' = Balances(b)
<1> USE AmountsPositive DEF Balances
<1>0. available \in [Accounts -> Int] /\ locked \in [Accounts -> Int]
  BY DEF LedgerTypeOK
<1>1. CASE CreateWallet(a)
  BY <1>1 DEF CreateWallet
<1>2. ASSUME NEW x \in Int, Credit(a, x), rows' = rows \cup {a} \/ rows' = rows
      PROVE  Balances(b)' = Balances(b)
  BY <1>0, <1>2, PlusType DEF Credit
<1>3. ASSUME NEW x \in Amounts, Deposit(a, x) PROVE Balances(b)' = Balances(b)
  BY <1>2, <1>3 DEF Deposit
<1>4. ASSUME NEW x \in Amounts, Withdraw(a, x) PROVE Balances(b)' = Balances(b)
  <2>1. Credit(a, -x) /\ rows' = rows /\ -x \in Int
    BY <1>4 DEF Withdraw
  <2>2. QED
    BY <1>2, <2>1
<1>5. ASSUME NEW x \in Amounts, NEW o \in OrderIds, LockFunds(a, x, o)
      PROVE  Balances(b)' = Balances(b)
  <2>1. /\ available' = Plus(available, a, -x) /\ locked' = Plus(locked, a, -(-x))
        /\ rows' = rows /\ -x \in Int /\ -(-x) \in Int
    BY <1>5 DEF LockFunds, MoveLocked
  <2>2. available'[b] = available[b]
    BY <1>0, <2>1 DEF Plus
  <2>3. locked'[b] = locked[b]
    BY <1>0, <2>1 DEF Plus
  <2>4. QED
    BY <2>1, <2>2, <2>3
<1>6. QED
  BY <1>1, <1>3, <1>4, <1>5 DEF UserOperation

\* A deleted user of whom no request is left is never looked up again.
LEMMA GoneStays ==
  ASSUME UserTypeOK, [UserWalletsNext]_userWalletsVars, NEW u \in Users, Gone(u)
  PROVE  Gone(u)'
<1> DEFINE Theirs == [kind |-> "wallet", user |-> u]
<1>1. ASSUME NEW h \in Handlers, Ends(h), deleted \subseteq deleted' PROVE Gone(u)'
  <2>1. Idle # Theirs
    BY DEF Idle
  <2>2. \A g \in Handlers : requests'[g] = requests[g] \/ requests'[g] = Idle
    BY <1>1 DEF Ends, UserTypeOK
  <2>3. QED
    BY <1>1, <2>1, <2>2 DEF Gone
<1>2. ASSUME NEW h \in Handlers, NEW r, Begin(h, r), r # Theirs, UNCHANGED deleted
      PROVE  Gone(u)'
  <2>1. \A g \in Handlers : requests'[g] = requests[g] \/ requests'[g] = r
    BY <1>2 DEF Begin, UserTypeOK
  <2>2. QED
    BY <1>2, <2>1 DEF Gone
<1>3. ASSUME NEW h \in Handlers, UserStep(h) PROVE Gone(u)'
  <2>1. ASSUME NEW n \in Names, CreateUserCheck(h, n) PROVE Gone(u)'
    BY <1>2, <2>1 DEF CreateUserCheck
  <2>2. ASSUME NEW v \in Users, DeleteUserCheck(h, v) PROVE Gone(u)'
    BY <1>2, <2>2 DEF DeleteUserCheck
  <2>3. ASSUME NEW v \in Users, WalletCheck(h, v) PROVE Gone(u)'
    <3>1. v # u
      BY <2>3 DEF WalletCheck, GetByID, Gone
    <3>2. [kind |-> "wallet", user |-> v] # Theirs
      BY <3>1
    <3>3. QED
      BY <1>2, <2>3, <3>2 DEF WalletCheck
  <2>4. QED
    BY <1>1, <1>3, <2>1, <2>2, <2>3 DEF UserStep, CreateUser, DeleteUser, GiveUp
<1>4. CASE UNCHANGED userVars
  BY <1>4 DEF userVars, Gone
<1>5. ASSUME NEW h \in Handlers, Serve(h) PROVE Gone(u)'
  BY <1>1, <1>5 DEF Serve
<1>6. QED
  BY <1>3, <1>4, <1>5 DEF UserWalletsNext, HandlerStep, OrderFlow, userWalletsVars

\* A handler serves nobody who is gone.
LEMMA GoneUnserved ==
  ASSUME UserTypeOK, LedgerTypeOK, NEW b \in Accounts, Gone(b[1]),
         NEW h \in Handlers, HandlerStep(h)
  PROVE  Balances(b)' = Balances(b)
<1>1. CASE Serve(h)
  <2>1. PICK a \in Traded : a[1] = requests[h].user /\ UserOperation(a)
    BY <1>1 DEF Serve
  <2>2. requests[h] = [kind |-> "wallet", user |-> requests[h].user]
    BY <1>1, RequestFields DEF Serve
  <2>3. requests[h] # [kind |-> "wallet", user |-> b[1]]
    BY DEF Gone
  <2>4. a # b
    BY <2>1, <2>2, <2>3
  <2>5. QED
    BY <2>1, <2>4, OperationElsewhere, UserWalletsAssumption
<1>2. CASE UNCHANGED ledgerVars
  BY <1>2 DEF ledgerVars, Balances
<1>3. QED
  BY <1>1, <1>2 DEF HandlerStep

\* Once a user is gone no handler ever moves what the user's wallets hold, for any
\* number of users, handlers and requests under way when the user was deleted.
THEOREM UserWalletsDeletedFrozen == UserWalletsSpec => DeletedFrozen
<1>1. UserWalletsInit => UserTypeOK
  BY UserInitTypes DEF UserWalletsInit
<1>2. UserTypeOK /\ [UserWalletsNext]_userWalletsVars => UserTypeOK'
  BY UserTypes
<1>3. ASSUME TypeOK, UserTypeOK, [UserWalletsNext]_userWalletsVars
      PROVE  [\A a \in Accounts :
                Gone(a[1]) => Gone(a[1])' /\ (Balances(a)' = Balances(a) \/ OrderFlow)
             ]_<<ledgerVars, userVars>>
  <2> SUFFICES ASSUME UserWalletsNext, NEW a \in Accounts, Gone(a[1])
               PROVE  Gone(a[1])' /\ (Balances(a)' = Balances(a) \/ OrderFlow)
    BY <1>3 DEF userWalletsVars
  <2>1. a[1] \in Users
    BY DEF Accounts
  <2>2. Gone(a[1])'
    BY <1>3, <2>1, GoneStays
  <2>3. LedgerTypeOK
    BY <1>3 DEF TypeOK
  <2>4. Balances(a)' = Balances(a) \/ OrderFlow
    BY <1>3, <2>3, GoneUnserved DEF UserWalletsNext
  <2>5. QED
    BY <2>2, <2>4
<1>4. QED
  BY <1>1, <1>2, <1>3, UserWalletsLedger, WalletLedgerTypes, PTL
     DEF UserWalletsSpec, DeletedFrozen, userWalletsVars
=============================================================================
