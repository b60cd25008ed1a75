--------------------------- MODULE WalletTx_proofs ---------------------------
(***************************************************************************)
(* The statements of the wallet transactions, for any number of users,     *)
(* assets, transactions and connections: a row has one holder, each        *)
(* transaction is one operation of the ledger or none, so the books match, *)
(* and only deposits that have used up the pool ever wait for each other   *)
(* in a circle.                                                            *)
(***************************************************************************)
EXTENDS WalletTx, Ledger_proofs, Sums_proofs

\* The rows a transaction holds, and those it is to hold before it writes.
Holds(t) == {a \in Accounts : t \in holder[a]}
Named(t) == IF Job[t].kind = "fill" THEN {Job[t].account, Job[t].buy}
            ELSE {Job[t].account}

\* No balance is overdrawn: the ledger's checks see to it.
Solvent == \A a \in Accounts : available[a] >= 0

\* The rows t holds and the rows it has yet to lock are the two parts of its order.
Stage(t) ==
  \/ todo[t] = LockOrder(t) /\ Holds(t) = {}
  \/ todo[t] = Tail(LockOrder(t)) /\ Holds(t) = {Head(LockOrder(t))}
  \/ todo[t] = <<>> /\ Holds(t) = Named(t)

LocksInOrder ==
  \A t \in Txs :
    /\ pc[t] \in {"new", "checked", "begun", "found"} => todo[t] = LockOrder(t)
    /\ pc[t] = "locking" => Stage(t)

\* Who inserts a row, and who is still to find out.
InsertsKnown ==
  \A t \in Txs :
    /\ inserts[t] => Job[t].kind \in {"create", "deposit"}
    /\ Job[t].kind = "create" /\ pc[t] \in {"checked", "begun", "found", "locking"}
       => inserts[t]
    /\ pc[t] = "begun" => Job[t].kind = "deposit"

\* The row's holder has read it as it is, or is about to insert it.
HeldRows ==
  \A a \in Accounts : \A t \in holder[a] :
    /\ holder[a] = {t}
    /\ pc[t] = "locking"
    /\ inserts[t] <=> a \notin rows
    /\ ~inserts[t] => read[t][a] = [available |-> available[a], locked |-> locked[a]]

Inv == TypeOK /\ Solvent /\ LocksInOrder /\ InsertsKnown /\ HeldRows

-----------------------------------------------------------------------------
(* Jobs and the order of their locks.                                       *)

\* The parts of a job.
LEMMA JobTypes ==
  ASSUME NEW t \in Txs
  PROVE  /\ Job[t].account \in Accounts /\ Job[t].amount \in Nat \ {0}
         /\ Job[t].order \in OrderIds
         /\ Job[t].kind \in {"create", "deposit", "withdraw", "lock", "release", "fill"}
         /\ Job[t].kind = "fill" =>
              /\ Job[t].buy \in Accounts /\ Job[t].out \in Nat
              /\ Job[t].buy[1] = Job[t].account[1] /\ Job[t].buy # Job[t].account
BY WalletTxAssumption DEF Jobs

\* A job has one row to lock, or a fill two in the order of their assets.
LEMMA LockOrders ==
  ASSUME NEW t \in Txs
  PROVE  \/ /\ LockOrder(t) = <<Job[t].account>>
            /\ Named(t) = {Job[t].account}
         \/ \E x, y \in Accounts :
              /\ LockOrder(t) = <<x, y>> /\ Named(t) = {x, y} /\ x # y
              /\ Rank[x[2]] < Rank[y[2]]
<1>1. CASE Job[t].kind # "fill"
  BY <1>1 DEF LockOrder, AsNamed, Named
<1>2. CASE Job[t].kind = "fill"
  <2> DEFINE s == Job[t].account  b == Job[t].buy
  <2>1. s \in Accounts /\ b \in Accounts /\ b[1] = s[1] /\ b # s
    BY <1>2, JobTypes
  <2>2. s[2] \in Assets /\ b[2] \in Assets /\ b[2] # s[2]
    BY <2>1 DEF Accounts
  <2>3. Rank[s[2]] \in Nat /\ Rank[b[2]] \in Nat /\ Rank[s[2]] # Rank[b[2]]
    BY <2>2, WalletTxAssumption
  <2>4. Named(t) = {s, b} /\ Named(t) = {b, s}
    BY <1>2 DEF Named
  <2>5. CASE Rank[b[2]] < Rank[s[2]]
    <3>1. LockOrder(t) = <<b, s>>
      BY <1>2, <2>5 DEF LockOrder
    <3>2. QED
      BY <2>1, <2>4, <2>5, <3>1
  <2>6. CASE ~(Rank[b[2]] < Rank[s[2]])
    <3>1. LockOrder(t) = <<s, b>>
      BY <1>2, <2>6 DEF LockOrder, AsNamed
    <3>2. QED
      BY <2>1, <2>3, <2>4, <2>6, <3>1
  <2>7. QED
    BY <2>5, <2>6
<1>3. QED
  BY <1>1, <1>2

\* The first and the other elements of one or two.
LEMMA Pairs ==
  ASSUME NEW S, NEW x \in S, NEW y \in S
  PROVE  /\ <<x>> \in Seq(S) /\ <<x>> # <<>> /\ Head(<<x>>) = x /\ Tail(<<x>>) = <<>>
         /\ <<x, y>> \in Seq(S) /\ <<x, y>> # <<>>
         /\ Head(<<x, y>>) = x /\ Tail(<<x, y>>) = <<y>>
OBVIOUS

\* What Tail leaves of a lock order is a sequence of accounts.
LEMMA LockOrderType ==
  ASSUME NEW t \in Txs
  PROVE  LockOrder(t) \in Seq(Accounts) /\ LockOrder(t) # <<>>
<1>1. Job[t].account \in Accounts
  BY JobTypes
<1>2. CASE LockOrder(t) = <<Job[t].account>>
  BY <1>1, <1>2
<1>3. ASSUME NEW x \in Accounts, NEW y \in Accounts, LockOrder(t) = <<x, y>>
      PROVE  LockOrder(t) \in Seq(Accounts) /\ LockOrder(t) # <<>>
  BY <1>3
<1>4. QED
  BY <1>2, <1>3, LockOrders

\* The next row to lock is none of those held, and of a higher rank; with it the
\* transaction comes to its next stage.
LEMMA NextStage ==
  ASSUME NEW t \in Txs, Stage(t), todo[t] # <<>>, NEW a, a = Head(todo[t])
  PROVE  /\ a \in Accounts
         /\ \A b \in Holds(t) : Rank[b[2]] < Rank[a[2]]
         /\ Tail(todo[t]) \in Seq(Accounts)
         /\ \/ /\ Tail(todo[t]) = Tail(LockOrder(t))
               /\ Holds(t) \cup {a} = {Head(LockOrder(t))}
            \/ Tail(todo[t]) = <<>> /\ Holds(t) \cup {a} = Named(t)
<1>0. <<>> \in Seq(Accounts) /\ Job[t].account \in Accounts
  BY JobTypes
<1>1. CASE LockOrder(t) = <<Job[t].account>> /\ Named(t) = {Job[t].account}
  <2>1. /\ Head(LockOrder(t)) = Job[t].account /\ Tail(LockOrder(t)) = <<>>
        /\ LockOrder(t) # <<>>
    BY <1>0, <1>1
  <2>2. todo[t] = LockOrder(t) /\ Holds(t) = {}
    BY <2>1 DEF Stage
  <2>3. QED
    BY <1>0, <1>1, <2>1, <2>2
<1>2. ASSUME NEW x \in Accounts, NEW y \in Accounts,
             LockOrder(t) = <<x, y>>, Named(t) = {x, y}, Rank[x[2]] < Rank[y[2]]
      PROVE  /\ a \in Accounts
             /\ \A b \in Holds(t) : Rank[b[2]] < Rank[a[2]]
             /\ Tail(todo[t]) \in Seq(Accounts)
             /\ \/ /\ Tail(todo[t]) = Tail(LockOrder(t))
                   /\ Holds(t) \cup {a} = {Head(LockOrder(t))}
                \/ Tail(todo[t]) = <<>> /\ Holds(t) \cup {a} = Named(t)
  <2>1. /\ Head(LockOrder(t)) = x /\ Tail(LockOrder(t)) = <<y>>
        /\ Head(<<y>>) = y /\ Tail(<<y>>) = <<>> /\ <<y>> \in Seq(Accounts)
    BY <1>2, Pairs
  <2>2. CASE todo[t] = LockOrder(t) /\ Holds(t) = {}
    BY <2>1, <2>2
  <2>3. CASE todo[t] = Tail(LockOrder(t)) /\ Holds(t) = {Head(LockOrder(t))}
    BY <1>0, <1>2, <2>1, <2>3
  <2>4. QED
    BY <2>2, <2>3 DEF Stage
<1>3. QED
  BY <1>1, <1>2, LockOrders

\* Nothing left to lock: everything named is held.
LEMMA LastStage ==
  ASSUME NEW t \in Txs, Stage(t), todo[t] = <<>>
  PROVE  Holds(t) = Named(t)
<1>1. CASE LockOrder(t) = <<Job[t].account>> /\ Named(t) = {Job[t].account}
  <2>1. /\ Head(LockOrder(t)) = Job[t].account /\ LockOrder(t) # <<>>
    BY <1>1, JobTypes
  <2>2. QED
    BY <1>1, <2>1 DEF Stage
<1>2. ASSUME NEW x \in Accounts, NEW y \in Accounts, LockOrder(t) = <<x, y>>
      PROVE  Holds(t) = Named(t)
  <2>1. LockOrder(t) # <<>> /\ Tail(LockOrder(t)) = <<y>> /\ <<y>> # <<>>
    BY <1>2, Pairs
  <2>2. QED
    BY <2>1 DEF Stage
<1>3. QED
  BY <1>1, <1>2, LockOrders

-----------------------------------------------------------------------------
(* A commit is an operation of the ledger.                                  *)

\* The checks were made on the balances that are changed.
LEMMA CommitIsOperation ==
  ASSUME Inv, NEW t \in Txs, Commit(t)
  PROVE  Operation(t)
<1> DEFINE a == Job[t].account  x == Job[t].amount
<1>1. pc[t] = "locking" /\ Holds(t) = Named(t)
  BY LastStage DEF Inv, LocksInOrder, Commit
<1>2. a \in Accounts /\ a \in Named(t) /\ t \in holder[a]
  BY <1>1, JobTypes DEF Named, Holds
<1>3. /\ inserts[t] <=> a \notin rows
      /\ ~inserts[t] => read[t][a] = [available |-> available[a], locked |-> locked[a]]
  BY <1>2 DEF Inv, HeldRows
<1>4. ~inserts[t] => read[t][a].available = available[a] /\ read[t][a].locked = locked[a]
  BY <1>3
<1>5. Allowed(t) /\ Writes(t)
  BY DEF Commit
<1>6. CASE Job[t].kind = "create"
  BY <1>1, <1>3, <1>5, <1>6 DEF Inv, InsertsKnown, Writes, Operation, CreateWallet
<1>7. CASE Job[t].kind = "deposit"
  BY <1>5, <1>7 DEF Writes, Operation, Deposit
<1>8. CASE Job[t].kind \in {"withdraw", "lock", "release", "fill"}
  <2>1. ~inserts[t] /\ a \in rows
    BY <1>3, <1>8 DEF Inv, InsertsKnown
  <2>2. CASE Job[t].kind = "withdraw"
    <3>1. available[a] >= x
      BY <1>4, <1>5, <2>1, <2>2 DEF Allowed
    <3>2. QED
      BY <1>5, <2>1, <2>2, <3>1 DEF Writes, Operation, Withdraw, SufficientBalance
  <2>3. CASE Job[t].kind = "lock"
    <3>1. available[a] >= x
      BY <1>4, <1>5, <2>1, <2>3 DEF Allowed
    <3>2. QED
      BY <1>5, <2>1, <2>3, <3>1 DEF Writes, Operation, LockFunds, SufficientBalance
  <2>4. CASE Job[t].kind = "release"
    <3>1. locked[a] >= x
      BY <1>4, <1>5, <2>1, <2>4 DEF Allowed
    <3>2. QED
      BY <1>5, <2>1, <2>4, <3>1 DEF Writes, Operation, ReleaseFunds, Releasable
  <2>5. CASE Job[t].kind = "fill"
    <3>1. locked[a] >= x
      BY <1>4, <1>5, <2>1, <2>5 DEF Allowed
    <3>2. Job[t].buy \in Accounts /\ t \in holder[Job[t].buy]
      BY <1>1, <2>5, JobTypes DEF Named, Holds
    <3>3. Job[t].buy \in rows
      BY <2>1, <3>2 DEF Inv, HeldRows
    <3>4. Plus(available, a, x)[a] >= x
      <4>1. available \in [Accounts -> Int] /\ available[a] >= 0 /\ x \in Int
        BY <1>2, JobTypes DEF Inv, TypeOK, LedgerTypeOK, Solvent
      <4>2. Plus(available, a, x)[a] = available[a] + x
        BY <1>2, <4>1 DEF Plus
      <4>3. QED
        BY <1>2, <4>1, <4>2
    <3>5. Settleable(a, a, Job[t].buy, x, x)
      BY <2>1, <3>1, <3>3, <3>4 DEF Settleable
    <3>6. QED
      BY <1>5, <2>5, <3>5 DEF Writes, Operation, ProcessFillWithLockRelease
  <2>6. QED
    BY <1>8, <2>2, <2>3, <2>4, <2>5
<1>9. QED
  BY <1>6, <1>7, <1>8, JobTypes

\* An operation changes the balances and the rows of the accounts it names only; it
\* keeps the tables well typed and overdraws nothing.
LEMMA OperationEffect ==
  ASSUME LedgerTypeOK, Solvent, NEW t \in Txs, Operation(t)
  PROVE  /\ LedgerTypeOK' /\ Solvent'
         /\ \A b \in Accounts \ Named(t) :
              /\ available'[b] = available[b] /\ locked'[b] = locked[b]
              /\ b \in rows' <=> b \in rows
<1> DEFINE a == Job[t].account  x == Job[t].amount  o == Job[t].order
           c == Job[t].buy  z == Job[t].out
<1> DEFINE Effect == /\ LedgerTypeOK' /\ Solvent'
                     /\ \A b \in Accounts \ Named(t) :
                          /\ available'[b] = available[b] /\ locked'[b] = locked[b]
                          /\ b \in rows' <=> b \in rows
<1>1. /\ a \in Accounts /\ x \in Nat /\ x > 0 /\ -x \in Int /\ o \in OrderIds
      /\ a \in Named(t)
  BY JobTypes DEF Named
<1>2. /\ available \in [Accounts -> Int] /\ locked \in [Accounts -> Nat]
      /\ \A b \in Accounts : available[b] >= 0
  BY DEF LedgerTypeOK, Solvent
<1>3. CASE CreateWallet(a)
  BY <1>1, <1>2, <1>3 DEF CreateWallet, LedgerTypeOK, Solvent
<1>4. ASSUME NEW y \in Int, Credit(a, y), available[a] + y >= 0,
             rows' = rows \/ rows' = rows \cup {a}, UNCHANGED entries
      PROVE  Effect
  <2>1. /\ available' = [available EXCEPT ![a] = available[a] + y]
        /\ UNCHANGED <<locked, lockSum>>
    BY <1>4 DEF Credit, Plus
  <2>2. \A b \in Accounts :
          /\ available'[b] = IF b = a THEN available[a] + y ELSE available[b]
          /\ locked'[b] = locked[b]
    BY <1>1, <1>2, <2>1
  <2>3. Solvent'
    BY <1>2, <1>4, <2>2 DEF Solvent
  <2>4. LedgerTypeOK'
    BY <1>1, <1>4, CreditType DEF LedgerTypeOK
  <2>5. QED
    BY <1>1, <1>4, <2>2, <2>3, <2>4
<1>5. CASE Deposit(a, x)
  <2>1. available[a] + x >= 0
    BY <1>1, <1>2
  <2>2. QED
    BY <1>1, <1>4, <1>5, <2>1 DEF Deposit
<1>6. CASE Withdraw(a, x)
  <2>1. available[a] + (-x) >= 0
    BY <1>1, <1>2, <1>6 DEF Withdraw, SufficientBalance
  <2>2. QED
    BY <1>1, <1>4, <1>6, <2>1 DEF Withdraw
<1>7. ASSUME NEW y \in Int, MoveLocked(a, y), available[a] + y >= 0, UNCHANGED rows,
             LedgerTypeOK'
      PROVE  Effect
  <2>1. /\ available' = [available EXCEPT ![a] = available[a] + y]
        /\ locked' = [locked EXCEPT ![a] = locked[a] + (-y)]
    BY <1>7 DEF MoveLocked, Plus
  <2>2. \A b \in Accounts :
          /\ available'[b] = IF b = a THEN available[a] + y ELSE available[b]
          /\ b # a => locked'[b] = locked[b]
    BY <1>1, <1>2, <2>1
  <2>3. Solvent'
    BY <1>2, <1>7, <2>2 DEF Solvent
  <2>4. QED
    BY <1>1, <1>7, <2>2, <2>3
<1>8. CASE LockFunds(a, x, o)
  <2>1. available[a] + (-x) >= 0
    BY <1>1, <1>2, <1>8 DEF LockFunds, SufficientBalance
  <2>2. LedgerTypeOK'
    BY <1>1, <1>8, LockFundsType
  <2>3. QED
    BY <1>1, <1>7, <1>8, <2>1, <2>2 DEF LockFunds
<1>9. CASE ReleaseFunds(a, x, o)
  <2>1. available[a] + x >= 0
    BY <1>1, <1>2
  <2>2. LedgerTypeOK'
    BY <1>1, <1>9, ReleaseFundsType
  <2>3. QED
    BY <1>1, <1>7, <1>9, <2>1, <2>2 DEF ReleaseFunds
<1>10. CASE Job[t].kind = "fill" /\ ProcessFillWithLockRelease(a, a, c, x, x, z, o)
  <2>1. c \in Accounts /\ z \in Nat /\ c # a /\ Named(t) = {a, c}
    BY <1>10, JobTypes DEF Named
  <2>2. LedgerTypeOK'
    BY <1>1, <1>10, <2>1, FillType
  <2>3. /\ available' = Plus(Plus(Plus(available, a, x), a, -x), c, z)
        /\ locked' = Plus(locked, a, -x) /\ rows' = rows
    BY <1>10 DEF ProcessFillWithLockRelease, Settle
  <2>4. \A b \in Accounts :
          available'[b] = IF b = c THEN available[c] + z ELSE available[b]
    BY <1>1, <1>2, <2>1, <2>3 DEF Plus
  <2>5. \A b \in Accounts : b # a => locked'[b] = locked[b]
    BY <1>1, <1>2, <2>3 DEF Plus
  <2>6. Solvent'
    BY <1>2, <2>1, <2>4 DEF Solvent
  <2>7. QED
    BY <2>1, <2>2, <2>3, <2>4, <2>5, <2>6
<1>11. QED
  BY <1>3, <1>5, <1>6, <1>8, <1>9, <1>10 DEF Operation

-----------------------------------------------------------------------------
(* Each part of the invariant under every step.                             *)

\* A new value of one transaction's entry in a table of transactions.
LEMMA Entered ==
  ASSUME NEW S, NEW f \in [Txs -> S], NEW t \in Txs, NEW v \in S
  PROVE  /\ [f EXCEPT ![t] = v] \in [Txs -> S]
         /\ [f EXCEPT ![t] = v][t] = v
         /\ \A u \in Txs : u # t => [f EXCEPT ![t] = v][u] = f[u]
OBVIOUS

\* What COMMIT and ROLLBACK do to the variables of the transactions.
LEMMA EndsType ==
  ASSUME TypeOK, NEW t \in Txs, NEW to \in Pcs, Ends(t, to)
  PROVE  /\ pc' \in [Txs -> Pcs] /\ todo' \in [Txs -> Seq(Accounts)]
         /\ inserts' \in [Txs -> BOOLEAN]
         /\ snapshot' \in [Txs -> [Accounts -> Nat]]
         /\ read' \in [Txs -> [Accounts -> Balance]]
         /\ holder' \in [Accounts -> SUBSET Txs]
<1>1. <<>> \in Seq(Accounts) /\ NoSnapshot \in [Accounts -> Nat]
  BY DEF NoSnapshot
<1>2. NothingRead \in [Accounts -> Balance]
  BY DEF NothingRead, Balance
<1>3. /\ pc' \in [Txs -> Pcs] /\ todo' \in [Txs -> Seq(Accounts)]
      /\ inserts' \in [Txs -> BOOLEAN]
  BY <1>1 DEF TypeOK, Ends, Goes
<1>4. snapshot' \in [Txs -> [Accounts -> Nat]] /\ read' \in [Txs -> [Accounts -> Balance]]
  BY <1>1, <1>2 DEF TypeOK, Ends
<1>5. holder' \in [Accounts -> SUBSET Txs]
  BY DEF TypeOK, Ends
<1>6. QED
  BY <1>3, <1>4, <1>5

\* Every step keeps the types and overdraws nothing.
LEMMA StepTypes ==
  ASSUME Inv, [Next]_vars
  PROVE  TypeOK' /\ Solvent'
<1>0. TypeOK /\ Solvent /\ LedgerTypeOK
  BY DEF Inv, TypeOK
<1>1. CASE UNCHANGED vars
  BY <1>0, <1>1 DEF vars, txVars, ledgerVars, TypeOK, LedgerTypeOK, Solvent
<1>2. ASSUME UNCHANGED ledgerVars PROVE LedgerTypeOK' /\ Solvent'
  BY <1>0, <1>2 DEF ledgerVars, LedgerTypeOK, Solvent
<1>3. ASSUME NEW t \in Txs, Aborts(t) PROVE TypeOK' /\ Solvent'
  BY <1>0, <1>2, <1>3, EndsType DEF Aborts, Pcs, TypeOK
<1>4. ASSUME NEW t \in Txs, CheckWallet(t) PROVE TypeOK' /\ Solvent'
  BY <1>0, <1>2, <1>4 DEF CheckWallet, Goes, Pcs, TypeOK
<1>5. ASSUME NEW t \in Txs, Begin(t) PROVE TypeOK' /\ Solvent'
  BY <1>0, <1>2, <1>5 DEF Begin, Goes, Pcs, TypeOK
<1>6. ASSUME NEW t \in Txs, FindWallet(t) PROVE TypeOK' /\ Solvent'
  BY <1>0, <1>2, <1>6 DEF FindWallet, Goes, Pcs, TypeOK
<1>7. ASSUME NEW t \in Txs, FirstStatement(t) PROVE TypeOK' /\ Solvent'
  BY <1>0, <1>2, <1>7 DEF FirstStatement, Goes, Pcs, TypeOK
<1>8. ASSUME NEW t \in Txs, pc[t] = "locking", todo[t] # <<>>
      PROVE  Head(todo[t]) \in Accounts /\ Tail(todo[t]) \in Seq(Accounts)
  BY <1>8, NextStage DEF Inv, LocksInOrder
<1>9. ASSUME NEW t \in Txs, LockRow(t), ~Aborts(t) PROVE TypeOK' /\ Solvent'
  <2> DEFINE a == Head(todo[t])
             row == [available |-> available[a], locked |-> locked[a]]
  <2>1. /\ a \in Accounts /\ Tail(todo[t]) \in Seq(Accounts)
        /\ holder' = [holder EXCEPT ![a] = {t}]
        /\ read' = [read EXCEPT ![t][a] = row]
        /\ todo' = [todo EXCEPT ![t] = Tail(@)]
        /\ UNCHANGED <<pc, inserts, snapshot, version, ledgerVars>>
    BY <1>8, <1>9 DEF LockRow
  <2>2. row \in Balance
    BY <1>0, <2>1 DEF LedgerTypeOK, Balance
  <2>3. read' \in [Txs -> [Accounts -> Balance]]
    BY <1>0, <2>1, <2>2 DEF TypeOK
  <2>4. holder' \in [Accounts -> SUBSET Txs] /\ todo' \in [Txs -> Seq(Accounts)]
    BY <1>0, <2>1 DEF TypeOK
  <2>5. QED
    BY <1>0, <1>2, <2>1, <2>3, <2>4 DEF TypeOK
<1>10. ASSUME NEW t \in Txs, InsertRow(t), ~Aborts(t) PROVE TypeOK' /\ Solvent'
  <2>1. /\ Head(todo[t]) \in Accounts /\ Tail(todo[t]) \in Seq(Accounts)
        /\ holder' = [holder EXCEPT ![Head(todo[t])] = {t}]
        /\ todo' = [todo EXCEPT ![t] = Tail(@)]
        /\ UNCHANGED <<pc, inserts, snapshot, read, version, ledgerVars>>
    BY <1>8, <1>10 DEF InsertRow
  <2>2. QED
    BY <1>0, <1>2, <2>1 DEF TypeOK
<1>11. ASSUME NEW t \in Txs, Commit(t) PROVE TypeOK' /\ Solvent'
  <2>1. LedgerTypeOK' /\ Solvent'
    BY <1>0, <1>11, CommitIsOperation, OperationEffect
  <2>2. version' \in [Accounts -> Nat]
    BY <1>0, <1>11 DEF TypeOK, Commit
  <2>3. Ends(t, "committed") /\ "committed" \in Pcs
    BY <1>11 DEF Commit, Pcs
  <2>4. QED
    BY <1>0, <2>1, <2>2, <2>3, EndsType DEF TypeOK
<1>12. QED
  BY <1>1, <1>3, <1>4, <1>5, <1>6, <1>7, <1>9, <1>10, <1>11
     DEF Next, Step, Refuse, TimeOut

\* A step ends a transaction, or comes before its first lock, or takes its next one.
LEMMA StepKinds ==
  ASSUME NEW t \in Txs, Step(t) \/ TimeOut(t)
  PROVE  \/ \E to \in Ended : Ends(t, to)
         \/ CheckWallet(t) \/ Begin(t) \/ FindWallet(t) \/ FirstStatement(t)
         \/ (LockRow(t) \/ InsertRow(t)) /\ ~Aborts(t)
BY DEF Step, Commit, Refuse, TimeOut, Aborts, Ended

\* What the end of a transaction leaves to the others, and that it holds nothing then.
LEMMA EndsEffect ==
  ASSUME TypeOK, NEW t \in Txs, NEW to \in Ended, Ends(t, to)
  PROVE  /\ pc'[t] \in Ended /\ inserts'[t] = FALSE
         /\ \A a \in Accounts : holder'[a] = holder[a] \ {t}
         /\ \A u \in Txs \ {t} :
              /\ pc'[u] = pc[u] /\ todo'[u] = todo[u] /\ inserts'[u] = inserts[u]
              /\ read'[u] = read[u] /\ Holds(u)' = Holds(u)
<1>1. pc'[t] \in Ended /\ inserts'[t] = FALSE
  BY DEF TypeOK, Ends, Goes
<1>2. \A a \in Accounts : holder'[a] = holder[a] \ {t}
  BY DEF Ends
<1>3. ASSUME NEW u \in Txs \ {t}
      PROVE  /\ pc'[u] = pc[u] /\ todo'[u] = todo[u] /\ inserts'[u] = inserts[u]
             /\ read'[u] = read[u]
  BY <1>3 DEF TypeOK, Ends, Goes
<1>4. ASSUME NEW u \in Txs \ {t} PROVE Holds(u)' = Holds(u)
  BY <1>2, <1>4 DEF Holds
<1>5. QED
  BY <1>1, <1>2, <1>3, <1>4

\* What the statement that locks or inserts the next row does.
LEMMA LockEffect ==
  ASSUME Inv, NEW t \in Txs, LockRow(t) \/ InsertRow(t), ~Aborts(t),
         NEW a, a = Head(todo[t])
  PROVE  /\ a \in Accounts /\ holder[a] = {} /\ pc[t] = "locking"
         /\ inserts[t] <=> a \notin rows
         /\ holder' = [holder EXCEPT ![a] = {t}]
         /\ todo' = [todo EXCEPT ![t] = Tail(todo[t])]
         /\ ~inserts[t] => read' = [read EXCEPT ![t][a] = [available |-> available[a],
                                                            locked |-> locked[a]]]
         /\ inserts[t] => read' = read
         /\ UNCHANGED <<pc, inserts, ledgerVars>>
         /\ Stage(t)'
<1>1. Stage(t) /\ todo[t] # <<>>
  BY DEF Inv, LocksInOrder, LockRow, InsertRow
<1>2. /\ a \in Accounts
      /\ \/ /\ Tail(todo[t]) = Tail(LockOrder(t))
            /\ Holds(t) \cup {a} = {Head(LockOrder(t))}
         \/ Tail(todo[t]) = <<>> /\ Holds(t) \cup {a} = Named(t)
  BY <1>1, NextStage
<1>3. /\ holder[a] = {} /\ pc[t] = "locking"
      /\ inserts[t] <=> a \notin rows
      /\ holder' = [holder EXCEPT ![a] = {t}]
      /\ todo' = [todo EXCEPT ![t] = Tail(todo[t])]
      /\ ~inserts[t] => read' = [read EXCEPT ![t][a] = [available |-> available[a],
                                                         locked |-> locked[a]]]
      /\ inserts[t] => read' = read
      /\ UNCHANGED <<pc, inserts, ledgerVars>>
  BY DEF LockRow, InsertRow
<1>4. Holds(t)' = Holds(t) \cup {a}
  BY <1>2, <1>3 DEF Holds, Inv, TypeOK
<1>5. todo'[t] = Tail(todo[t])
  BY <1>3 DEF Inv, TypeOK
<1>6. Stage(t)'
  BY <1>2, <1>4, <1>5 DEF Stage
<1>7. QED
  BY <1>2, <1>3, <1>6

\* The steps that come before a transaction's first lock move it alone.
LEMMA EarlyEffect ==
  ASSUME Inv, NEW t \in Txs,
         CheckWallet(t) \/ Begin(t) \/ FindWallet(t) \/ FirstStatement(t)
  PROVE  /\ pc[t] \in {"new", "checked", "begun", "found"}
         /\ UNCHANGED <<todo, read, holder, ledgerVars>>
         /\ \A u \in Txs \ {t} : pc'[u] = pc[u] /\ inserts'[u] = inserts[u]
BY DEF Inv, TypeOK, CheckWallet, Begin, FindWallet, FirstStatement, MayBegin, Goes

\* A transaction that is not yet locking holds nothing.
LEMMA HoldsNothing ==
  ASSUME Inv, NEW t \in Txs, pc[t] # "locking"
  PROVE  Holds(t) = {}
BY DEF Inv, HeldRows, Holds

\* Rows are locked one after the other in the order of LockOrder, by every step.
LEMMA StepLocksInOrder ==
  ASSUME Inv, [Next]_vars
  PROVE  LocksInOrder'
<1> SUFFICES ASSUME NEW u \in Txs
             PROVE  /\ pc'[u] \in {"new", "checked", "begun", "found"}
                       => todo'[u] = LockOrder(u)
                    /\ pc'[u] = "locking" => Stage(u)'
  BY DEF LocksInOrder
<1>0. TypeOK /\ LocksInOrder
  BY DEF Inv
<1>1. ASSUME pc'[u] = pc[u], todo'[u] = todo[u], Holds(u)' = Holds(u)
      PROVE  /\ pc'[u] \in {"new", "checked", "begun", "found"}
                => todo'[u] = LockOrder(u)
             /\ pc'[u] = "locking" => Stage(u)'
  BY <1>0, <1>1 DEF LocksInOrder, Stage
<1>2. CASE UNCHANGED vars
  BY <1>1, <1>2 DEF vars, txVars, Holds
<1>3. ASSUME NEW t \in Txs, NEW to \in Ended, Ends(t, to)
      PROVE  /\ pc'[u] \in {"new", "checked", "begun", "found"}
                => todo'[u] = LockOrder(u)
             /\ pc'[u] = "locking" => Stage(u)'
  <2>1. CASE u = t
    BY <1>0, <1>3, <2>1, EndsEffect DEF Ended
  <2>2. CASE u # t
    BY <1>0, <1>1, <1>3, <2>2, EndsEffect
  <2>3. QED
    BY <2>1, <2>2
<1>4. ASSUME NEW t \in Txs,
             CheckWallet(t) \/ Begin(t) \/ FindWallet(t) \/ FirstStatement(t)
      PROVE  /\ pc'[u] \in {"new", "checked", "begun", "found"}
                => todo'[u] = LockOrder(u)
             /\ pc'[u] = "locking" => Stage(u)'
  <2>1. UNCHANGED <<todo, holder>> /\ pc[t] \in {"new", "checked", "begun", "found"}
    BY <1>4, EarlyEffect
  <2>2. Holds(u)' = Holds(u)
    BY <2>1 DEF Holds
  <2>3. CASE u # t
    <3>1. pc'[u] = pc[u]
      BY <1>4, <2>3, EarlyEffect
    <3>2. QED
      BY <1>1, <2>1, <2>2, <3>1
  <2>4. CASE u = t
    <3>1. todo[t] = LockOrder(t) /\ Holds(t) = {}
      BY <1>0, <2>1, HoldsNothing DEF LocksInOrder
    <3>2. QED
      BY <2>1, <2>2, <2>4, <3>1 DEF Stage
  <2>5. QED
    BY <2>3, <2>4
<1>5. ASSUME NEW t \in Txs, LockRow(t) \/ InsertRow(t), ~Aborts(t)
      PROVE  /\ pc'[u] \in {"new", "checked", "begun", "found"}
                => todo'[u] = LockOrder(u)
             /\ pc'[u] = "locking" => Stage(u)'
  <2> DEFINE a == Head(todo[t])
  <2>1. /\ a \in Accounts /\ holder[a] = {} /\ pc[t] = "locking"
        /\ holder' = [holder EXCEPT ![a] = {t}]
        /\ todo' = [todo EXCEPT ![t] = Tail(todo[t])]
        /\ UNCHANGED pc /\ Stage(t)'
    BY <1>5, LockEffect
  <2>2. CASE u = t
    BY <2>1, <2>2
  <2>3. CASE u # t
    <3>1. Holds(u)' = Holds(u)
      BY <1>0, <2>1, <2>3 DEF Holds, TypeOK
    <3>2. todo'[u] = todo[u]
      BY <1>0, <2>1, <2>3 DEF TypeOK
    <3>3. QED
      BY <1>1, <2>1, <3>1, <3>2
  <2>4. QED
    BY <2>2, <2>3
<1>6. QED
  BY <1>2, <1>3, <1>4, <1>5, StepKinds DEF Next

\* Every step keeps what is known of the transactions that insert a row.
LEMMA StepInsertsKnown ==
  ASSUME Inv, [Next]_vars
  PROVE  InsertsKnown'
<1>0. TypeOK /\ InsertsKnown
  BY DEF Inv
<1>1. CASE UNCHANGED vars
  BY <1>0, <1>1 DEF vars, txVars, InsertsKnown
<1>2. ASSUME NEW t \in Txs, NEW to \in Ended, Ends(t, to) PROVE InsertsKnown'
  <2>1. pc'[t] \in Ended /\ inserts'[t] = FALSE
    BY <1>0, <1>2, EndsEffect
  <2>2. \A u \in Txs \ {t} : pc'[u] = pc[u] /\ inserts'[u] = inserts[u]
    BY <1>0, <1>2, EndsEffect
  <2>3. QED
    BY <1>0, <2>1, <2>2 DEF InsertsKnown, Ended
<1>3. ASSUME NEW t \in Txs, CheckWallet(t) PROVE InsertsKnown'
  <2>1. Job[t].kind = "create"
    BY <1>3 DEF CheckWallet
  <2>2. CASE Goes(t, "aborted") /\ UNCHANGED inserts
    <3>1. \A u \in Txs : pc'[u] = IF u = t THEN "aborted" ELSE pc[u]
      BY <1>0, <2>2 DEF TypeOK, Goes
    <3>2. pc[t] = "new"
      BY <1>3 DEF CheckWallet, MayBegin
    <3>3. QED
      BY <1>0, <2>1, <2>2, <3>1, <3>2 DEF InsertsKnown
  <2>3. CASE Goes(t, "checked") /\ inserts' = [inserts EXCEPT ![t] = TRUE]
    <3>1. pc'[t] = "checked" /\ inserts'[t] = TRUE
      BY <1>0, <2>3 DEF TypeOK, Goes
    <3>2. \A u \in Txs \ {t} : pc'[u] = pc[u] /\ inserts'[u] = inserts[u]
      BY <1>0, <2>3 DEF TypeOK, Goes
    <3>3. QED
      BY <1>0, <2>1, <3>1, <3>2 DEF InsertsKnown
  <2>4. QED
    BY <1>3, <2>2, <2>3 DEF CheckWallet
<1>4. ASSUME NEW t \in Txs, Begin(t) PROVE InsertsKnown'
  BY <1>0, <1>4 DEF TypeOK, InsertsKnown, Begin, Goes
<1>5. ASSUME NEW t \in Txs, FindWallet(t) PROVE InsertsKnown'
  BY <1>0, <1>5 DEF TypeOK, InsertsKnown, FindWallet, Goes
<1>6. ASSUME NEW t \in Txs, FirstStatement(t) PROVE InsertsKnown'
  BY <1>0, <1>6 DEF TypeOK, InsertsKnown, FirstStatement, Goes
<1>7. ASSUME NEW t \in Txs, LockRow(t) \/ InsertRow(t), ~Aborts(t) PROVE InsertsKnown'
  BY <1>0, <1>7 DEF InsertsKnown, LockRow, InsertRow
<1>8. QED
  BY <1>1, <1>2, <1>3, <1>4, <1>5, <1>6, <1>7, StepKinds DEF Next

\* No step changes a row that another transaction holds, or what its holder read.
LEMMA StepHeldRows ==
  ASSUME Inv, [Next]_vars
  PROVE  HeldRows'
<1>0. TypeOK /\ LedgerTypeOK /\ Solvent /\ HeldRows
  BY DEF Inv, TypeOK
<1>1. CASE UNCHANGED vars
  BY <1>0, <1>1 DEF vars, txVars, ledgerVars, HeldRows
<1>2. ASSUME NEW t \in Txs, NEW to \in Ended, Ends(t, to),
             \A b \in Accounts \ Holds(t) :
               /\ available'[b] = available[b] /\ locked'[b] = locked[b]
               /\ b \in rows' <=> b \in rows
      PROVE  HeldRows'
  <2> SUFFICES ASSUME NEW b \in Accounts, NEW v \in holder'[b]
               PROVE  /\ holder'[b] = {v} /\ pc'[v] = "locking"
                      /\ inserts'[v] <=> b \notin rows'
                      /\ ~inserts'[v] => read'[v][b] = [available |-> available'[b],
                                                        locked |-> locked'[b]]
    BY DEF HeldRows
  <2>0. holder'[b] = holder[b] \ {t}
    BY <1>0, <1>2, EndsEffect
  <2>1. v \in holder[b] /\ v # t /\ v \in Txs
    BY <1>0, <2>0 DEF TypeOK
  <2>2. /\ holder[b] = {v} /\ pc[v] = "locking" /\ (inserts[v] <=> b \notin rows)
        /\ ~inserts[v] => read[v][b] = [available |-> available[b], locked |-> locked[b]]
    BY <1>0, <2>1 DEF HeldRows
  <2>3. b \notin Holds(t)
    BY <2>1, <2>2 DEF Holds
  <2>4. pc'[v] = pc[v] /\ inserts'[v] = inserts[v] /\ read'[v] = read[v]
    BY <1>0, <1>2, <2>1, EndsEffect
  <2>5. QED
    BY <1>2, <2>0, <2>1, <2>2, <2>3, <2>4
<1>3. ASSUME NEW t \in Txs, Aborts(t) PROVE HeldRows'
  BY <1>2, <1>3 DEF Aborts, ledgerVars, Ended
<1>4. ASSUME NEW t \in Txs, Commit(t) PROVE HeldRows'
  <2>1. Holds(t) = Named(t)
    BY <1>4, LastStage DEF Inv, LocksInOrder, Commit
  <2>2. Operation(t)
    BY <1>4, CommitIsOperation
  <2>3. \A b \in Accounts \ Named(t) :
          /\ available'[b] = available[b] /\ locked'[b] = locked[b]
          /\ b \in rows' <=> b \in rows
    BY <1>0, <2>2, OperationEffect
  <2>4. Ends(t, "committed") /\ "committed" \in Ended
    BY <1>4 DEF Commit, Ended
  <2>5. QED
    BY <1>2, <2>1, <2>3, <2>4
<1>5. ASSUME NEW t \in Txs,
             CheckWallet(t) \/ Begin(t) \/ FindWallet(t) \/ FirstStatement(t)
      PROVE  HeldRows'
  <2>1. /\ pc[t] \in {"new", "checked", "begun", "found"}
        /\ UNCHANGED <<read, holder, ledgerVars>>
        /\ \A u \in Txs \ {t} : pc'[u] = pc[u] /\ inserts'[u] = inserts[u]
    BY <1>5, EarlyEffect
  <2>2. \A b \in Accounts : \A v \in holder[b] : v \in Txs \ {t}
    BY <1>0, <2>1 DEF TypeOK, HeldRows
  <2>3. QED
    BY <1>0, <2>1, <2>2 DEF HeldRows, ledgerVars
<1>6. ASSUME NEW t \in Txs, LockRow(t) \/ InsertRow(t), ~Aborts(t) PROVE HeldRows'
  <2> DEFINE a == Head(todo[t])
             row == [available |-> available[a], locked |-> locked[a]]
  <2>1. /\ a \in Accounts /\ holder[a] = {} /\ pc[t] = "locking"
        /\ inserts[t] <=> a \notin rows
        /\ holder' = [holder EXCEPT ![a] = {t}]
        /\ ~inserts[t] => read' = [read EXCEPT ![t][a] = row]
        /\ inserts[t] => read' = read
        /\ UNCHANGED <<pc, inserts, ledgerVars>>
    BY <1>6, LockEffect
  <2> HIDE DEF a
  <2> SUFFICES ASSUME NEW b \in Accounts, NEW v \in holder'[b]
               PROVE  /\ holder'[b] = {v} /\ pc'[v] = "locking"
                      /\ inserts'[v] <=> b \notin rows'
                      /\ ~inserts'[v] => read'[v][b] = [available |-> available'[b],
                                                        locked |-> locked'[b]]
    BY DEF HeldRows
  <2>2. CASE b = a
    <3>1. v = t /\ holder'[b] = {t}
      BY <1>0, <2>1, <2>2 DEF TypeOK
    <3>2. ~inserts[t] => read'[t][a] = row
      BY <1>0, <2>1 DEF TypeOK
    <3>3. QED
      BY <2>1, <2>2, <3>1, <3>2 DEF ledgerVars
  <2>3. CASE b # a
    <3>1. holder'[b] = holder[b] /\ v \in holder[b] /\ v \in Txs
      BY <1>0, <2>1, <2>3 DEF TypeOK
    <3>2. read'[v][b] = read[v][b]
      <4>1. CASE inserts[t]
        BY <2>1, <4>1
      <4>2. CASE ~inserts[t]
        <5>1. read' = [read EXCEPT ![t][a] = row]
          BY <2>1, <4>2
        <5> HIDE DEF row
        <5>2. QED
          BY <1>0, <2>1, <2>3, <3>1, <5>1 DEF TypeOK
      <4>3. QED
        BY <4>1, <4>2
    <3>3. QED
      BY <1>0, <2>1, <3>1, <3>2 DEF HeldRows, ledgerVars
  <2>4. QED
    BY <2>2, <2>3
<1>7. ASSUME NEW t \in Txs, Step(t) \/ TimeOut(t), ~Aborts(t), ~Commit(t)
      PROVE  \/ CheckWallet(t) \/ Begin(t) \/ FindWallet(t) \/ FirstStatement(t)
             \/ LockRow(t) \/ InsertRow(t)
  BY <1>7 DEF Step, Refuse, TimeOut
<1>8. QED
  BY <1>1, <1>3, <1>4, <1>5, <1>6, <1>7 DEF Next

-----------------------------------------------------------------------------
(* The theorems.                                                            *)

\* The initial state satisfies the invariant.
LEMMA InitInv == Init => Inv
<1> SUFFICES ASSUME Init PROVE Inv
  OBVIOUS
<1>1. LedgerTypeOK /\ Solvent
  BY LedgerAssumption DEF Init, LedgerInit, LedgerTypeOK, Solvent, EntryTypes
<1>2. /\ pc \in [Txs -> Pcs] /\ inserts \in [Txs -> BOOLEAN]
      /\ holder \in [Accounts -> SUBSET Txs] /\ version \in [Accounts -> Nat]
      /\ snapshot \in [Txs -> [Accounts -> Nat]]
  BY DEF Init, Pcs, NoSnapshot
<1>3. todo \in [Txs -> Seq(Accounts)]
  BY LockOrderType DEF Init
<1>4. read \in [Txs -> [Accounts -> Balance]]
  BY DEF Init, NothingRead, Balance
<1>5. LocksInOrder /\ InsertsKnown /\ HeldRows
  BY DEF Init, LocksInOrder, InsertsKnown, HeldRows
<1>6. QED
  BY <1>1, <1>2, <1>3, <1>4, <1>5 DEF Inv, TypeOK

\* Inv is inductive: what the holder of a row read is what the row is.
THEOREM WalletTxInvariant == Spec => []Inv
<1>1. Inv /\ [Next]_vars => Inv'
  BY StepTypes, StepLocksInOrder, StepInsertsKnown, StepHeldRows DEF Inv
<1>2. QED
  BY <1>1, InitInv, PTL DEF Spec

\* Snapshots, rows read, balances and locks keep their shape; no locked balance is
\* negative, though the checks are made on values that were read earlier.
THEOREM WalletTxTypes == Spec => []TypeOK
<1>1. Inv => TypeOK
  BY DEF Inv
<1>2. QED
  BY <1>1, WalletTxInvariant, PTL

\* A row has one holder, and whoever holds it has read it as it is.
THEOREM WalletTxOneHolder == Spec => []OneHolder
<1>1. Inv => OneHolder
  BY DEF Inv, HeldRows, OneHolder
<1>2. QED
  BY <1>1, WalletTxInvariant, PTL

\* A transaction changes the tables as its operation of the ledger does on the state it
\* commits in, or not at all.
THEOREM WalletTxAtomic == Spec => AtomicOperations
<1>1. ASSUME Inv, [Next]_vars PROVE [\E t \in Txs : Operation(t)]_ledgerVars
  <2>1. CASE UNCHANGED vars
    BY <2>1 DEF vars
  <2>2. ASSUME NEW t \in Txs, Commit(t) PROVE \E u \in Txs : Operation(u)
    BY <1>1, <2>2, CommitIsOperation
  <2>3. ASSUME NEW t \in Txs, Step(t) \/ TimeOut(t), ~Commit(t) PROVE UNCHANGED ledgerVars
    <3>1. CASE Aborts(t)
      BY <3>1 DEF Aborts
    <3>2. CASE ~Aborts(t)
      BY <1>1, <2>3, <3>2 DEF Step, TimeOut, Refuse, CheckWallet, Begin, FindWallet,
                              FirstStatement, LockRow, InsertRow
    <3>3. QED
      BY <3>1, <3>2
  <2>4. QED
    BY <1>1, <2>1, <2>2, <2>3 DEF Next
<1>2. QED
  BY <1>1, WalletTxInvariant, PTL DEF Spec, AtomicOperations

\* Each operation is booked.
LEMMA OperationBooked ==
  ASSUME LedgerTypeOK, NEW t \in Txs, Operation(t)
  PROVE  Booked
<1> DEFINE a == Job[t].account  x == Job[t].amount  o == Job[t].order
           c == Job[t].buy  z == Job[t].out
<1>1. a \in Accounts /\ x \in Nat /\ x \in Int /\ -x \in Int /\ o \in OrderIds
  BY JobTypes
<1>2. CASE CreateWallet(a)
  BY <1>2 DEF CreateWallet, LedgerTypeOK, Booked
<1>3. CASE Deposit(a, x)
  BY <1>1, <1>3, CreditBooked DEF Deposit
<1>4. CASE Withdraw(a, x)
  BY <1>1, <1>4, CreditBooked DEF Withdraw, SufficientBalance
<1>5. CASE LockFunds(a, x, o) \/ ReleaseFunds(a, x, o)
  BY <1>1, <1>5, LockBooked
<1>6. CASE Job[t].kind = "fill" /\ ProcessFillWithLockRelease(a, a, c, x, x, z, o)
  <2>1. c \in Accounts /\ z \in Nat
    BY <1>6, JobTypes
  <2>2. QED
    BY <1>1, <1>6, <2>1, FillBooked
<1>7. QED
  BY <1>2, <1>3, <1>4, <1>5, <1>6 DEF Operation

\* The entries explain the balances at every moment, as each transaction books what it
\* changes, though it computed it from rows that it read earlier.
THEOREM WalletTxBooks == Spec => []BooksMatch
<1>1. Init => BooksMatch
  BY BooksStart DEF Init
<1>2. ASSUME Inv, Inv', BooksMatch, [\E t \in Txs : Operation(t)]_ledgerVars
      PROVE  BooksMatch'
  <2>1. CASE UNCHANGED ledgerVars
    BY <1>2, <2>1 DEF ledgerVars, BooksMatch
  <2>2. ASSUME NEW t \in Txs, Operation(t) PROVE BooksMatch'
    BY <1>2, <2>2, OperationBooked, BooksStay DEF Inv, TypeOK
  <2>3. QED
    BY <1>2, <2>1, <2>2
<1>3. QED
  BY <1>1, <1>2, WalletTxInvariant, WalletTxAtomic, PTL DEF Spec, AtomicOperations

-----------------------------------------------------------------------------
(* Nobody waits in a circle.                                                *)

\* Of finitely many members one is ranked highest.
LEMMA Highest ==
  ASSUME NEW F, IsFiniteSet(F), F # {}, NEW f \in [F -> Nat]
  PROVE  \E x \in F : \A y \in F : f[y] <= f[x]
<1> DEFINE tops == {X \in SUBSET F : X # {} /\ \A x \in X, y \in F : f[y] >= f[x] => y \in X}
<1>1. F \in tops
  OBVIOUS
<1>2. PICK X \in tops : \A Y \in tops : Y \subseteq X => Y = X
  <2>1. tops \in SUBSET (SUBSET F) /\ tops # {}
    BY <1>1
  <2> HIDE DEF tops
  <2>2. QED
    BY <2>1, SmallestSubset
<1>3. PICK x \in X : TRUE
  OBVIOUS
<1>4. x \in F /\ \A y \in F : f[y] \in Nat
  OBVIOUS
<1> DEFINE above == {y \in X : f[y] > f[x]}
<1>5. x \notin above
  BY <1>4
<1>6. ASSUME NEW y \in above, NEW z \in F, f[z] >= f[y] PROVE z \in above
  BY <1>4, <1>6
<1>7. above = {}
  BY <1>2, <1>5, <1>6
<1>8. ASSUME NEW y \in F PROVE f[y] <= f[x]
  BY <1>4, <1>7
<1>9. QED
  BY <1>4, <1>8

\* In a set whose members wait for members alone, nobody waits for a row: whoever holds
\* the highest of the rows that are waited for would wait for a higher one.
LEMMA NobodyWaitsForRow ==
  ASSUME Inv, IsFiniteSet(Txs), NEW S \in SUBSET Txs, \A t \in S : BlockedBy(t, S)
  PROVE  \A t \in S : pc[t] # "locking"
<1> DEFINE F == {t \in S : pc[t] = "locking"}
           wanted == [t \in F |-> Rank[Head(todo[t])[2]]]
<1>1. ASSUME NEW t \in F
      PROVE  /\ t \in Txs /\ todo[t] # <<>> /\ Stage(t)
             /\ holder[Head(todo[t])] \cap S # {}
  BY DEF BlockedBy, Inv, LocksInOrder
<1>2. ASSUME NEW t \in F
      PROVE  /\ Head(todo[t]) \in Accounts
             /\ \A b \in Holds(t) : Rank[b[2]] < Rank[Head(todo[t])[2]]
  BY <1>1, NextStage
<1>3. wanted \in [F -> Nat]
  <2>1. ASSUME NEW t \in F PROVE Rank[Head(todo[t])[2]] \in Nat
    BY <1>2, WalletTxAssumption DEF Accounts
  <2> HIDE DEF F
  <2>2. QED
    BY <2>1
<1>4. IsFiniteSet(F)
  BY FS_Subset
<1>5. SUFFICES ASSUME F # {} PROVE FALSE
  OBVIOUS
<1>6. PICK t \in F : \A v \in F : wanted[v] <= wanted[t]
  <2> HIDE DEF F, wanted
  <2>1. QED
    BY <1>3, <1>4, <1>5, Highest
<1> DEFINE a == Head(todo[t])
<1>7. PICK v \in holder[a] : v \in S
  BY <1>1
<1>8. a \in Accounts
  BY <1>2
<1>9. v \in F /\ a \in Holds(v)
  BY <1>7, <1>8 DEF Inv, HeldRows, Holds
<1>10. Rank[a[2]] < Rank[Head(todo[v])[2]]
  BY <1>2, <1>9
<1>11. wanted[v] \in Nat /\ wanted[t] \in Nat /\ wanted[t] < wanted[v]
  BY <1>3, <1>9, <1>10
<1>12. QED
  BY <1>6, <1>9, <1>11

\* No process has more transactions under way than its pool has connections.
PoolLimit == \A p \in Processes : Cardinality(Connected(p)) <= PoolSize

\* A transaction begins only with a free connection, which no other takes from it.
LEMMA StepPoolLimit ==
  ASSUME Inv, IsFiniteSet(Txs), PoolLimit, [Next]_vars
  PROVE  PoolLimit'
<1> SUFFICES ASSUME NEW p \in Processes PROVE Cardinality(Connected(p)') <= PoolSize
  BY DEF PoolLimit
<1>0. TypeOK /\ Cardinality(Connected(p)) <= PoolSize /\ PoolSize \in Nat
  BY WalletTxAssumption DEF Inv, PoolLimit
<1>1. IsFiniteSet(Connected(p)) /\ Cardinality(Connected(p)) \in Nat
  BY FS_Subset, FS_CardinalityType DEF Connected
<1>2. ASSUME Connected(p)' \subseteq Connected(p)
      PROVE  Cardinality(Connected(p)') <= PoolSize
  <2>1. /\ Cardinality(Connected(p)') <= Cardinality(Connected(p))
        /\ IsFiniteSet(Connected(p)')
    BY <1>1, <1>2, FS_Subset
  <2>2. Cardinality(Connected(p)') \in Nat
    BY <2>1, FS_CardinalityType
  <2>3. QED
    BY <1>0, <1>1, <2>1, <2>2
<1>3. CASE UNCHANGED pc
  BY <1>2, <1>3 DEF Connected
<1>4. ASSUME NEW t \in Txs, NEW to \in Ended, Ends(t, to)
      PROVE  Connected(p)' \subseteq Connected(p)
  BY <1>0, <1>4, EndsEffect DEF Connected, Active, Ended, Process
<1>5. ASSUME NEW t \in Txs, CheckWallet(t) \/ FindWallet(t) \/ FirstStatement(t)
      PROVE  Connected(p)' \subseteq Connected(p)
  BY <1>0, <1>5 DEF TypeOK, Connected, CheckWallet, FindWallet, FirstStatement,
                    Goes, Active, Process
<1>6. ASSUME NEW t \in Txs, Begin(t) PROVE Cardinality(Connected(p)') <= PoolSize
  <2>1. \A u \in Txs \ {t} : pc'[u] = pc[u]
    BY <1>0, <1>6 DEF TypeOK, Begin, Goes
  <2>2. CASE Process(t) # p
    BY <1>2, <2>1, <2>2 DEF Connected, Process
  <2>3. CASE Process(t) = p
    <3>1. Cardinality(Connected(p)) < PoolSize
      BY <1>6, <2>3 DEF Begin, FreeConnection
    <3>2. Connected(p)' \subseteq Connected(p) \cup {t}
      BY <2>1 DEF Connected, Process
    <3>3. /\ IsFiniteSet(Connected(p) \cup {t})
          /\ \/ Cardinality(Connected(p) \cup {t}) = Cardinality(Connected(p))
             \/ Cardinality(Connected(p) \cup {t}) = Cardinality(Connected(p)) + 1
      BY <1>1, FS_AddElement, Zenon
    <3>4. /\ Cardinality(Connected(p)') <= Cardinality(Connected(p) \cup {t})
          /\ IsFiniteSet(Connected(p)')
      BY <3>2, <3>3, FS_Subset
    <3>5. Cardinality(Connected(p)') \in Nat /\ Cardinality(Connected(p) \cup {t}) \in Nat
      BY <3>3, <3>4, FS_CardinalityType
    <3>6. QED
      BY <1>0, <1>1, <3>1, <3>3, <3>4, <3>5
  <2>4. QED
    BY <2>2, <2>3
<1>7. ASSUME NEW t \in Txs, LockRow(t) \/ InsertRow(t), ~Aborts(t) PROVE UNCHANGED pc
  BY <1>7 DEF LockRow, InsertRow
<1>8. QED
  BY <1>2, <1>3, <1>4, <1>5, <1>6, <1>7, StepKinds DEF Next, vars, txVars

\* Within the limit of the pool, a circle of waiting is one of deposits that have every
\* connection of it.
LEMMA OnlyDepositsCircle ==
  ASSUME Inv, IsFiniteSet(Txs), PoolLimit
  PROVE  NoCircularWait
<1> SUFFICES ASSUME NEW S \in SUBSET Txs, S # {}, \A t \in S : BlockedBy(t, S)
             PROVE  Cardinality(S \cap Asking) = PoolSize
  BY DEF NoCircularWait
<1>1. ASSUME NEW t \in S
      PROVE  /\ t \in Asking /\ Process(t) = "api" /\ pc[t] = "begun"
             /\ ~FreeConnection(t) /\ Connected(Process(t)) \subseteq S
  <2>1. pc[t] = "begun" /\ ~FreeConnection(t) /\ Connected(Process(t)) \subseteq S
    BY NobodyWaitsForRow DEF BlockedBy
  <2>2. Job[t].kind = "deposit"
    BY <2>1 DEF Inv, InsertsKnown
  <2>3. QED
    BY <2>1, <2>2 DEF Asking, Process
<1>2. S \cap Asking = Connected("api")
  BY <1>1 DEF Connected, Active
<1>3. ~(Cardinality(Connected("api")) < PoolSize) /\ Cardinality(Connected("api")) <= PoolSize
  BY <1>1 DEF FreeConnection, PoolLimit, Processes
<1>4. Cardinality(Connected("api")) \in Nat /\ PoolSize \in Nat
  BY FS_Subset, FS_CardinalityType, WalletTxAssumption DEF Connected
<1>5. QED
  BY <1>2, <1>3, <1>4

\* Transactions never wait for each other's rows in a circle, however many users,
\* assets and connections there are: a fill always comes to its end, and only as many
\* deposits as the pool has connections can wait for each other.
THEOREM WalletTxNoCircularWait == ASSUME IsFiniteSet(Txs) PROVE Spec => []NoCircularWait
<1>1. Init => PoolLimit
  <2> SUFFICES ASSUME Init, NEW p \in Processes PROVE Cardinality(Connected(p)) <= PoolSize
    BY DEF PoolLimit
  <2>1. Connected(p) = {}
    BY DEF Init, Connected, Active
  <2>2. QED
    BY <2>1, FS_EmptySet, WalletTxAssumption
<1>2. Inv /\ PoolLimit /\ [Next]_vars => PoolLimit'
  BY StepPoolLimit
<1>3. Inv /\ PoolLimit => NoCircularWait
  BY OnlyDepositsCircle
<1>4. QED
  BY <1>1, <1>2, <1>3, WalletTxInvariant, PTL DEF Spec
==============================================================================
