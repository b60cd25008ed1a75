------------------------------ MODULE WalletTx ------------------------------
(***************************************************************************)
(* The wallet transactions statement by statement, as WithTx runs them on  *)
(* PostgreSQL: a connection of the process's pool, a REPEATABLE READ       *)
(* snapshot taken by the first statement, row locks held to the end, and   *)
(* checks on the values that the locking statements returned.  Module      *)
(* Ledger takes each transaction as one step; here it is shown to be one.  *)
(***************************************************************************)
EXTENDS Ledger, Sequences

CONSTANTS Txs,           \* the transactions that may run
          Job,           \* what each of them is to do
          After,         \* those that the same client runs before it
          Rank,          \* the order of the assets' names (sort.Strings)
          PoolSize       \* connections of a process (DB_MAX_CONNS)

Processes == {"api", "worker"}

\* A fill spends and releases the lock of its order and touches two accounts of the
\* order's user; the other kinds touch one account.
Jobs == [kind : {"create", "deposit", "withdraw", "lock", "release"},
         account : Accounts, amount : Nat \ {0}, order : OrderIds]
        \cup [kind : {"fill"}, account : Accounts, amount : Nat \ {0}, order : OrderIds,
              buy : Accounts, out : Nat]

ASSUME WalletTxAssumption ==
  /\ Job \in [Txs -> Jobs]
  /\ After \in [Txs -> SUBSET Txs]
  /\ \A t \in Txs : Job[t].kind = "fill" =>
       Job[t].buy[1] = Job[t].account[1] /\ Job[t].buy # Job[t].account
  /\ Rank \in [Assets -> Nat] /\ \A a, b \in Assets : Rank[a] = Rank[b] => a = b
  /\ PoolSize \in Nat \ {0}

VARIABLES pc,            \* where each transaction is
          todo,          \* the rows it has yet to lock, in order
          inserts,       \* whether it inserts the row that it is to change
          snapshot,      \* the versions of the rows when its first statement began
          read,          \* the balances that its locking statements returned
          holder,        \* each account: the transaction that holds its row, if any
          version        \* each account: how many committed transactions changed it

txVars == <<pc, todo, inserts, snapshot, read, holder, version>>
vars == <<ledgerVars, txVars>>

Pcs == {"new", "checked", "begun", "found", "locking", "committed", "aborted"}
Active == {"begun", "found", "locking"}
Ended == {"committed", "aborted"}

Balance == [available : Int, locked : Nat]

TypeOK ==
  /\ LedgerTypeOK
  /\ pc \in [Txs -> Pcs]
  /\ todo \in [Txs -> Seq(Accounts)]
  /\ inserts \in [Txs -> BOOLEAN]
  /\ snapshot \in [Txs -> [Accounts -> Nat]]
  /\ read \in [Txs -> [Accounts -> Balance]]
  /\ holder \in [Accounts -> SUBSET Txs]
  /\ version \in [Accounts -> Nat]

Process(t) == IF Job[t].kind = "fill" THEN "worker" ELSE "api"

\* A fill names the account it sells from, then the one it buys for.
AsNamed(t) ==
  IF Job[t].kind = "fill" THEN <<Job[t].account, Job[t].buy>> ELSE <<Job[t].account>>

\* The rows a transaction locks: a fill's sorted by asset, to avoid deadlocks.
LockOrder(t) ==
  IF Job[t].kind = "fill" /\ Rank[Job[t].buy[2]] < Rank[Job[t].account[2]]
  THEN <<Job[t].buy, Job[t].account>> ELSE AsNamed(t)

NoSnapshot == [a \in Accounts |-> 0]
NothingRead == [a \in Accounts |-> [available |-> 0, locked |-> 0]]

Init ==
  /\ LedgerInit
  /\ pc = [t \in Txs |-> "new"]
  /\ todo = [t \in Txs |-> LockOrder(t)]
  /\ inserts = [t \in Txs |-> FALSE]
  /\ snapshot = [t \in Txs |-> NoSnapshot]
  /\ read = [t \in Txs |-> NothingRead]
  /\ holder = [a \in Accounts |-> {}]
  /\ version = [a \in Accounts |-> 0]

Goes(t, to) == pc' = [pc EXCEPT ![t] = to]

\* Every transaction has a connection from BEGIN to its end.
Connected(p) == {t \in Txs : Process(t) = p /\ pc[t] \in Active}
FreeConnection(t) == Cardinality(Connected(Process(t))) < PoolSize

\* COMMIT or ROLLBACK lets go of the rows, and the function's variables are gone.
Ends(t, to) ==
  /\ Goes(t, to)
  /\ holder' = [a \in Accounts |-> holder[a] \ {t}]
  /\ todo' = [todo EXCEPT ![t] = <<>>]
  /\ inserts' = [inserts EXCEPT ![t] = FALSE]
  /\ snapshot' = [snapshot EXCEPT ![t] = NoSnapshot]
  /\ read' = [read EXCEPT ![t] = NothingRead]

Aborts(t) == Ends(t, "aborted") /\ UNCHANGED <<version, ledgerVars>>

-----------------------------------------------------------------------------

MayBegin(t) == pc[t] = "new" /\ \A s \in After[t] : pc[s] \in Ended

\* CreateWallet looks for the wallet before its transaction.
CheckWallet(t) ==
  /\ MayBegin(t) /\ Job[t].kind = "create"
  /\ FreeConnection(t)
  /\ IF Job[t].account \in rows
     THEN Goes(t, "aborted") /\ UNCHANGED inserts
     ELSE Goes(t, "checked") /\ inserts' = [inserts EXCEPT ![t] = TRUE]
  /\ UNCHANGED <<todo, snapshot, read, holder, version, ledgerVars>>

\* A fill is asked for only when its order's lock is committed.
Begin(t) ==
  /\ IF Job[t].kind = "create" THEN pc[t] = "checked" ELSE MayBegin(t)
  /\ Job[t].kind = "fill" => entries[Job[t].order]["lock_funds"] > 0
  /\ FreeConnection(t)
  /\ Goes(t, IF Job[t].kind = "deposit" THEN "begun" ELSE "found")
  /\ UNCHANGED <<todo, inserts, snapshot, read, holder, version, ledgerVars>>

\* Deposit looks for the wallet inside its transaction, but on a second connection
\* of the pool, for which it waits with the first one in hand.
FindWallet(t) ==
  /\ pc[t] = "begun"
  /\ FreeConnection(t)
  /\ inserts' = [inserts EXCEPT ![t] = Job[t].account \notin rows]
  /\ Goes(t, "found")
  /\ UNCHANGED <<todo, snapshot, read, holder, version, ledgerVars>>

\* The first statement begins: from here on the transaction sees this state.
FirstStatement(t) ==
  /\ pc[t] = "found"
  /\ snapshot' = [snapshot EXCEPT ![t] = version]
  /\ Goes(t, "locking")
  /\ UNCHANGED <<todo, inserts, read, holder, version, ledgerVars>>

\* Mutant: a plain SELECT, which neither waits nor conflicts.
SelectRow(t) ==
  /\ pc[t] = "locking" /\ todo[t] # <<>> /\ ~inserts[t]
  /\ LET a == Head(todo[t]) IN
     IF a \in rows
     THEN /\ read' = [read EXCEPT ![t][a] = [available |-> available[a], locked |-> locked[a]]]
          /\ todo' = [todo EXCEPT ![t] = Tail(@)]
          /\ UNCHANGED <<pc, inserts, snapshot, holder, version, ledgerVars>>
     ELSE Aborts(t)

\* SELECT ... FOR UPDATE, or the UPDATE of a deposit: waits for the row's holder;
\* then fails when there is no such row, or when it changed since the snapshot (40001).
LockRow(t) ==
  /\ pc[t] = "locking" /\ todo[t] # <<>> /\ ~inserts[t]
  /\ LET a == Head(todo[t]) IN
     /\ holder[a] = {}
     /\ IF a \in rows /\ version[a] = snapshot[t][a]
        THEN /\ holder' = [holder EXCEPT ![a] = {t}]
             /\ read' = [read EXCEPT ![t][a] = [available |-> available[a],
                                                locked |-> locked[a]]]
             /\ todo' = [todo EXCEPT ![t] = Tail(@)]
             /\ UNCHANGED <<pc, inserts, snapshot, version, ledgerVars>>
        ELSE Aborts(t)

\* Mutant: nothing keeps two transactions from inserting the same wallet.
InsertTwice(t) ==
  /\ pc[t] = "locking" /\ todo[t] # <<>> /\ inserts[t]
  /\ LET a == Head(todo[t]) IN
     /\ holder' = [holder EXCEPT ![a] = @ \cup {t}]
     /\ todo' = [todo EXCEPT ![t] = Tail(@)]
     /\ UNCHANGED <<pc, inserts, snapshot, read, version, ledgerVars>>

\* INSERT of a new wallet: UNIQUE(user_id, asset) makes it wait for another one's
\* insert, and fail when that has been committed.
InsertRow(t) ==
  /\ pc[t] = "locking" /\ todo[t] # <<>> /\ inserts[t]
  /\ LET a == Head(todo[t]) IN
     /\ holder[a] = {}
     /\ IF a \notin rows
        THEN /\ holder' = [holder EXCEPT ![a] = {t}]
             /\ todo' = [todo EXCEPT ![t] = Tail(@)]
             /\ UNCHANGED <<pc, inserts, snapshot, read, version, ledgerVars>>
        ELSE Aborts(t)

\* The service's check, on what the locking statements returned.
Allowed(t) ==
  LET j == Job[t]  r == read[t][Job[t].account] IN
  CASE j.kind \in {"lock", "withdraw"} -> r.available >= j.amount
    [] j.kind \in {"release", "fill"}  -> r.locked >= j.amount
    [] OTHER                           -> TRUE

\* The updates and the entries, relative to the rows as they are.
Writes(t) ==
  LET j == Job[t]  a == Job[t].account IN
  \/ /\ j.kind = "create"
     /\ rows' = rows \cup {a}
     /\ UNCHANGED <<available, locked, deltaSum, lockSum, entries>>
  \/ /\ j.kind = "deposit"
     /\ Credit(a, j.amount)
     /\ rows' = rows \cup {a}
     /\ UNCHANGED entries
  \/ j.kind = "withdraw" /\ Credit(a, -j.amount) /\ UNCHANGED <<rows, entries>>
  \/ /\ j.kind = "lock"
     /\ MoveLocked(a, -j.amount)
     /\ entries' = Entry(j.order, "lock_funds")
     /\ UNCHANGED rows
  \/ /\ j.kind = "release"
     /\ MoveLocked(a, j.amount)
     /\ entries' = Entry(j.order, "release_funds")
     /\ UNCHANGED rows
  \/ /\ j.kind = "fill"
     /\ Settle(a, a, j.buy, j.amount, j.amount, j.out, j.order)

\* Mutant: the check is left to the database, which has no such constraint.
CommitUnchecked(t) ==
  /\ pc[t] = "locking" /\ todo[t] = <<>>
  /\ Writes(t)
  /\ version' = [a \in Accounts |-> IF t \in holder[a] THEN version[a] + 1 ELSE version[a]]
  /\ Ends(t, "committed")

Commit(t) ==
  /\ pc[t] = "locking" /\ todo[t] = <<>>
  /\ Allowed(t)
  /\ Writes(t)
  /\ version' = [a \in Accounts |-> IF t \in holder[a] THEN version[a] + 1 ELSE version[a]]
  /\ Ends(t, "committed")

\* The check fails: an error, and the deferred Rollback.
Refuse(t) ==
  /\ pc[t] = "locking" /\ todo[t] = <<>>
  /\ ~Allowed(t)
  /\ Aborts(t)

\* A request's context ends after 60 seconds (api/router.go): what waits for a
\* connection or a row gives up.  A worker's context has no deadline.
TimeOut(t) ==
  /\ Process(t) = "api"
  /\ pc[t] \in Active \cup {"checked"}
  /\ Aborts(t)

-----------------------------------------------------------------------------

Step(t) ==
  \/ CheckWallet(t) \/ Begin(t) \/ FindWallet(t) \/ FirstStatement(t)
  \/ LockRow(t) \/ InsertRow(t) \/ Commit(t) \/ Refuse(t)

Next == \E t \in Txs : Step(t) \/ TimeOut(t)

Spec == Init /\ [][Next]_vars

-----------------------------------------------------------------------------

\* The operation of module Ledger that a transaction is said to be.
Operation(t) ==
  LET j == Job[t]  a == Job[t].account IN
  \/ j.kind = "create" /\ CreateWallet(a)
  \/ j.kind = "deposit" /\ Deposit(a, j.amount)
  \/ j.kind = "withdraw" /\ Withdraw(a, j.amount)
  \/ j.kind = "lock" /\ LockFunds(a, j.amount, j.order)
  \/ j.kind = "release" /\ ReleaseFunds(a, j.amount, j.order)
  \/ j.kind = "fill" /\ ProcessFillWithLockRelease(a, a, j.buy, j.amount, j.amount,
                                                   j.out, j.order)

\* AtomicOperations: whatever other transactions run meanwhile, a transaction changes
\* the tables as its operation would on the state it commits in, or not at all: no
\* check is made on a balance that is no longer the one changed.
AtomicOperations == [][\E t \in Txs : Operation(t)]_ledgerVars

\* OneHolder: a row has one holder, and whoever holds it has read it as it is.
OneHolder ==
  \A a \in Accounts : \A t \in holder[a] :
    /\ holder[a] = {t}
    /\ pc[t] = "locking"
    /\ ~inserts[t] => read[t][a] = [available |-> available[a], locked |-> locked[a]]

\* What t's next statement waits for comes from S alone: the row it wants is held in
\* S, or every connection of its pool is.
BlockedBy(t, S) ==
  \/ pc[t] = "locking" /\ todo[t] # <<>> /\ holder[Head(todo[t])] \cap S # {}
  \/ pc[t] = "begun" /\ ~FreeConnection(t) /\ Connected(Process(t)) \subseteq S

\* The deposits that hold a connection and ask for a second one.
Asking == {t \in Txs : pc[t] = "begun"}

\* NoCircularWait: transactions never wait for each other's rows in a circle, so a
\* fill, whose context has no deadline, always comes to its end; only as many deposits
\* as the pool has connections can wait for each other, until their deadlines
\* (ledger/service.go:188-214, wallet/service.go:255-258).
NoCircularWait ==
  \A S \in (SUBSET {t \in Txs : BlockedBy(t, Txs)}) \ {{}} :
    (\A t \in S : BlockedBy(t, S)) => Cardinality(S \cap Asking) = PoolSize
=============================================================================
