---------------------------- MODULE Ledger_proofs ----------------------------
(***************************************************************************)
(* What the ledger's transactions preserve, one lemma per property, for    *)
(* the modules that compose them.                                          *)
(***************************************************************************)
EXTENDS Ledger, TLAPS

\* Adding an integer to one account keeps a function of accounts to integers one.
LEMMA PlusType ==
  ASSUME NEW f \in [Accounts -> Int], NEW a \in Accounts, NEW x \in Int
  PROVE  /\ Plus(f, a, x) \in [Accounts -> Int]
         /\ \A b \in Accounts : Plus(f, a, x)[b] = IF b = a THEN f[a] + x ELSE f[b]
BY DEF Plus

\* LockFunds keeps the tables well typed: a lock moves a nonnegative amount.
LEMMA LockFundsType ==
  ASSUME LedgerTypeOK, NEW a \in Accounts, NEW x \in Nat, NEW o \in OrderIds,
         LockFunds(a, x, o)
  PROVE  LedgerTypeOK'
<1>1. entries' \in [OrderIds -> [EntryTypes -> Nat]]
  BY DEF LedgerTypeOK, LockFunds, Entry, EntryTypes
<1>2. QED
  BY <1>1 DEF LedgerTypeOK, LockFunds, SufficientBalance, MoveLocked, Plus

\* ReleaseFunds keeps them well typed: it never releases more than is locked.
LEMMA ReleaseFundsType ==
  ASSUME LedgerTypeOK, NEW a \in Accounts, NEW x \in Nat, NEW o \in OrderIds,
         ReleaseFunds(a, x, o)
  PROVE  LedgerTypeOK'
<1>1. entries' \in [OrderIds -> [EntryTypes -> Nat]]
  BY DEF LedgerTypeOK, ReleaseFunds, Entry, EntryTypes
<1>2. QED
  BY <1>1 DEF LedgerTypeOK, ReleaseFunds, Releasable, MoveLocked, Plus

\* So does the settlement of a fill.
LEMMA FillType ==
  ASSUME LedgerTypeOK, NEW k \in Accounts, NEW s \in Accounts, NEW b \in Accounts,
         NEW x \in Nat, NEW y \in Nat, NEW z \in Nat, NEW o \in OrderIds,
         ProcessFillWithLockRelease(k, s, b, x, y, z, o)
  PROVE  LedgerTypeOK'
<1>1. entries' \in [OrderIds -> [EntryTypes -> Nat]]
  BY DEF LedgerTypeOK, ProcessFillWithLockRelease, Settle, EntryTypes
<1>2. locked' \in [Accounts -> Nat]
  <2>1. locked \in [Accounts -> Nat] /\ locked[k] >= x
    BY DEF LedgerTypeOK, ProcessFillWithLockRelease, Settleable, Settle
  <2>2. locked' = [locked EXCEPT ![k] = @ + (-x)]
    BY DEF ProcessFillWithLockRelease, Settle, Plus
  <2>3. QED
    BY <2>1, <2>2
<1>3. available' \in [Accounts -> Int] /\ deltaSum' \in [Accounts -> Int]
  <2>1. ASSUME NEW f \in [Accounts -> Int]
        PROVE  Plus(Plus(Plus(f, k, x), s, -y), b, z) \in [Accounts -> Int]
    <3>1. Plus(f, k, x) \in [Accounts -> Int]
      BY PlusType
    <3>2. Plus(Plus(f, k, x), s, -y) \in [Accounts -> Int]
      BY <3>1 DEF Plus
    <3>3. QED
      BY <3>2 DEF Plus
  <2>2. QED
    BY <2>1 DEF LedgerTypeOK, ProcessFillWithLockRelease, Settle
<1>4. lockSum' \in [Accounts -> Int] /\ rows' \in SUBSET Accounts
  <2>1. lockSum \in [Accounts -> Int] /\ rows \in SUBSET Accounts
    BY DEF LedgerTypeOK
  <2>2. lockSum' = Plus(lockSum, k, x) /\ rows' = rows
    BY DEF ProcessFillWithLockRelease, Settle
  <2>3. QED
    BY <2>1, <2>2 DEF Plus
<1>5. QED
  BY <1>1, <1>2, <1>3, <1>4 DEF LedgerTypeOK

\* Credit keeps them well typed whatever its sign.
LEMMA CreditType ==
  ASSUME LedgerTypeOK, NEW a \in Accounts, NEW x \in Int, Credit(a, x)
  PROVE  /\ available' \in [Accounts -> Int] /\ deltaSum' \in [Accounts -> Int]
         /\ locked' \in [Accounts -> Nat] /\ lockSum' \in [Accounts -> Int]
BY DEF LedgerTypeOK, Credit, Plus

-----------------------------------------------------------------------------
(* The books: a transaction changes the ledger sums as it changes the       *)
(* wallet, and touches only accounts that have a row.                       *)

Booked ==
  \A b \in Accounts :
    /\ available'[b] - available[b] = deltaSum'[b] - deltaSum[b]
    /\ locked'[b] - locked[b] = lockSum[b] - lockSum'[b]
    /\ b \notin rows' => /\ b \notin rows
                        /\ available'[b] = available[b] /\ locked'[b] = locked[b]

\* Locking and releasing are booked.
LEMMA MoveLockedBooked ==
  ASSUME LedgerTypeOK, NEW a \in rows, NEW x \in Int, MoveLocked(a, x), UNCHANGED rows
  PROVE  Booked
<1>1. SUFFICES ASSUME NEW b \in Accounts
               PROVE  /\ available'[b] = available[b] + (IF b = a THEN x ELSE 0)
                      /\ locked'[b] = locked[b] - (IF b = a THEN x ELSE 0)
                      /\ deltaSum'[b] = deltaSum[b] + (IF b = a THEN x ELSE 0)
                      /\ lockSum'[b] = lockSum[b] + (IF b = a THEN x ELSE 0)
  BY DEF LedgerTypeOK, Booked
<1>2. a \in Accounts
  BY DEF LedgerTypeOK
<1>3. QED
  BY <1>2 DEF LedgerTypeOK, MoveLocked, Plus

\* Crediting and debiting the available balance is booked, when the account has a
\* row afterwards.
LEMMA CreditBooked ==
  ASSUME LedgerTypeOK, NEW a \in Accounts, NEW x \in Int, Credit(a, x),
         rows \subseteq rows', a \in rows'
  PROVE  Booked
<1>1. SUFFICES ASSUME NEW b \in Accounts
               PROVE  /\ available'[b] = available[b] + (IF b = a THEN x ELSE 0)
                      /\ deltaSum'[b] = deltaSum[b] + (IF b = a THEN x ELSE 0)
                      /\ locked'[b] = locked[b] /\ lockSum'[b] = lockSum[b]
  BY DEF LedgerTypeOK, Booked, Credit
<1>2. QED
  BY DEF LedgerTypeOK, Credit, Plus

\* The settlement of a fill is booked.
LEMMA FillBooked ==
  ASSUME LedgerTypeOK, NEW k \in Accounts, NEW s \in Accounts, NEW b \in Accounts,
         NEW x \in Nat, NEW y \in Nat, NEW z \in Nat, NEW o \in OrderIds,
         ProcessFillWithLockRelease(k, s, b, x, y, z, o)
  PROVE  Booked
<1> DEFINE Change(c) == ((IF c = k THEN x ELSE 0) + (IF c = s THEN -y ELSE 0))
                         + (IF c = b THEN z ELSE 0)
<1>1. ASSUME NEW f \in [Accounts -> Int], NEW c \in Accounts
      PROVE  Plus(Plus(Plus(f, k, x), s, -y), b, z)[c] = f[c] + Change(c)
  <2>1. /\ Plus(f, k, x) \in [Accounts -> Int]
        /\ Plus(f, k, x)[c] = f[c] + (IF c = k THEN x ELSE 0)
    BY DEF Plus
  <2>2. ASSUME NEW g \in [Accounts -> Int]
        PROVE  /\ Plus(g, s, -y) \in [Accounts -> Int]
               /\ Plus(g, s, -y)[c] = g[c] + (IF c = s THEN -y ELSE 0)
    BY DEF Plus
  <2>3. ASSUME NEW g \in [Accounts -> Int]
        PROVE  Plus(g, b, z)[c] = g[c] + (IF c = b THEN z ELSE 0)
    BY DEF Plus
  <2>4. /\ Plus(Plus(f, k, x), s, -y)[c]
             = Plus(f, k, x)[c] + (IF c = s THEN -y ELSE 0)
        /\ Plus(Plus(Plus(f, k, x), s, -y), b, z)[c]
             = Plus(Plus(f, k, x), s, -y)[c] + (IF c = b THEN z ELSE 0)
    BY <2>1, <2>2, <2>3
  <2>5. f[c] \in Int
    OBVIOUS
  <2>6. QED
    BY <2>1, <2>4, <2>5
<1>2. SUFFICES ASSUME NEW c \in Accounts
               PROVE  /\ available'[c] - available[c] = deltaSum'[c] - deltaSum[c]
                      /\ locked'[c] - locked[c] = lockSum[c] - lockSum'[c]
                      /\ c \notin rows' => /\ c \notin rows
                                          /\ available'[c] = available[c]
                                          /\ locked'[c] = locked[c]
  BY DEF Booked
<1>3. /\ available \in [Accounts -> Int] /\ deltaSum \in [Accounts -> Int]
      /\ locked \in [Accounts -> Nat] /\ lockSum \in [Accounts -> Int]
  BY DEF LedgerTypeOK
<1>4. /\ available'[c] = available[c] + Change(c)
      /\ deltaSum'[c] = deltaSum[c] + Change(c)
  BY <1>1, <1>3 DEF ProcessFillWithLockRelease, Settle
<1>5. /\ locked'[c] = locked[c] - (IF c = k THEN x ELSE 0)
      /\ lockSum'[c] = lockSum[c] + (IF c = k THEN x ELSE 0)
  BY <1>3 DEF ProcessFillWithLockRelease, Settle, Plus
<1>6. rows' = rows /\ k \in rows /\ s \in rows /\ b \in rows
  BY DEF ProcessFillWithLockRelease, Settleable, Settle
<1>7. c \notin rows => Change(c) = 0
  BY <1>6
<1>8. /\ available[c] \in Int /\ deltaSum[c] \in Int
      /\ locked[c] \in Int /\ lockSum[c] \in Int /\ Change(c) \in Int
  BY <1>3
<1> HIDE DEF Change
<1>9. available'[c] - available[c] = deltaSum'[c] - deltaSum[c]
  BY <1>4, <1>8
<1>10. locked'[c] - locked[c] = lockSum[c] - lockSum'[c]
  BY <1>5, <1>8
<1>11. c \notin rows' => available'[c] = available[c] /\ locked'[c] = locked[c]
  BY <1>4, <1>5, <1>6, <1>7, <1>8
<1>12. QED
  BY <1>6, <1>9, <1>10, <1>11

\* A lock is booked, and so is a release.
LEMMA LockBooked ==
  ASSUME LedgerTypeOK, NEW a \in Accounts, NEW x \in Nat, NEW o \in OrderIds,
         LockFunds(a, x, o) \/ ReleaseFunds(a, x, o)
  PROVE  Booked
<1>1. a \in rows /\ rows' = rows /\ (MoveLocked(a, x) \/ MoveLocked(a, -x))
  BY DEF LockFunds, ReleaseFunds, SufficientBalance, Releasable
<1>2. x \in Int /\ -x \in Int
  OBVIOUS
<1>3. QED
  BY <1>1, <1>2, MoveLockedBooked

\* The tables are opened with books that match.
LEMMA BooksStart == LedgerInit => BooksMatch
<1> SUFFICES ASSUME LedgerInit, NEW a \in Accounts
             PROVE  /\ deltaSum[a] = available[a] - Opening[a]
                    /\ lockSum[a] + locked[a] = 0
                    /\ a \notin rows => available[a] = 0 /\ locked[a] = 0
  BY DEF BooksMatch
<1>1. /\ deltaSum[a] = 0 /\ lockSum[a] = 0 /\ locked[a] = 0
      /\ available[a] = Opening[a] /\ rows = OpenRows
  BY DEF LedgerInit
<1>2. Opening[a] \in Nat /\ (a \notin OpenRows => Opening[a] = 0)
  BY LedgerAssumption
<1>3. deltaSum[a] = available[a] - Opening[a]
  BY <1>1, <1>2
<1>4. lockSum[a] + locked[a] = 0
  BY <1>1
<1>5. a \notin rows => available[a] = 0 /\ locked[a] = 0
  BY <1>1, <1>2
<1>6. QED
  BY <1>3, <1>4, <1>5

\* Whatever is booked keeps them matching.
LEMMA BooksStay ==
  ASSUME LedgerTypeOK, LedgerTypeOK', BooksMatch, Booked
  PROVE  BooksMatch'
<1> SUFFICES ASSUME NEW a \in Accounts
             PROVE  /\ deltaSum'[a] = available'[a] - Opening[a]
                    /\ lockSum'[a] + locked'[a] = 0
                    /\ a \notin rows' => available'[a] = 0 /\ locked'[a] = 0
  BY DEF BooksMatch
<1>1. /\ available[a] \in Int /\ available'[a] \in Int
      /\ deltaSum[a] \in Int /\ deltaSum'[a] \in Int
      /\ locked[a] \in Int /\ locked'[a] \in Int
      /\ lockSum[a] \in Int /\ lockSum'[a] \in Int
      /\ Opening[a] \in Int
  BY LedgerAssumption DEF LedgerTypeOK
<1>2. /\ deltaSum[a] = available[a] - Opening[a]
      /\ lockSum[a] + locked[a] = 0
      /\ a \notin rows => available[a] = 0 /\ locked[a] = 0
  BY DEF BooksMatch
<1>3. /\ available'[a] - available[a] = deltaSum'[a] - deltaSum[a]
      /\ locked'[a] - locked[a] = lockSum[a] - lockSum'[a]
      /\ a \notin rows' => /\ a \notin rows
                          /\ available'[a] = available[a] /\ locked'[a] = locked[a]
  BY DEF Booked
<1>4. deltaSum'[a] = available'[a] - Opening[a]
  BY <1>1, <1>2, <1>3
<1>5. lockSum'[a] + locked'[a] = 0
  <2>1. lockSum[a] + locked[a] = 0 /\ locked'[a] - locked[a] = lockSum[a] - lockSum'[a]
    BY <1>2, <1>3
  <2>2. QED
    BY <1>1, <2>1
<1>6. a \notin rows' => available'[a] = 0 /\ locked'[a] = 0
  BY <1>2, <1>3
<1>7. QED
  BY <1>4, <1>5, <1>6
=============================================================================
