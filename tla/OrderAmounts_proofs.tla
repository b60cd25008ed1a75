------------------------- MODULE OrderAmounts_proofs -------------------------
(***************************************************************************)
(* The decimals of the orders, for any scale of the columns, any base      *)
(* units, any requests and any quotes: what rounding does to the books, to *)
(* the locks and to the amounts that the swaps are asked for.              *)
(***************************************************************************)
EXTENDS OrderAmounts, Sums_proofs

-----------------------------------------------------------------------------
(* Arithmetic.                                                              *)

\* Division with remainder, and what it says of multiples.
LEMMA Division ==
  ASSUME NEW n \in Int, NEW d \in Nat \ {0}
  PROVE  /\ n \div d \in Int
         /\ d * (n \div d) <= n /\ n < d * (n \div d) + d
         /\ n % d = 0 => n = d * (n \div d)
OBVIOUS

LEMMA Quotient ==
  ASSUME NEW n \in Int, NEW d \in Nat \ {0}, NEW q \in Int, d * q <= n, n < d * q + d
  PROVE  n \div d = q
OBVIOUS

LEMMA Multiple ==
  ASSUME NEW q \in Int, NEW d \in Nat \ {0}
  PROVE  (q * d) % d = 0 /\ (d * q) % d = 0
OBVIOUS

LEMMA Products ==
  ASSUME NEW x \in Nat, NEW y \in Nat
  PROVE  x * y \in Nat /\ (x # 0 /\ y # 0 => x * y # 0)
OBVIOUS

LEMMA Cancelled ==
  ASSUME NEW p \in Int, NEW q \in Int, NEW d \in Nat \ {0}
  PROVE  (p * d <= q * d => p <= q) /\ (p * d < q * d => p < q)
OBVIOUS

\* The units that amounts are counted in.
LEMMA Units ==
  /\ One \in Nat \ {0} /\ Cell \in Nat \ {0}
  /\ \A a \in Assets : /\ BaseUnits[a] \in Nat \ {0} /\ One \div BaseUnits[a] \in Nat
                       /\ One = BaseUnits[a] * (One \div BaseUnits[a])
<1>1. Scale \in Nat \ {0} /\ Part \in Nat \ {0}
  BY OrderAmountsAssumption
<1>2. Part * Scale * Part \in Nat \ {0} /\ Scale * Part * Scale * Part \in Nat \ {0}
  <2>1. Part * Scale \in Nat \ {0} /\ Scale * Part \in Nat \ {0}
    BY <1>1, Products
  <2>2. Part * Scale * Part \in Nat \ {0} /\ Scale * Part * Scale \in Nat \ {0}
    BY <1>1, <2>1, Products
  <2>3. QED
    BY <1>1, <2>2, Products
<1>3. One \in Nat \ {0}
  BY <1>2 DEF One
<1>4. Scale * Part * Scale * Part = Scale * (Part * Scale * Part)
  BY <1>1
<1>5. Cell = Part * Scale * Part
  <2>1. One = Scale * (Part * Scale * Part)
    BY <1>4 DEF One
  <2> DEFINE q == Part * Scale * Part
  <2>2. q \in Int /\ One \in Int /\ Scale * q <= One /\ One < Scale * q + Scale
    BY <1>1, <1>2, <1>3, <2>1
  <2> HIDE DEF q
  <2>3. One \div Scale = q
    BY <1>1, <2>2, Quotient
  <2>4. QED
    BY <2>3 DEF Cell, q
<1>6. ASSUME NEW a \in Assets
      PROVE  /\ BaseUnits[a] \in Nat \ {0} /\ One \div BaseUnits[a] \in Nat
             /\ One = BaseUnits[a] * (One \div BaseUnits[a])
  <2> DEFINE u == BaseUnits[a]
  <2>1. u \in Nat \ {0} /\ One % u = 0
    BY OrderAmountsAssumption
  <2> HIDE DEF u
  <2>2. One \div u \in Int /\ One = u * (One \div u)
    BY <1>3, <2>1, Division
  <2>3. One \div u >= 0
    BY <1>3, <2>1, <2>2
  <2>4. QED
    BY <2>1, <2>2, <2>3 DEF u
<1>7. QED
  BY <1>2, <1>3, <1>5, <1>6

\* Whole numbers of a column's units.
Whole(x) == x % Cell = 0

LEMMA WholeSum ==
  ASSUME NEW x \in Int, NEW y \in Int, Whole(x), Whole(y)
  PROVE  Whole(x + y) /\ Whole(x - y) /\ Whole(-x)
<1> DEFINE p == x \div Cell  q == y \div Cell
<1>1. /\ Cell \in Nat \ {0} /\ p \in Int /\ q \in Int
      /\ x = Cell * p /\ y = Cell * q
  BY Units, Division DEF Whole
<1> HIDE DEF p, q
<1>2. x + y = Cell * (p + q) /\ x - y = Cell * (p - q) /\ -x = Cell * (-p)
  BY <1>1
<1>3. p + q \in Int /\ p - q \in Int /\ -p \in Int
  BY <1>1
<1>4. QED
  BY <1>1, <1>2, <1>3, Multiple DEF Whole

\* Two of them less than a unit apart are one.
LEMMA WholeSame ==
  ASSUME NEW x \in Int, NEW y \in Int, Whole(x), Whole(y), x - y < Cell, y - x < Cell
  PROVE  x = y
<1> DEFINE q == (x - y) \div Cell
<1>1. Cell \in Nat \ {0} /\ x - y \in Int /\ Whole(x - y)
  BY Units, WholeSum
<1>2. q \in Int /\ x - y = Cell * q
  BY <1>1, Division DEF Whole
<1>3. (x - y) \div Cell = 0
  <2> DEFINE d == x - y
  <2>1. d \in Int /\ d < Cell /\ -d < Cell
    BY <1>1
  <2> HIDE DEF d
  <2>2. d = Cell * q
    BY <1>2 DEF d
  <2> HIDE DEF q
  <2>3. q < 1 /\ q > -1
    BY <1>1, <1>2, <2>1, <2>2
  <2>4. QED
    BY <1>2, <2>3 DEF q
<1>4. QED
  BY <1>1, <1>2, <1>3

-----------------------------------------------------------------------------
(* Columns.                                                                 *)

Nearest(n) == ((2 * n + Cell) \div (2 * Cell)) * Cell

LEMMA StoredIs ==
  ASSUME NEW x \in Int
  PROVE  (x >= 0 => Stored(x) = Nearest(x)) /\ (x < 0 => Stored(x) = -Nearest(-x))
BY DEF Stored, Nearest

\* The nearest whole number, halves up: at most half a unit above, less than that below.
LEMMA NearestFacts ==
  ASSUME NEW n \in Nat
  PROVE  /\ Nearest(n) \in Nat /\ Whole(Nearest(n))
         /\ 2 * Nearest(n) <= 2 * n + Cell /\ 2 * Nearest(n) > 2 * n - Cell
<1> DEFINE m == 2 * n + Cell  d == 2 * Cell  q == m \div d
<1>1. Cell \in Nat \ {0} /\ m \in Nat /\ d \in Nat \ {0}
  BY Units
<1>2. q \in Int /\ d * q <= m /\ m < d * q + d
  <2> HIDE DEF m, d
  <2>1. QED
    BY <1>1, Division
<1> HIDE DEF q
<1>3. Nearest(n) = q * Cell
  BY DEF Nearest, q
<1>4. 2 * (q * Cell) = d * q
  BY <1>1, <1>2
<1>5. q >= 0
  <2>1. ASSUME q <= -1 PROVE FALSE
    <3>1. d * q <= d * (-1)
      BY <1>1, <1>2, <2>1
    <3>2. QED
      BY <1>1, <1>2, <3>1
  <2>2. QED
    BY <1>2, <2>1
<1>6. q * Cell \in Nat /\ Whole(q * Cell)
  BY <1>1, <1>2, <1>5, Products, Multiple DEF Whole
<1>7. 2 * Nearest(n) = d * q /\ Nearest(n) \in Nat /\ Whole(Nearest(n))
  BY <1>3, <1>4, <1>6
<1>8. QED
  BY <1>1, <1>2, <1>7

\* There is only one such number.
LEMMA NearestIs ==
  ASSUME NEW n \in Nat, NEW m \in Int, Whole(m), 2 * m <= 2 * n + Cell, 2 * m > 2 * n - Cell
  PROVE  Nearest(n) = m
<1> DEFINE k == Nearest(n)
<1>1. k \in Int /\ Whole(k) /\ 2 * k <= 2 * n + Cell /\ 2 * k > 2 * n - Cell
  BY NearestFacts
<1>2. Cell \in Nat
  BY Units
<1> HIDE DEF k
<1>3. k - m < Cell /\ m - k < Cell
  BY <1>1, <1>2
<1>4. k = m
  BY <1>1, <1>3, WholeSame
<1>5. QED
  BY <1>4 DEF k

\* What a column keeps: a whole number, exact where it can be, half a unit off at most.
LEMMA StoredFacts ==
  ASSUME NEW x \in Int
  PROVE  /\ Stored(x) \in Int /\ Whole(Stored(x))
         /\ x >= 0 => /\ Stored(x) \in Nat
                      /\ 2 * Stored(x) <= 2 * x + Cell /\ 2 * Stored(x) > 2 * x - Cell
         /\ Whole(x) => Stored(x) = x
<1>1. Cell \in Nat \ {0}
  BY Units
<1>2. CASE x >= 0
  <2>1. x \in Nat /\ Stored(x) = Nearest(x)
    BY <1>2, StoredIs
  <2>2. Whole(x) => Nearest(x) = x
    BY <1>1, <2>1, NearestIs
  <2>3. QED
    BY <2>1, <2>2, NearestFacts
<1>3. CASE x < 0
  <2>1. -x \in Nat /\ Stored(x) = -Nearest(-x)
    BY <1>3, StoredIs
  <2>2. Nearest(-x) \in Nat /\ Whole(Nearest(-x))
    BY <2>1, NearestFacts
  <2>3. Whole(x) => Nearest(-x) = -x
    BY <1>1, <2>1, NearestIs, WholeSum
  <2>4. Whole(-Nearest(-x))
    BY <2>2, WholeSum
  <2>5. QED
    BY <1>3, <2>1, <2>2, <2>3, <2>4
<1>4. QED
  BY <1>2, <1>3

\* A credit of a whole balance is stored as its entry is.
LEMMA StoredCredit ==
  ASSUME NEW b \in Nat, Whole(b), NEW x \in Nat
  PROVE  Stored(b + x) = b + Stored(x)
<1>1. /\ Stored(x) \in Nat /\ Whole(Stored(x)) /\ Cell \in Nat
      /\ 2 * Stored(x) <= 2 * x + Cell /\ 2 * Stored(x) > 2 * x - Cell
  BY StoredFacts, Units
<1>2. b + x \in Nat /\ Stored(b + x) = Nearest(b + x)
  BY StoredIs
<1>3. b + Stored(x) \in Int /\ Whole(b + Stored(x))
  <2> DEFINE s == Stored(x)
  <2>1. s \in Int /\ Whole(s) /\ b \in Int
    BY <1>1
  <2> HIDE DEF s
  <2>2. b + s \in Int /\ Whole(b + s)
    BY <2>1, WholeSum
  <2>3. QED
    BY <2>2 DEF s
<1>4. /\ 2 * (b + Stored(x)) <= 2 * (b + x) + Cell
      /\ 2 * (b + Stored(x)) > 2 * (b + x) - Cell
  BY <1>1
<1>5. QED
  BY <1>2, <1>3, <1>4, NearestIs

\* A debit of a whole balance leaves as much as its entry says, or one unit more.
LEMMA StoredDebit ==
  ASSUME NEW b \in Nat, Whole(b), NEW x \in Nat
  PROVE  /\ \/ Stored(b - x) = b + Stored(-x)
            \/ Stored(b - x) = b + Stored(-x) + Cell
         /\ 2 * x < 2 * b + Cell => Stored(b - x) \in Nat
<1> DEFINE s == Stored(x)
<1>1. /\ s \in Nat /\ Whole(s) /\ Cell \in Nat \ {0}
      /\ 2 * s <= 2 * x + Cell /\ 2 * s > 2 * x - Cell
  BY StoredFacts, Units
<1>2. Stored(-x) = -s
  <2>1. CASE x = 0
    <3>1. Whole(0)
      BY Units, Multiple DEF Whole
    <3>2. Stored(0) = 0
      BY <3>1, StoredFacts
    <3>3. QED
      BY <2>1, <3>2
  <2>2. CASE x > 0
    BY <2>2, StoredIs
  <2>3. QED
    BY <2>1, <2>2
<1> HIDE DEF s
<1>3. b - s \in Int /\ Whole(b - s) /\ Whole(b - s + Cell) /\ Whole(s - b)
  <2>1. b - s \in Int /\ Whole(b - s) /\ Whole(s - b)
    BY <1>1, WholeSum
  <2>2. (1 * Cell) % Cell = 0 /\ 1 * Cell = Cell
    BY <1>1, Multiple
  <2>3. Whole(Cell)
    BY <2>2 DEF Whole
  <2>4. QED
    BY <1>1, <2>1, <2>3, WholeSum
<1>4. CASE x <= b
  <2>1. b - x \in Nat /\ Stored(b - x) = Nearest(b - x)
    BY <1>4, StoredIs
  <2>2. Nearest(b - x) = b - s \/ Nearest(b - x) = b - s + Cell
    <3>1. CASE 2 * s < 2 * x + Cell
      <4>1. 2 * (b - s) <= 2 * (b - x) + Cell /\ 2 * (b - s) > 2 * (b - x) - Cell
        BY <1>1, <3>1
      <4>2. QED
        BY <1>3, <2>1, <4>1, NearestIs
    <3>2. CASE 2 * s = 2 * x + Cell
      <4>1. /\ b - s + Cell \in Int
            /\ 2 * (b - s + Cell) <= 2 * (b - x) + Cell
            /\ 2 * (b - s + Cell) > 2 * (b - x) - Cell
        BY <1>1, <3>2
      <4>2. QED
        BY <1>3, <2>1, <4>1, NearestIs
    <3>3. QED
      BY <1>1, <3>1, <3>2
  <2>3. QED
    BY <1>1, <1>2, <2>1, <2>2, NearestFacts
<1>5. CASE x > b
  <2>1. x - b \in Nat /\ b - x < 0 /\ -(b - x) = x - b
    BY <1>5
  <2>2. Stored(b - x) = -Nearest(x - b)
    BY <2>1, StoredIs
  <2>3. Nearest(x - b) = s - b
    <3>1. 2 * (s - b) <= 2 * (x - b) + Cell /\ 2 * (s - b) > 2 * (x - b) - Cell
      BY <1>1
    <3>2. QED
      BY <1>1, <1>3, <2>1, <3>1, NearestIs
  <2>4. 2 * x < 2 * b + Cell => s - b = 0
    <3>1. Whole(0) /\ s - b \in Int
      BY <1>1, Multiple DEF Whole
    <3>2. ASSUME 2 * x < 2 * b + Cell PROVE s - b < Cell
      BY <1>1, <3>2
    <3>3. s - b > -Cell
      BY <1>1, <1>5
    <3>4. QED
      BY <1>1, <1>3, <3>1, <3>2, <3>3, WholeSame
  <2>5. QED
    BY <1>1, <1>2, <2>2, <2>3, <2>4
<1>6. QED
  BY <1>4, <1>5

-----------------------------------------------------------------------------
(* The amounts of an order.                                                 *)

Rows == [side : {"buy", "sell"}, size : Nat, price : Nat]

RowOf(r) == [side |-> r.side, size |-> Stored(r.size), price |-> Stored(r.price)]

\* A request is stored as a row.
LEMMA RequestTypes ==
  ASSUME NEW r \in Asked
  PROVE  r \in Rows /\ RowOf(r) \in Rows
<1>1. r \in [side : {"buy", "sell"}, size : Nat \ {0}, price : Nat \ {0}]
  BY OrderAmountsAssumption
<1>2. r \in Rows /\ r.side \in {"buy", "sell"} /\ r.size \in Nat /\ r.price \in Nat
  BY <1>1 DEF Rows
<1>3. Stored(r.size) \in Nat /\ Stored(r.price) \in Nat
  BY <1>2, StoredFacts
<1>4. QED
  BY <1>2, <1>3 DEF Rows, RowOf

\* What an order locks and asks for.
LEMMA Amounts ==
  ASSUME NEW r \in Rows
  PROVE  /\ LockAsset(r) \in Assets /\ BuyAsset(r) \in Assets /\ LockAsset(r) # BuyAsset(r)
         /\ LockAmount(r) \in Nat /\ InAmount(r) \in Nat
<1>1. r.side \in {"buy", "sell"} /\ r.size \in Nat /\ r.price \in Nat
  BY DEF Rows
<1>2. LockAsset(r) \in Assets /\ BuyAsset(r) \in Assets /\ LockAsset(r) # BuyAsset(r)
  BY OrderAmountsAssumption DEF LockAsset, BuyAsset, Assets
<1>3. ASSUME NEW n \in Nat PROVE n \div One \in Nat
  <2>1. One \in Nat \ {0}
    BY Units
  <2> HIDE DEF One
  <2>2. QED
    BY <2>1
<1>4. LockAmount(r) \in Nat
  <2>1. r.size * r.price \in Nat
    BY <1>1, Products
  <2>2. Times(r.size, r.price) \in Nat
    BY <1>3, <2>1 DEF Times
  <2>3. QED
    BY <1>1, <2>2 DEF LockAmount
<1>5. LockAmount(r) * BaseUnits[LockAsset(r)] \in Nat
  BY <1>2, <1>4, Units, Products
<1>6. InAmount(r) \in Nat
  BY <1>3, <1>5 DEF InAmount
<1>7. QED
  BY <1>2, <1>4, <1>6

\* A number of base units as an amount.
LEMMA TokensType ==
  ASSUME NEW n \in Nat, NEW a \in Assets
  PROVE  Tokens(n, a) \in Nat
BY Units, Products DEF Tokens

\* What a quote promises is an amount.
LEMMA PromisedType ==
  ASSUME NEW n \in Nat, NEW a \in Assets
  PROVE  Promised(n, a) \in Nat
<1>1. Tokens(n, a) \in Nat /\ Part \in Nat \ {0}
  BY TokensType, OrderAmountsAssumption
<1>2. QED
  BY <1>1 DEF Promised

\* The amount asked for in whole base units is the lock but for a part of one unit.
LEMMA AskedWithin ==
  ASSUME NEW r \in Rows
  PROVE  /\ Tokens(InAmount(r), LockAsset(r)) <= LockAmount(r)
         /\ LockAmount(r) < Tokens(InAmount(r), LockAsset(r)) + Tokens(1, LockAsset(r))
<1> DEFINE a == LockAsset(r)  x == LockAmount(r)  b == BaseUnits[a]
           u == One \div BaseUnits[a]  n == InAmount(r)
<1>1. a \in Assets /\ x \in Nat /\ n \in Nat
  BY Amounts
<1>2. b \in Nat \ {0} /\ u \in Nat /\ One \in Nat \ {0} /\ One = b * u
  BY <1>1, Units
<1>3. n = (x * b) \div One
  BY DEF InAmount
<1>4. Tokens(n, a) = n * u /\ Tokens(1, a) = 1 * u
  BY DEF Tokens
<1> SUFFICES n * u <= x /\ x < n * u + 1 * u
  BY <1>4
<1> HIDE DEF a, x, b, u, n, One
<1>5. One * n <= x * b /\ x * b < One * n + One
  <2>1. x * b \in Int
    BY <1>1, <1>2, Products
  <2>2. QED
    BY <1>2, <1>3, <2>1, Division
<1>6. n * u \in Int /\ n * u + u \in Int
  BY <1>1, <1>2, Products
<1>7. One * n = (n * u) * b /\ One * n + One = (n * u + u) * b
  BY <1>1, <1>2
<1>8. n * u <= x /\ x < n * u + u
  BY <1>1, <1>2, <1>5, <1>6, <1>7, Cancelled
<1>9. QED
  BY <1>2, <1>8

-----------------------------------------------------------------------------
(* The updates of a wallet.                                                 *)

\* Balances that are not negative, and whole as everything that columns hold.
Sound(w) ==
  /\ w \in [Assets -> [available : Nat, locked : Nat, booked : Int]]
  /\ \A a \in Assets : Whole(w[a].available) /\ Whole(w[a].locked) /\ Whole(w[a].booked)

\* How far the available balance is ahead of its entries.
Ahead(w, a) == w[a].available - Opening[a] - w[a].booked

\* One update of two balances, with its entry.
LEMMA BookedEffect ==
  ASSUME NEW w, Sound(w), NEW a \in Assets, NEW x \in Int, NEW y \in Int,
         Stored(w[a].available + x) \in Nat, w[a].locked + y >= 0
  PROVE  /\ Sound(Booked(w, a, x, y))
         /\ Booked(w, a, x, y)[a].available = Stored(w[a].available + x)
         /\ Booked(w, a, x, y)[a].locked = Stored(w[a].locked + y)
         /\ Booked(w, a, x, y)[a].booked = w[a].booked + Stored(x)
         /\ \A b \in Assets : b # a => Booked(w, a, x, y)[b] = w[b]
<1> DEFINE v == Booked(w, a, x, y)
           new == [available |-> Stored(w[a].available + x),
                   locked |-> Stored(w[a].locked + y), booked |-> w[a].booked + Stored(x)]
<1>1. /\ w[a].available \in Nat /\ w[a].locked \in Nat /\ w[a].booked \in Int
      /\ Whole(w[a].booked)
  BY DEF Sound
<1>2. /\ Stored(w[a].available + x) \in Nat /\ Stored(w[a].locked + y) \in Nat
      /\ Stored(x) \in Int /\ Whole(Stored(x)) /\ Whole(Stored(w[a].available + x))
      /\ Whole(Stored(w[a].locked + y))
  BY <1>1, StoredFacts
<1>3. new \in [available : Nat, locked : Nat, booked : Int]
  BY <1>1, <1>2
<1>4. v = [w EXCEPT ![a] = new]
  BY DEF Booked
<1>5. v[a] = new /\ \A b \in Assets : b # a => v[b] = w[b]
  BY <1>4 DEF Sound
<1>6. v \in [Assets -> [available : Nat, locked : Nat, booked : Int]]
  BY <1>3, <1>4 DEF Sound
<1>7. Whole(new.available) /\ Whole(new.locked) /\ Whole(new.booked)
  BY <1>1, <1>2, WholeSum
<1> HIDE DEF v, new
<1>8. Sound(v)
  BY <1>5, <1>6, <1>7 DEF Sound
<1>9. QED
  BY <1>5, <1>8 DEF v, new

\* A credit keeps the books in step.
LEMMA Credited ==
  ASSUME NEW w, Sound(w), NEW a \in Assets, NEW x \in Nat, NEW y \in Int, w[a].locked + y >= 0
  PROVE  /\ Sound(Booked(w, a, x, y))
         /\ Booked(w, a, x, y)[a].available = w[a].available + Stored(x)
         /\ Booked(w, a, x, y)[a].locked = Stored(w[a].locked + y)
         /\ \A b \in Assets : b # a => Booked(w, a, x, y)[b] = w[b]
         /\ \A b \in Assets : Ahead(Booked(w, a, x, y), b) = Ahead(w, b)
<1>1. w[a].available \in Nat /\ w[a].booked \in Int /\ Whole(w[a].available)
  BY DEF Sound
<1>2. Stored(w[a].available + x) = w[a].available + Stored(x) /\ Stored(x) \in Nat
  <2>1. Stored(w[a].available + x) = w[a].available + Stored(x)
    BY <1>1, StoredCredit
  <2>2. x \in Int /\ x >= 0
    OBVIOUS
  <2>3. Stored(x) \in Nat
    BY <2>2, StoredFacts
  <2>4. QED
    BY <2>1, <2>3
<1>3. /\ Sound(Booked(w, a, x, y))
      /\ Booked(w, a, x, y)[a].available = Stored(w[a].available + x)
      /\ Booked(w, a, x, y)[a].locked = Stored(w[a].locked + y)
      /\ Booked(w, a, x, y)[a].booked = w[a].booked + Stored(x)
      /\ \A b \in Assets : b # a => Booked(w, a, x, y)[b] = w[b]
  BY <1>1, <1>2, BookedEffect
<1>4. Opening[a] \in Nat
  BY OrderAmountsAssumption
<1>5. Ahead(Booked(w, a, x, y), a) = Ahead(w, a)
  BY <1>1, <1>2, <1>3, <1>4 DEF Ahead
<1>6. QED
  BY <1>2, <1>3, <1>5 DEF Ahead

\* A debit lets the balance run ahead of its entries by one unit or not at all.
LEMMA Debited ==
  ASSUME NEW w, Sound(w), NEW a \in Assets, NEW x \in Nat, NEW y \in Int, w[a].locked + y >= 0,
         2 * x < 2 * w[a].available + Cell
  PROVE  /\ Sound(Booked(w, a, -x, y))
         /\ Booked(w, a, -x, y)[a].locked = Stored(w[a].locked + y)
         /\ \A b \in Assets : b # a => Booked(w, a, -x, y)[b] = w[b]
         /\ \A b \in Assets : \/ Ahead(Booked(w, a, -x, y), b) = Ahead(w, b)
                              \/ Ahead(Booked(w, a, -x, y), b) = Ahead(w, b) + Cell
<1>1. w[a].available \in Nat /\ w[a].booked \in Int /\ Whole(w[a].available)
  BY DEF Sound
<1>2. /\ \/ Stored(w[a].available - x) = w[a].available + Stored(-x)
         \/ Stored(w[a].available - x) = w[a].available + Stored(-x) + Cell
      /\ Stored(w[a].available - x) \in Nat
  BY <1>1, StoredDebit
<1>3. -x \in Int /\ Stored(-x) \in Int /\ w[a].available + (-x) = w[a].available - x
  BY <1>1, StoredFacts
<1>4. /\ Sound(Booked(w, a, -x, y))
      /\ Booked(w, a, -x, y)[a].available = Stored(w[a].available + (-x))
      /\ Booked(w, a, -x, y)[a].locked = Stored(w[a].locked + y)
      /\ Booked(w, a, -x, y)[a].booked = w[a].booked + Stored(-x)
      /\ \A b \in Assets : b # a => Booked(w, a, -x, y)[b] = w[b]
  BY <1>1, <1>2, <1>3, BookedEffect
<1>5. Opening[a] \in Nat /\ Cell \in Nat
  BY OrderAmountsAssumption, Units
<1>6. \/ Ahead(Booked(w, a, -x, y), a) = Ahead(w, a)
      \/ Ahead(Booked(w, a, -x, y), a) = Ahead(w, a) + Cell
  BY <1>1, <1>2, <1>3, <1>4, <1>5 DEF Ahead
<1>7. QED
  BY <1>4, <1>6 DEF Ahead

\* A release gives back what was locked.
LEMMA Released ==
  ASSUME NEW w, Sound(w), NEW r \in Rows, w[LockAsset(r)].locked >= LockAmount(r)
  PROVE  /\ Sound(Release(w, r))
         /\ Release(w, r)[LockAsset(r)].available
              = w[LockAsset(r)].available + Stored(LockAmount(r))
         /\ Release(w, r)[LockAsset(r)].locked
              = Stored(w[LockAsset(r)].locked - LockAmount(r))
         /\ \A b \in Assets : b # LockAsset(r) => Release(w, r)[b] = w[b]
         /\ \A b \in Assets : Ahead(Release(w, r), b) = Ahead(w, b)
<1> DEFINE a == LockAsset(r)  x == LockAmount(r)
<1>1. a \in Assets /\ x \in Nat /\ w[a].locked \in Nat /\ w[a].locked >= x
  BY Amounts DEF Sound
<1>2. Release(w, r) = Booked(w, a, x, -x)
  BY DEF Release
<1> HIDE DEF a, x
<1>3. -x \in Int /\ w[a].locked + (-x) >= 0 /\ w[a].locked + (-x) = w[a].locked - x
  BY <1>1
<1>4. /\ Sound(Booked(w, a, x, -x))
      /\ Booked(w, a, x, -x)[a].available = w[a].available + Stored(x)
      /\ Booked(w, a, x, -x)[a].locked = Stored(w[a].locked + (-x))
      /\ \A b \in Assets : b # a => Booked(w, a, x, -x)[b] = w[b]
      /\ \A b \in Assets : Ahead(Booked(w, a, x, -x), b) = Ahead(w, b)
  BY <1>1, <1>3, Credited
<1>5. QED
  BY <1>2, <1>3, <1>4 DEF a, x

\* An update that leaves the locked balance alone.
LEMMA StillLocked ==
  ASSUME NEW w, Sound(w), NEW a \in Assets
  PROVE  w[a].locked \in Nat /\ w[a].locked + 0 >= 0 /\ Stored(w[a].locked + 0) = w[a].locked
<1>1. w[a].locked \in Nat /\ Whole(w[a].locked)
  BY DEF Sound
<1>2. w[a].locked + 0 = w[a].locked
  BY <1>1
<1>3. QED
  BY <1>1, <1>2, StoredFacts

\* A fill that sells no more than the lock: one debit, and the lock is released.
LEMMA FilledEffect ==
  ASSUME NEW w, Sound(w), NEW r \in Rows, w[LockAsset(r)].locked >= LockAmount(r),
         NEW sold \in Nat, sold <= LockAmount(r), NEW bought \in Nat
  PROVE  /\ Sound(Filled(w, r, sold, bought))
         /\ Filled(w, r, sold, bought)[LockAsset(r)].locked
              = Stored(w[LockAsset(r)].locked - LockAmount(r))
         /\ \A b \in Assets : b # LockAsset(r)
              => Filled(w, r, sold, bought)[b].locked = w[b].locked
         /\ \A b \in Assets : \/ Ahead(Filled(w, r, sold, bought), b) = Ahead(w, b)
                              \/ Ahead(Filled(w, r, sold, bought), b) = Ahead(w, b) + Cell
<1> DEFINE a == LockAsset(r)  x == LockAmount(r)  c == BuyAsset(r)
           w1 == Release(w, r)
           w2 == Booked(w1, a, -sold, 0)
           w3 == Booked(w2, c, bought, 0)
<1>1. a \in Assets /\ c \in Assets /\ a # c /\ x \in Nat
  BY Amounts
<1>2. Filled(w, r, sold, bought) = w3
  BY DEF Filled
<1>3. /\ Sound(w1) /\ w1[a].available = w[a].available + Stored(x)
      /\ w1[a].locked = Stored(w[a].locked - x)
      /\ \A b \in Assets : b # a => w1[b] = w[b]
      /\ \A b \in Assets : Ahead(w1, b) = Ahead(w, b)
  BY Released
<1> HIDE DEF w1
<1>4. 2 * sold < 2 * w1[a].available + Cell
  <2>1. x \in Int /\ x >= 0 /\ sold <= x
    BY <1>1
  <2>2. w[a].available \in Nat
    BY <1>1 DEF Sound
  <2>3. Stored(x) \in Nat /\ 2 * Stored(x) > 2 * x - Cell /\ Cell \in Nat
    BY <2>1, StoredFacts, Units
  <2> HIDE DEF a, x
  <2>4. QED
    BY <1>3, <2>1, <2>2, <2>3
<1>5. w1[a].locked + 0 >= 0 /\ Stored(w1[a].locked + 0) = w1[a].locked
  BY <1>1, <1>3, StillLocked
<1> HIDE DEF a, x, c
<1>6. /\ Sound(w2) /\ w2[a].locked = w1[a].locked
      /\ \A b \in Assets : b # a => w2[b] = w1[b]
      /\ \A b \in Assets : Ahead(w2, b) = Ahead(w1, b) \/ Ahead(w2, b) = Ahead(w1, b) + Cell
  BY <1>1, <1>3, <1>4, <1>5, Debited
<1> HIDE DEF w2
<1>7. w2[c].locked + 0 >= 0 /\ Stored(w2[c].locked + 0) = w2[c].locked
  BY <1>1, <1>6, StillLocked
<1>8. /\ Sound(w3) /\ w3[c].locked = w2[c].locked
      /\ \A b \in Assets : b # c => w3[b] = w2[b]
      /\ \A b \in Assets : Ahead(w3, b) = Ahead(w2, b)
  BY <1>1, <1>6, <1>7, Credited
<1> HIDE DEF w3
<1>9. w3[a].locked = Stored(w[a].locked - x)
  BY <1>1, <1>3, <1>6, <1>8
<1>10. \A b \in Assets : b # a => w3[b].locked = w[b].locked
  BY <1>1, <1>3, <1>6, <1>8
<1>11. \A b \in Assets : Ahead(w3, b) = Ahead(w, b) \/ Ahead(w3, b) = Ahead(w, b) + Cell
  BY <1>3, <1>6, <1>8
<1>12. QED
  BY <1>2, <1>8, <1>9, <1>10, <1>11 DEF a, x

-----------------------------------------------------------------------------
(* The orders and their wallets under every step.                           *)

Quotes == [from : Assets, to : Assets, took : Nat \ {0}, gave : Outs]

Shape ==
  /\ phase \in [OrderIds -> Phases]
  /\ asked \in [OrderIds -> Asked \cup {Nothing}]
  /\ row \in [OrderIds -> Rows \cup {Nothing}]
  /\ swap \in [OrderIds -> Quotes \cup {Nothing}]

\* The request, the row and the swap that an order in a phase has.
HasRequest == Phases \ {"new"}
HasRow == Phases \ {"new", "locked", "rejected"}
HasSwap == {"swapped", "settled", "unsettled"}

Recorded ==
  \A o \in OrderIds :
    /\ phase[o] \in HasRequest => asked[o] \in Asked
    /\ phase[o] \in HasRow => row[o] = RowOf(asked[o])
    /\ phase[o] \in HasSwap => /\ swap[o] \in Quotes
                               /\ swap[o].took = InAmount(row[o])
    /\ phase[o] \notin HasSwap => swap[o] = Nothing

Inv == Shape /\ Recorded /\ Sound(wallet)

\* An order that has a row.
LEMMA RowTypes ==
  ASSUME Inv, NEW o \in OrderIds, phase[o] \in HasRow
  PROVE  row[o] \in Rows /\ row[o] = RowOf(asked[o]) /\ asked[o] \in Asked
<1>1. asked[o] \in Asked /\ row[o] = RowOf(asked[o])
  BY DEF Inv, Recorded, HasRow, HasRequest
<1>2. QED
  BY <1>1, RequestTypes

\* A quote that is accepted.
LEMMA QuoteTypes ==
  ASSUME NEW r \in Rows, NEW n \in Outs, Acceptable(QuoteOf(r, n))
  PROVE  QuoteOf(r, n) \in Quotes /\ QuoteOf(r, n).took = InAmount(r)
<1>1. n \in Nat \ {0} /\ InAmount(r) \in Nat
  BY Amounts, OrderAmountsAssumption
<1>2. InputMint(r) \in Assets /\ OutputMint(r) \in Assets
  BY DEF InputMint, OutputMint, Assets
<1>3. QuoteOf(r, n).gave = IF InAmount(r) = 0 THEN 0 ELSE n
  BY DEF QuoteOf
<1>4. InAmount(r) # 0
  BY <1>3 DEF Acceptable
<1>5. QED
  BY <1>1, <1>2, <1>4 DEF QuoteOf, Quotes

\* What a fill sells is no more than the lock.
LEMMA SoldWithin ==
  ASSUME Inv, NEW o \in OrderIds, phase[o] \in HasSwap
  PROVE  /\ row[o] \in Rows
         /\ Tokens(swap[o].took, LockAsset(row[o])) \in Nat
         /\ Tokens(swap[o].took, LockAsset(row[o])) <= LockAmount(row[o])
         /\ Promised(swap[o].gave, BuyAsset(row[o])) \in Nat
<1>1. row[o] \in Rows
  BY RowTypes DEF HasSwap, HasRow, Phases
<1>2. swap[o] \in Quotes /\ swap[o].took = InAmount(row[o])
  BY DEF Inv, Recorded
<1>3. swap[o].took \in Nat /\ swap[o].gave \in Nat
  BY <1>2, OrderAmountsAssumption DEF Quotes
<1>4. LockAsset(row[o]) \in Assets /\ BuyAsset(row[o]) \in Assets
  BY <1>1, Amounts
<1>5. /\ Tokens(swap[o].took, LockAsset(row[o])) \in Nat
      /\ Promised(swap[o].gave, BuyAsset(row[o])) \in Nat
  BY <1>3, <1>4, TokensType, PromisedType
<1>6. Tokens(swap[o].took, LockAsset(row[o])) <= LockAmount(row[o])
  BY <1>1, <1>2, AskedWithin
<1>7. QED
  BY <1>1, <1>5, <1>6

\* The records of an order under its own steps, and of the others.
LEMMA StepRecorded ==
  ASSUME Inv, NEW o \in OrderIds,
         Lock(o) \/ Insert(o) \/ Undo(o) \/ Cancel(o) \/ Fail(o) \/ Swap(o) \/ Settle(o)
  PROVE  /\ Shape' /\ Recorded'
         /\ \A q \in OrderIds \ {o} : phase'[q] = phase[q] /\ asked'[q] = asked[q]
<1>0. Shape /\ Recorded
  BY DEF Inv
<1> DEFINE Done == /\ Shape' /\ Recorded'
                   /\ \A q \in OrderIds \ {o} : phase'[q] = phase[q] /\ asked'[q] = asked[q]
<1>1. CASE Lock(o)
  <2>1. PICK r \in Asked : asked' = [asked EXCEPT ![o] = r]
    BY <1>1 DEF Lock
  <2>2. phase[o] = "new" /\ phase' = [phase EXCEPT ![o] = "locked"] /\ UNCHANGED <<row, swap>>
    BY <1>1 DEF Lock, Goes
  <2>3. Shape'
    BY <1>0, <2>1, <2>2 DEF Shape, Phases
  <2>4. /\ phase'[o] = "locked" /\ asked'[o] = r
        /\ \A q \in OrderIds \ {o} : phase'[q] = phase[q] /\ asked'[q] = asked[q]
    BY <1>0, <2>1, <2>2 DEF Shape
  <2>5. Recorded'
    BY <1>0, <2>1, <2>2, <2>4 DEF Recorded, HasRequest, HasRow, HasSwap, Phases
  <2>6. QED
    BY <2>3, <2>4, <2>5
<1>2. CASE Insert(o)
  <2>1. /\ phase[o] = "locked" /\ phase' = [phase EXCEPT ![o] = "open"]
        /\ row' = [row EXCEPT ![o] = RowOf(asked[o])]
        /\ UNCHANGED <<asked, swap>>
    BY <1>2 DEF Insert, Goes, RowOf
  <2>2. asked[o] \in Asked
    BY <1>0, <2>1 DEF Recorded, HasRequest, Phases
  <2>3. RowOf(asked[o]) \in Rows
    BY <2>2, RequestTypes
  <2>4. Shape'
    BY <1>0, <2>1, <2>3 DEF Shape, Phases
  <2>5. /\ phase'[o] = "open" /\ row'[o] = RowOf(asked[o])
        /\ \A q \in OrderIds \ {o} : phase'[q] = phase[q] /\ row'[q] = row[q]
    BY <1>0, <2>1 DEF Shape
  <2>6. Recorded'
    BY <1>0, <2>1, <2>2, <2>5 DEF Recorded, HasRequest, HasRow, HasSwap, Phases
  <2>7. QED
    BY <2>1, <2>4, <2>5, <2>6
<1>3. ASSUME NEW from \in Phases, phase[o] = from, NEW to \in Phases, Goes(o, to),
             from # "new", from \in HasRow <=> to \in HasRow, from \in HasSwap <=> to \in HasSwap,
             to # "new", UNCHANGED <<asked, row, swap>>
      PROVE  Done
  <2>1. /\ phase' = [phase EXCEPT ![o] = to] /\ phase'[o] = to
        /\ \A q \in OrderIds \ {o} : phase'[q] = phase[q]
    BY <1>0, <1>3 DEF Shape, Goes
  <2>2. Shape'
    BY <1>0, <1>3, <2>1 DEF Shape
  <2>3. Recorded'
    BY <1>0, <1>3, <2>1 DEF Recorded, HasRequest
  <2>4. QED
    BY <1>3, <2>1, <2>2, <2>3
<1>4. CASE Undo(o) \/ Cancel(o) \/ Fail(o) \/ Settle(o)
  <2>1. \E from, to \in Phases :
          /\ phase[o] = from /\ Goes(o, to) /\ from # "new" /\ to # "new"
          /\ from \in HasRow <=> to \in HasRow
          /\ from \in HasSwap <=> to \in HasSwap
          /\ UNCHANGED <<asked, row, swap>>
    BY <1>4 DEF Undo, Cancel, Fail, Settle, Phases, HasRow, HasSwap
  <2>2. QED
    BY <1>3, <2>1
<1>5. CASE Swap(o)
  <2>1. PICK n \in Outs : /\ Acceptable(QuoteOf(row[o], n))
                          /\ swap' = [swap EXCEPT ![o] = QuoteOf(row[o], n)]
    BY <1>5 DEF Swap
  <2>2. /\ phase[o] = "open" /\ phase' = [phase EXCEPT ![o] = "swapped"]
        /\ UNCHANGED <<asked, row>>
    BY <1>5 DEF Swap, Goes
  <2>3. row[o] \in Rows
    BY <2>2, RowTypes DEF HasRow, Phases
  <2>4. QuoteOf(row[o], n) \in Quotes /\ QuoteOf(row[o], n).took = InAmount(row[o])
    BY <2>1, <2>3, QuoteTypes
  <2>5. Shape'
    BY <1>0, <2>1, <2>2, <2>4 DEF Shape, Phases
  <2>6. /\ phase'[o] = "swapped" /\ swap'[o] = QuoteOf(row[o], n)
        /\ \A q \in OrderIds \ {o} : phase'[q] = phase[q] /\ swap'[q] = swap[q]
    BY <1>0, <2>1, <2>2 DEF Shape
  <2>7. Recorded'
    BY <1>0, <2>2, <2>4, <2>6 DEF Recorded, HasRequest, HasRow, HasSwap, Phases
  <2>8. QED
    BY <2>2, <2>5, <2>6, <2>7
<1>6. QED
  BY <1>1, <1>2, <1>4, <1>5

\* The lock of a request is one debit.
LEMMA LockStep ==
  ASSUME Inv, NEW o \in OrderIds, Lock(o)
  PROVE  \E r \in Asked :
           /\ phase[o] = "new" /\ phase'[o] = "locked" /\ asked'[o] = r
           /\ Sound(wallet')
           /\ wallet'[LockAsset(r)].locked = Stored(wallet[LockAsset(r)].locked + LockAmount(r))
           /\ \A b \in Assets : b # LockAsset(r) => wallet'[b] = wallet[b]
           /\ \A b \in Assets : \/ Ahead(wallet', b) = Ahead(wallet, b)
                                \/ Ahead(wallet', b) = Ahead(wallet, b) + Cell
<1>1. PICK r \in Asked :
        /\ wallet[LockAsset(r)].available >= LockAmount(r)
        /\ wallet' = Booked(wallet, LockAsset(r), -LockAmount(r), LockAmount(r))
        /\ asked' = [asked EXCEPT ![o] = r]
  BY DEF Lock
<1>2. phase[o] = "new" /\ phase'[o] = "locked" /\ asked'[o] = r
  BY <1>1 DEF Lock, Goes, Inv, Shape
<1> DEFINE a == LockAsset(r)  x == LockAmount(r)
<1>3. a \in Assets /\ x \in Nat /\ Sound(wallet) /\ Cell \in Nat \ {0}
  BY RequestTypes, Amounts, Units DEF Inv
<1>4. wallet[a].available \in Nat /\ wallet[a].locked \in Nat
  BY <1>3 DEF Sound
<1>5. wallet' = Booked(wallet, a, -x, x) /\ wallet[a].available >= x
  BY <1>1
<1> HIDE DEF a, x
<1>6. x \in Int /\ wallet[a].locked + x >= 0 /\ 2 * x < 2 * wallet[a].available + Cell
  BY <1>3, <1>4, <1>5
<1>7. /\ Sound(wallet')
      /\ wallet'[a].locked = Stored(wallet[a].locked + x)
      /\ \A b \in Assets : b # a => wallet'[b] = wallet[b]
      /\ \A b \in Assets : \/ Ahead(wallet', b) = Ahead(wallet, b)
                           \/ Ahead(wallet', b) = Ahead(wallet, b) + Cell
  BY <1>3, <1>5, <1>6, Debited
<1>8. QED
  BY <1>2, <1>7 DEF a, x

\* A release that may fail keeps the books in step.
LEMMA ReleaseStep ==
  ASSUME Inv, NEW r \in Rows,
         wallet' = IF CanRelease(r) THEN Release(wallet, r) ELSE wallet
  PROVE  /\ Sound(wallet')
         /\ \A b \in Assets : Ahead(wallet', b) = Ahead(wallet, b)
         /\ CanRelease(r) =>
              wallet'[LockAsset(r)].locked = Stored(wallet[LockAsset(r)].locked - LockAmount(r))
         /\ \A b \in Assets : b # LockAsset(r) => wallet'[b] = wallet[b]
<1>1. Sound(wallet)
  BY DEF Inv
<1>2. CASE CanRelease(r)
  BY <1>1, <1>2, Released DEF CanRelease
<1>3. CASE ~CanRelease(r)
  BY <1>1, <1>3
<1>4. QED
  BY <1>2, <1>3

\* The settlement of a fill is one debit, or nothing.
LEMMA SettleStep ==
  ASSUME Inv, NEW o \in OrderIds, Settle(o)
  PROVE  \/ /\ phase'[o] = "settled" /\ Sound(wallet')
            /\ CanRelease(row[o])
            /\ wallet'[LockAsset(row[o])].locked
                 = Stored(wallet[LockAsset(row[o])].locked - LockAmount(row[o]))
            /\ \A b \in Assets : b # LockAsset(row[o]) => wallet'[b].locked = wallet[b].locked
            /\ \A b \in Assets : \/ Ahead(wallet', b) = Ahead(wallet, b)
                                 \/ Ahead(wallet', b) = Ahead(wallet, b) + Cell
         \/ phase'[o] = "unsettled" /\ wallet' = wallet /\ ~CanRelease(row[o])
<1> DEFINE r == row[o]
           sold == Tokens(swap[o].took, LockAsset(r))
           bought == Promised(swap[o].gave, BuyAsset(r))
           covered == /\ CanRelease(r)
                      /\ wallet[LockAsset(r)].available + LockAmount(r) >= sold
<1>1. /\ phase[o] = "swapped"
      /\ \/ covered /\ wallet' = Filled(wallet, r, sold, bought) /\ Goes(o, "settled")
         \/ ~covered /\ UNCHANGED wallet /\ Goes(o, "unsettled")
  BY DEF Settle
<1>2. /\ r \in Rows /\ sold \in Nat /\ sold <= LockAmount(r) /\ bought \in Nat
      /\ Sound(wallet)
  BY <1>1, SoldWithin DEF HasSwap, Inv
<1>3. \A to \in Phases : Goes(o, to) => phase'[o] = to
  BY DEF Goes, Inv, Shape
<1>4. wallet[LockAsset(r)].available + LockAmount(r) >= sold
  <2>1. LockAsset(r) \in Assets /\ LockAmount(r) \in Nat
    BY <1>2, Amounts
  <2>2. wallet[LockAsset(r)].available \in Nat
    BY <1>2, <2>1 DEF Sound
  <2> HIDE DEF r, sold
  <2>3. QED
    BY <1>2, <2>1, <2>2
<1>5. CASE covered /\ wallet' = Filled(wallet, r, sold, bought) /\ Goes(o, "settled")
  <2>1. wallet[LockAsset(r)].locked >= LockAmount(r) /\ CanRelease(r)
    BY <1>5 DEF CanRelease
  <2>2. phase'[o] = "settled"
    BY <1>3, <1>5 DEF Phases
  <2> HIDE DEF sold, bought, r, covered
  <2>3. /\ Sound(wallet')
        /\ wallet'[LockAsset(r)].locked = Stored(wallet[LockAsset(r)].locked - LockAmount(r))
        /\ \A b \in Assets : b # LockAsset(r) => wallet'[b].locked = wallet[b].locked
        /\ \A b \in Assets : \/ Ahead(wallet', b) = Ahead(wallet, b)
                             \/ Ahead(wallet', b) = Ahead(wallet, b) + Cell
    BY <1>2, <1>5, <2>1, FilledEffect
  <2>4. QED
    BY <2>1, <2>2, <2>3 DEF r
<1>6. CASE ~covered /\ UNCHANGED wallet /\ Goes(o, "unsettled")
  BY <1>3, <1>4, <1>6 DEF Phases
<1>7. QED
  BY <1>1, <1>5, <1>6

OrderStep(o) ==
  Lock(o) \/ Insert(o) \/ Undo(o) \/ Cancel(o) \/ Fail(o) \/ Swap(o) \/ Settle(o)

\* The steps that debit an available balance.
Debits(o) == Lock(o) \/ (Settle(o) /\ phase'[o] = "settled")

\* Every step keeps the balances whole and not negative, and only a debit lets an
\* available balance run ahead of its entries.
LEMMA StepWallet ==
  ASSUME Inv, NEW o \in OrderIds, OrderStep(o)
  PROVE  /\ Sound(wallet')
         /\ \/ Debits(o) /\ \A b \in Assets : \/ Ahead(wallet', b) = Ahead(wallet, b)
                                              \/ Ahead(wallet', b) = Ahead(wallet, b) + Cell
            \/ ~Debits(o) /\ \A b \in Assets : Ahead(wallet', b) = Ahead(wallet, b)
<1>1. CASE Lock(o)
  <2>1. Debits(o)
    BY <1>1 DEF Debits
  <2>2. QED
    BY <1>1, <2>1, LockStep
<1>2. CASE Settle(o)
  <2>1. ~Lock(o)
    BY <1>2 DEF Lock, Settle
  <2>2. "settled" # "unsettled"
    OBVIOUS
  <2>3. Sound(wallet)
    BY DEF Inv
  <2>4. CASE phase'[o] = "settled"
    <3>1. Debits(o)
      BY <1>2, <2>4 DEF Debits
    <3>2. QED
      BY <1>2, <2>2, <2>4, <3>1, SettleStep
  <2>5. CASE phase'[o] # "settled"
    <3>1. ~Debits(o)
      BY <2>1, <2>5 DEF Debits
    <3>2. wallet' = wallet
      BY <1>2, <2>5, SettleStep
    <3>3. QED
      BY <2>3, <3>1, <3>2
  <2>6. QED
    BY <2>4, <2>5
<1>3. CASE Insert(o) \/ Undo(o) \/ Cancel(o) \/ Fail(o) \/ Swap(o)
  <2>1. ~Debits(o)
    BY <1>3 DEF Debits, Lock, Settle, Insert, Undo, Cancel, Fail, Swap
  <2>2. CASE Insert(o) \/ Swap(o)
    BY <2>1, <2>2 DEF Insert, Swap, Inv
  <2>3. CASE Undo(o)
    <3>1. asked[o] \in Rows
      BY <2>3, RequestTypes DEF Undo, Inv, Recorded, HasRequest, Phases
    <3>2. wallet' = IF CanRelease(asked[o]) THEN Release(wallet, asked[o]) ELSE wallet
      BY <2>3 DEF Undo
    <3>3. QED
      BY <2>1, <3>1, <3>2, ReleaseStep
  <2>4. CASE Cancel(o) \/ Fail(o)
    <3>1. row[o] \in Rows
      BY <2>4, RowTypes DEF Cancel, Fail, HasRow, Phases
    <3>2. wallet' = IF CanRelease(row[o]) THEN Release(wallet, row[o]) ELSE wallet
      BY <2>4 DEF Cancel, Fail
    <3>3. QED
      BY <2>1, <3>1, <3>2, ReleaseStep
  <2>5. QED
    BY <1>3, <2>2, <2>3, <2>4
<1>4. QED
  BY <1>1, <1>2, <1>3 DEF OrderStep

\* The invariant of the records and the wallets.
LEMMA StepInv ==
  ASSUME Inv, [Next]_vars
  PROVE  Inv'
<1>1. CASE UNCHANGED vars
  BY <1>1 DEF vars, Inv, Shape, Recorded, Sound
<1>2. ASSUME NEW o \in OrderIds, OrderStep(o) PROVE Inv'
  <2>1. Shape' /\ Recorded'
    BY <1>2, StepRecorded DEF OrderStep
  <2>2. Sound(wallet')
    BY <1>2, StepWallet
  <2>3. QED
    BY <2>1, <2>2 DEF Inv, Sound
<1>3. QED
  BY <1>1, <1>2 DEF Next, OrderStep

LEMMA InitInv == Init => Inv
<1> SUFFICES ASSUME Init PROVE Inv
  OBVIOUS
<1>1. Shape
  BY DEF Init, Shape, Phases
<1>2. Recorded
  BY DEF Init, Recorded, HasRequest, HasRow, HasSwap, Phases
<1>3. Whole(0)
  <2>1. Cell \in Nat \ {0} /\ 0 * Cell = 0
    BY Units
  <2>2. QED
    BY <2>1, Multiple DEF Whole
<1>4. \A a \in Assets : Opening[a] \in Nat /\ Whole(Opening[a])
  BY OrderAmountsAssumption DEF Whole
<1>5. Sound(wallet)
  BY <1>3, <1>4 DEF Init, Sound
<1>6. QED
  BY <1>1, <1>2, <1>5 DEF Inv

-----------------------------------------------------------------------------
(* The theorems.                                                            *)

\* Inv is inductive.
THEOREM OrderAmountsInvariant == Spec => []Inv
BY InitInv, StepInv, PTL DEF Spec

\* Whatever is asked for and however it is rounded, no balance is ever negative, and
\* the columns' balances are whole numbers of their units.
THEOREM OrderAmountsTypes == Spec => []TypeOK
<1>1. ASSUME Inv PROVE TypeOK
  <2>1. Shape /\ Recorded /\ Sound(wallet)
    BY <1>1 DEF Inv
  <2>2. ASSUME NEW o \in OrderIds
        PROVE  /\ asked[o] \in {Nothing} \cup Asked
               /\ row[o] # Nothing => row[o].size >= 0 /\ row[o].price >= 0
               /\ swap[o] # Nothing => swap[o].took > 0 /\ swap[o].gave \in Outs
    BY <2>1 DEF Shape, Rows, Quotes
  <2>3. ASSUME NEW a \in Assets
        PROVE  /\ wallet[a].available >= 0 /\ wallet[a].available % Cell = 0
               /\ wallet[a].locked >= 0 /\ wallet[a].locked % Cell = 0
               /\ wallet[a].booked % Cell = 0
    BY <2>1 DEF Sound, Whole
  <2>4. QED
    BY <2>1, <2>2, <2>3 DEF TypeOK, Shape
<1>2. QED
  BY <1>1, OrderAmountsInvariant, PTL

\* A swap asks for no more than the lock of its order and for less than one base unit
\* below it, whatever the decimals of size and price.
THEOREM OrderAmountsSwapWithinLock == Spec => []SwapWithinLock
<1>1. ASSUME Inv PROVE SwapWithinLock
  <2> SUFFICES ASSUME NEW o \in OrderIds, swap[o] # Nothing
               PROVE  LET a == LockAsset(row[o])
                          asks == Tokens(swap[o].took, a)
                      IN  asks <= LockAmount(row[o]) /\ LockAmount(row[o]) < asks + Tokens(1, a)
    BY DEF SwapWithinLock
  <2>1. phase[o] \in HasSwap /\ swap[o].took = InAmount(row[o])
    BY <1>1 DEF Inv, Recorded
  <2>2. row[o] \in Rows
    BY <1>1, <2>1, SoldWithin
  <2>3. QED
    BY <2>1, <2>2, AskedWithin
<1>2. QED
  BY <1>1, OrderAmountsInvariant, PTL

-----------------------------------------------------------------------------
(* The books.                                                               *)

Settled == {o \in OrderIds : phase[o] = "settled"}

\* The debits made so far: one for each order that came, a second one for a filled one.
DebitsMade == Cardinality(Begun) + Cardinality(Settled)

BooksInv ==
  \A a \in Assets : Ahead(wallet, a) >= 0 /\ Ahead(wallet, a) <= Cell * DebitsMade

LEMMA DebitsMadeType ==
  ASSUME IsFiniteSet(OrderIds)
  PROVE  /\ IsFiniteSet(Begun) /\ IsFiniteSet(Settled)
         /\ Cardinality(Begun) \in Nat /\ Cardinality(Settled) \in Nat
         /\ Cardinality(Settled) <= Cardinality(Begun)
<1>1. Settled \in SUBSET Begun /\ Begun \in SUBSET OrderIds
  BY DEF Settled, Begun
<1>2. IsFiniteSet(Begun) /\ IsFiniteSet(Settled)
  BY <1>1, FS_Subset
<1>3. Cardinality(Settled) <= Cardinality(Begun)
  BY <1>1, <1>2, FS_Subset
<1>4. QED
  BY <1>2, <1>3, FS_CardinalityType

\* The orders that begin and that are settled in a step.
LEMMA StepDebits ==
  ASSUME Inv, IsFiniteSet(OrderIds), NEW o \in OrderIds, OrderStep(o)
  PROVE  DebitsMade' = DebitsMade + (IF Debits(o) THEN 1 ELSE 0)
<1>1. \A q \in OrderIds \ {o} : phase'[q] = phase[q]
  BY StepRecorded DEF OrderStep
<1>2. Shape
  BY DEF Inv
<1>3. /\ IsFiniteSet(Begun) /\ IsFiniteSet(Settled)
      /\ Cardinality(Begun) \in Nat /\ Cardinality(Settled) \in Nat
  BY DebitsMadeType
<1>4. CASE Lock(o)
  <2>1. phase[o] = "new" /\ phase'[o] = "locked"
    BY <1>4, LockStep
  <2>2. Begun' = Begun \cup {o} /\ o \notin Begun /\ Settled' = Settled
    BY <1>1, <2>1 DEF Begun, Settled
  <2>3. Cardinality(Begun') = Cardinality(Begun) + 1
    BY <1>3, <2>2, FS_AddElement
  <2>4. Debits(o)
    BY <1>4 DEF Debits
  <2>5. DebitsMade' = (Cardinality(Begun) + 1) + Cardinality(Settled)
    BY <2>2, <2>3 DEF DebitsMade
  <2>6. QED
    BY <1>3, <2>4, <2>5 DEF DebitsMade
<1>5. CASE Settle(o) /\ phase'[o] = "settled"
  <2>1. phase[o] = "swapped"
    BY <1>5 DEF Settle
  <2>2. Settled' = Settled \cup {o} /\ o \notin Settled /\ Begun' = Begun
    BY <1>1, <1>5, <2>1 DEF Begun, Settled
  <2>3. Cardinality(Settled') = Cardinality(Settled) + 1
    BY <1>3, <2>2, FS_AddElement
  <2>4. Debits(o)
    BY <1>5 DEF Debits
  <2>5. DebitsMade' = Cardinality(Begun) + (Cardinality(Settled) + 1)
    BY <2>2, <2>3 DEF DebitsMade
  <2>6. QED
    BY <1>3, <2>4, <2>5 DEF DebitsMade
<1>6. CASE ~Debits(o)
  <2>1. /\ phase[o] # "new" /\ phase[o] # "settled"
        /\ phase'[o] # "new" /\ phase'[o] # "settled"
    <3>1. ASSUME NEW to \in Phases, Goes(o, to) PROVE phase'[o] = to
      BY <1>2, <3>1 DEF Goes, Shape
    <3>2. CASE Settle(o)
      <4>1. phase'[o] # "settled" /\ phase[o] = "swapped"
        BY <1>6, <3>2 DEF Debits, Settle
      <4>2. Goes(o, "settled") \/ Goes(o, "unsettled")
        BY <3>2 DEF Settle
      <4>3. QED
        BY <3>1, <4>1, <4>2 DEF Phases
    <3>3. CASE ~Settle(o)
      <4>1. /\ phase[o] \in {"locked", "open"}
            /\ \E to \in {"open", "rejected", "canceled", "failed", "swapped"} : Goes(o, to)
        BY <1>6, <3>3 DEF OrderStep, Debits, Insert, Undo, Cancel, Fail, Swap
      <4>2. QED
        BY <3>1, <4>1 DEF Phases
    <3>4. QED
      BY <3>2, <3>3
  <2>2. Begun' = Begun /\ Settled' = Settled
    BY <1>1, <2>1 DEF Begun, Settled
  <2>3. DebitsMade \in Nat
    BY <1>3 DEF DebitsMade
  <2>4. QED
    BY <1>6, <2>2, <2>3 DEF DebitsMade
<1>7. QED
  BY <1>4, <1>5, <1>6 DEF Debits

\* Each debit leaves an available balance one unit ahead at most.
LEMMA StepBooks ==
  ASSUME Inv, IsFiniteSet(OrderIds), BooksInv, [Next]_vars
  PROVE  BooksInv'
<1>0. Cell \in Nat /\ DebitsMade \in Nat
  BY Units, DebitsMadeType DEF DebitsMade
<1>1. CASE UNCHANGED vars
  BY <1>1 DEF vars, BooksInv, Ahead, DebitsMade, Begun, Settled
<1>2. ASSUME NEW o \in OrderIds, OrderStep(o), NEW a \in Assets
      PROVE  Ahead(wallet, a)' >= 0 /\ Ahead(wallet, a)' <= Cell * DebitsMade'
  <2>1. Ahead(wallet, a)' = Ahead(wallet', a)
    BY DEF Ahead
  <2>2. /\ Ahead(wallet, a) \in Int /\ Ahead(wallet, a) >= 0
        /\ Ahead(wallet, a) <= Cell * DebitsMade
    <3>1. wallet[a].available \in Nat /\ wallet[a].booked \in Int /\ Opening[a] \in Nat
      BY OrderAmountsAssumption DEF Inv, Sound
    <3>2. QED
      BY <3>1 DEF BooksInv, Ahead
  <2>3. Cell * (DebitsMade + 1) = Cell * DebitsMade + Cell /\ Cell * DebitsMade \in Nat
    BY <1>0, Products
  <2>4. CASE Debits(o)
    <3>1. DebitsMade' = DebitsMade + 1
      BY <1>2, <2>4, StepDebits
    <3>2. Ahead(wallet', a) = Ahead(wallet, a) \/ Ahead(wallet', a) = Ahead(wallet, a) + Cell
      BY <1>2, <2>4, StepWallet
    <3>3. QED
      BY <1>0, <2>1, <2>2, <2>3, <3>1, <3>2
  <2>5. CASE ~Debits(o)
    <3>1. DebitsMade' = DebitsMade
      BY <1>0, <1>2, <2>5, StepDebits
    <3>2. Ahead(wallet', a) = Ahead(wallet, a)
      BY <1>2, <2>5, StepWallet
    <3>3. QED
      BY <2>1, <2>2, <3>1, <3>2
  <2>6. QED
    BY <2>4, <2>5
<1>3. QED
  BY <1>1, <1>2 DEF Next, OrderStep, BooksInv

\* Rounding never lets an available balance fall behind its ledger entries, and lets it
\* run ahead of them by two column units per order at most.
THEOREM OrderAmountsBooksFollow ==
  ASSUME IsFiniteSet(OrderIds) PROVE Spec => []BooksFollow
<1>1. ASSUME Init PROVE BooksInv
  <2> SUFFICES ASSUME NEW a \in Assets
               PROVE  Ahead(wallet, a) >= 0 /\ Ahead(wallet, a) <= Cell * DebitsMade
    BY DEF BooksInv
  <2>1. Opening[a] \in Nat /\ Cell * DebitsMade \in Nat
    BY OrderAmountsAssumption, Units, DebitsMadeType, Products DEF DebitsMade
  <2>2. wallet[a] = [available |-> Opening[a], locked |-> 0, booked |-> 0]
    BY <1>1 DEF Init
  <2>3. Ahead(wallet, a) = 0
    BY <2>1, <2>2 DEF Ahead
  <2>4. QED
    BY <2>1, <2>3
<1>2. Inv /\ BooksInv /\ [Next]_vars => BooksInv'
  BY StepBooks
<1>3. ASSUME Inv, BooksInv PROVE BooksFollow
  <2> SUFFICES ASSUME NEW a \in Assets
               PROVE  /\ Ahead(wallet, a) >= 0
                      /\ Ahead(wallet, a) <= Cell * 2 * Cardinality(Begun)
    BY DEF BooksFollow, Ahead
  <2>1. /\ Cell \in Nat /\ Cardinality(Begun) \in Nat /\ Cardinality(Settled) \in Nat
        /\ Cardinality(Settled) <= Cardinality(Begun)
    BY Units, DebitsMadeType
  <2>2. \A c, m, n \in Nat : n <= m => c * (m + n) <= c * 2 * m
    OBVIOUS
  <2>3. Cell * DebitsMade <= Cell * 2 * Cardinality(Begun)
    BY <2>1, <2>2 DEF DebitsMade
  <2>4. wallet[a].available \in Nat /\ wallet[a].booked \in Int /\ Opening[a] \in Nat
    BY <1>3, OrderAmountsAssumption DEF Inv, Sound
  <2>5. Ahead(wallet, a) \in Int
    BY <2>4 DEF Ahead
  <2>6. Cell * DebitsMade \in Nat /\ Cell * 2 * Cardinality(Begun) \in Nat
    BY <2>1, Products DEF DebitsMade
  <2>7. QED
    BY <1>3, <2>3, <2>5, <2>6 DEF BooksInv
<1>4. QED
  BY <1>1, <1>2, <1>3, OrderAmountsInvariant, PTL DEF Spec

-----------------------------------------------------------------------------
(* Locks that the columns can hold.                                         *)

HoldsLock == {"locked", "open", "swapped"}

AllExact == \A o \in Begun : Representable(asked[o])

LocksAddUp == \A a \in Assets : wallet[a].locked = SumFunctionOnSet(Held(a), OrderIds)

ExactInv == AllExact => LocksAddUp /\ \A o \in OrderIds : phase[o] # "unsettled"

\* The row of such an order locks what its request did.
LEMMA ExactRow ==
  ASSUME Inv, AllExact, NEW o \in OrderIds, phase[o] \in HasRow
  PROVE  /\ LockAsset(row[o]) = LockAsset(asked[o])
         /\ LockAmount(row[o]) = LockAmount(asked[o])
<1>1. row[o] = RowOf(asked[o])
  BY RowTypes
<1>2. Representable(asked[o])
  BY DEF AllExact, Begun, HasRow
<1>3. /\ row[o].side = asked[o].side /\ row[o].size = asked[o].size
      /\ row[o].price = asked[o].price
  BY <1>1, <1>2 DEF RowOf, Representable
<1>4. QED
  BY <1>3 DEF LockAsset, LockAmount

\* The amount locked by a request that is exact is whole.
LEMMA ExactRequest ==
  ASSUME Inv, NEW o \in OrderIds, phase[o] # "new"
  PROVE  /\ LockAsset(asked[o]) \in Assets /\ LockAmount(asked[o]) \in Nat
         /\ Representable(asked[o]) => Whole(LockAmount(asked[o]))
<1>1. asked[o] \in Asked
  BY DEF Inv, Shape, Recorded, HasRequest
<1>2. LockAsset(asked[o]) \in Assets /\ LockAmount(asked[o]) \in Nat
  BY <1>1, RequestTypes, Amounts
<1>3. Whole(Stored(LockAmount(asked[o])))
  BY <1>2, StoredFacts
<1>4. QED
  BY <1>2, <1>3 DEF Representable

LEMMA HeldType ==
  ASSUME Inv, NEW a \in Assets
  PROVE  Held(a) \in [OrderIds -> Nat]
<1>1. ASSUME NEW o \in OrderIds, phase[o] \in HoldsLock
      PROVE  LockAmount(asked[o]) \in Nat
  BY <1>1, ExactRequest DEF HoldsLock
<1>2. QED
  BY <1>1 DEF Held, HoldsLock

\* Every lock that is held can be released.
LEMMA HeldReleasable ==
  ASSUME Inv, IsFiniteSet(OrderIds), LocksAddUp, NEW o \in OrderIds, phase[o] \in HoldsLock
  PROVE  wallet[LockAsset(asked[o])].locked >= LockAmount(asked[o])
<1> DEFINE a == LockAsset(asked[o])
<1>1. a \in Assets /\ LockAmount(asked[o]) \in Nat
  BY ExactRequest DEF HoldsLock
<1>2. Held(a)[o] = LockAmount(asked[o])
  BY DEF Held, HoldsLock
<1> HIDE DEF a
<1>3. /\ SumFunctionOnSet(Held(a), OrderIds) \in Nat
      /\ Held(a)[o] <= SumFunctionOnSet(Held(a), OrderIds)
  <2>1. Held(a) \in [OrderIds -> Nat]
    BY <1>1, HeldType
  <2> DEFINE f == Held(a)
  <2> HIDE DEF f
  <2>2. f \in [OrderIds -> Nat]
    BY <2>1 DEF f
  <2>3. SumFunctionOnSet(f, OrderIds) \in Nat /\ f[o] <= SumFunctionOnSet(f, OrderIds)
    BY <2>2, SumBounds
  <2>4. QED
    BY <2>3 DEF f
<1>4. wallet[a].locked = SumFunctionOnSet(Held(a), OrderIds)
  BY <1>1 DEF LocksAddUp
<1>5. QED
  BY <1>1, <1>2, <1>3, <1>4 DEF a

\* Where the locked balances change as the lock of the order that takes the step, they
\* still add up.
LEMMA StillAddUp ==
  ASSUME Inv, Inv', IsFiniteSet(OrderIds), LocksAddUp, NEW o \in OrderIds,
         \A q \in OrderIds \ {o} : phase'[q] = phase[q] /\ asked'[q] = asked[q],
         \A a \in Assets : wallet'[a].locked = wallet[a].locked + (Held(a)'[o] - Held(a)[o])
  PROVE  LocksAddUp'
<1> SUFFICES ASSUME NEW a \in Assets
             PROVE  wallet'[a].locked = SumFunctionOnSet(Held(a)', OrderIds)
  BY DEF LocksAddUp
<1> DEFINE f == Held(a)  g == Held(a)'
<1>1. f \in [OrderIds -> Nat]
  BY HeldType
<1>2. g \in [OrderIds -> Nat]
  <2>1. ASSUME NEW q \in OrderIds, phase'[q] \in HoldsLock
        PROVE  LockAmount(asked'[q]) \in Nat
    <3>1. asked'[q] \in Asked
      BY <2>1 DEF Inv, Shape, Recorded, HasRequest, HoldsLock, Phases
    <3>2. QED
      BY <3>1, RequestTypes, Amounts
  <2>2. g = [q \in OrderIds |-> IF /\ phase'[q] \in HoldsLock
                                   /\ LockAsset(asked'[q]) = a
                                THEN LockAmount(asked'[q]) ELSE 0]
    BY DEF Held, HoldsLock, LockAmount, LockAsset
  <2> HIDE DEF g
  <2>3. QED
    BY <2>1, <2>2
<1>3. \A q \in OrderIds : q # o => g[q] = f[q]
  BY DEF Held, LockAmount, LockAsset
<1>4. wallet'[a].locked = wallet[a].locked + (g[o] - f[o])
  OBVIOUS
<1>5. wallet[a].locked = SumFunctionOnSet(f, OrderIds)
  BY DEF LocksAddUp
<1> HIDE DEF f, g
<1>6. SumFunctionOnSet(g, OrderIds) = SumFunctionOnSet(f, OrderIds) + (g[o] - f[o])
  <2>1. f \in [OrderIds -> Int] /\ g \in [OrderIds -> Int]
    BY <1>1, <1>2
  <2>2. QED
    BY <1>3, <2>1, SumChange
<1>7. QED
  BY <1>4, <1>5, <1>6 DEF g

\* The lock of an order as its phase and its request tell it.
LEMMA HeldIs ==
  ASSUME NEW o \in OrderIds, NEW a
  PROVE  /\ phase[o] \in HoldsLock /\ LockAsset(asked[o]) = a
              => Held(a)[o] = LockAmount(asked[o])
         /\ phase[o] \notin HoldsLock \/ LockAsset(asked[o]) # a => Held(a)[o] = 0
         /\ phase'[o] \in HoldsLock /\ LockAsset(asked'[o]) = a
              => Held(a)'[o] = LockAmount(asked'[o])
         /\ phase'[o] \notin HoldsLock \/ LockAsset(asked'[o]) # a => Held(a)'[o] = 0
BY DEF Held, HoldsLock, LockAmount, LockAsset

\* An order that gives back its exact lock.
LEMMA FreedExactly ==
  ASSUME Inv, IsFiniteSet(OrderIds), LocksAddUp, NEW o \in OrderIds, phase[o] \in HoldsLock,
         Representable(asked[o]), phase'[o] \notin HoldsLock,
         wallet'[LockAsset(asked[o])].locked
           = Stored(wallet[LockAsset(asked[o])].locked - LockAmount(asked[o])),
         \A b \in Assets : b # LockAsset(asked[o]) => wallet'[b].locked = wallet[b].locked
  PROVE  \A b \in Assets :
           wallet'[b].locked = wallet[b].locked + (Held(b)'[o] - Held(b)[o])
<1> DEFINE a == LockAsset(asked[o])  x == LockAmount(asked[o])
<1>1. a \in Assets /\ x \in Nat /\ Whole(x)
  BY ExactRequest DEF HoldsLock
<1>2. \A b \in Assets : wallet[b].locked \in Nat /\ Whole(wallet[b].locked)
  BY DEF Inv, Sound
<1>3. Stored(wallet[a].locked - x) = wallet[a].locked - x
  <2>1. /\ wallet[a].locked \in Int /\ x \in Int /\ Whole(wallet[a].locked)
        /\ wallet[a].locked - x \in Int
    BY <1>1, <1>2
  <2> HIDE DEF a, x
  <2>2. Whole(wallet[a].locked - x)
    BY <1>1, <2>1, WholeSum
  <2>3. QED
    BY <2>1, <2>2, StoredFacts
<1>4. ASSUME NEW b \in Assets PROVE Held(b)'[o] = 0 /\ (b # a => Held(b)[o] = 0)
  BY HeldIs
<1>5. ASSUME NEW b \in Assets, b = a PROVE Held(b)[o] = x
  BY <1>5, HeldIs
<1>6. wallet'[a].locked = wallet[a].locked - x
  BY <1>3
<1>7. \A b \in Assets : b # a => wallet'[b].locked = wallet[b].locked
  OBVIOUS
<1> HIDE DEF a, x
<1>8. ASSUME NEW b \in Assets
      PROVE  wallet'[b].locked = wallet[b].locked + (Held(b)'[o] - Held(b)[o])
  <2>1. CASE b = a
    <3>1. wallet[a].locked \in Int /\ x \in Int
      BY <1>1, <1>2
    <3>2. wallet[a].locked - x = wallet[a].locked + (0 - x)
      BY <3>1
    <3>3. QED
      BY <1>4, <1>5, <1>6, <2>1, <3>2
  <2>2. CASE b # a
    <3>1. wallet[b].locked = wallet[b].locked + (0 - 0)
      BY <1>2
    <3>2. QED
      BY <1>4, <1>7, <2>2, <3>1
  <2>3. QED
    BY <2>1, <2>2
<1>9. QED
  BY <1>8

\* An order that takes its exact lock.
LEMMA LockedExactly ==
  ASSUME Inv, NEW o \in OrderIds, Lock(o), Inv', Representable(asked'[o])
  PROVE  \A b \in Assets :
           wallet'[b].locked = wallet[b].locked + (Held(b)'[o] - Held(b)[o])
<1>1. PICK r \in Asked :
        /\ phase[o] = "new" /\ phase'[o] = "locked" /\ asked'[o] = r
        /\ wallet'[LockAsset(r)].locked = Stored(wallet[LockAsset(r)].locked + LockAmount(r))
        /\ \A b \in Assets : b # LockAsset(r) => wallet'[b] = wallet[b]
  BY LockStep
<1> DEFINE a == LockAsset(r)  x == LockAmount(r)
<1>2. a \in Assets /\ x \in Nat /\ Whole(x)
  <2>1. a \in Assets /\ x \in Nat
    BY RequestTypes, Amounts
  <2>2. Stored(x) = x
    BY <1>1 DEF Representable
  <2>3. Whole(Stored(x))
    BY <2>1, StoredFacts
  <2>4. QED
    BY <2>1, <2>2, <2>3
<1>3. \A b \in Assets : wallet[b].locked \in Nat /\ Whole(wallet[b].locked)
  BY DEF Inv, Sound
<1>4. ASSUME NEW b \in Assets PROVE Held(b)[o] = 0
  BY <1>1, HeldIs DEF HoldsLock
<1>5. Held(a)'[o] = x
  BY <1>1, HeldIs DEF HoldsLock
<1>6. ASSUME NEW b \in Assets, b # a PROVE Held(b)'[o] = 0 /\ wallet'[b] = wallet[b]
  BY <1>1, <1>6, HeldIs
<1>7. wallet'[a].locked = Stored(wallet[a].locked + x)
  BY <1>1
<1> HIDE DEF a, x
<1>8. Stored(wallet[a].locked + x) = wallet[a].locked + x
  <2>1. /\ wallet[a].locked \in Int /\ x \in Int /\ Whole(wallet[a].locked)
        /\ wallet[a].locked + x \in Int
    BY <1>2, <1>3
  <2>2. Whole(wallet[a].locked + x)
    BY <1>2, <2>1, WholeSum
  <2>3. QED
    BY <2>1, <2>2, StoredFacts
<1>9. ASSUME NEW b \in Assets
      PROVE  wallet'[b].locked = wallet[b].locked + (Held(b)'[o] - Held(b)[o])
  <2>1. CASE b = a
    <3>1. x = x - 0
      BY <1>2
    <3>2. QED
      BY <1>2, <1>4, <1>5, <1>7, <1>8, <2>1, <3>1
  <2>2. CASE b # a
    <3>1. wallet[b].locked = wallet[b].locked + (0 - 0)
      BY <1>3
    <3>2. QED
      BY <1>4, <1>6, <2>2, <3>1
  <2>3. QED
    BY <2>1, <2>2
<1>10. QED
  BY <1>9

\* A step that keeps the lock of its order.
LEMMA KeptExactly ==
  ASSUME Inv, NEW o \in OrderIds, phase[o] \in HoldsLock, phase'[o] \in HoldsLock,
         asked'[o] = asked[o], wallet' = wallet
  PROVE  \A b \in Assets :
           wallet'[b].locked = wallet[b].locked + (Held(b)'[o] - Held(b)[o])
<1> SUFFICES ASSUME NEW b \in Assets
             PROVE  wallet'[b].locked = wallet[b].locked + (Held(b)'[o] - Held(b)[o])
  OBVIOUS
<1>1. wallet[b].locked \in Nat /\ Held(b) \in [OrderIds -> Nat]
  BY HeldType DEF Inv, Sound
<1>2. Held(b)'[o] = Held(b)[o]
  BY HeldIs
<1>3. Held(b)[o] \in Nat
  BY <1>1
<1>4. wallet[b].locked = wallet[b].locked + (Held(b)[o] - Held(b)[o])
  BY <1>1, <1>3
<1>5. QED
  BY <1>2, <1>4

\* Every step keeps exact locks exact, and settles every fill.
LEMMA StepExact ==
  ASSUME Inv, Inv', IsFiniteSet(OrderIds), ExactInv, NEW o \in OrderIds, OrderStep(o)
  PROVE  ExactInv'
<1>1. \A q \in OrderIds \ {o} : phase'[q] = phase[q] /\ asked'[q] = asked[q]
  BY StepRecorded DEF OrderStep
<1>2. phase[o] # "new" => asked'[o] = asked[o]
  BY DEF OrderStep, Lock, Insert, Undo, Cancel, Fail, Swap, Settle
<1>3. \A r : Representable(r)' <=> Representable(r)
  BY DEF Representable
<1> SUFFICES ASSUME AllExact'
             PROVE  LocksAddUp' /\ \A q \in OrderIds : phase'[q] # "unsettled"
  BY DEF ExactInv
<1>4. \A q \in OrderIds : phase'[q] # "new" => Representable(asked'[q])
  BY <1>3 DEF AllExact, Begun, Representable, LockAmount
<1>5. \A to \in Phases : Goes(o, to) => phase'[o] = to
  BY DEF Goes, Inv, Shape
<1>6. phase'[o] # "new"
  BY <1>5 DEF OrderStep, Lock, Insert, Undo, Cancel, Fail, Swap, Settle, Phases
<1>7. AllExact
  BY <1>1, <1>2, <1>4, <1>6 DEF AllExact, Begun
<1>8. LocksAddUp /\ \A q \in OrderIds : phase[q] # "unsettled"
  BY <1>7 DEF ExactInv
<1>9. /\ phase[o] \in HoldsLock =>
           wallet[LockAsset(asked[o])].locked >= LockAmount(asked[o])
      /\ phase[o] # "new" => Representable(asked[o])
  BY <1>7, <1>8, HeldReleasable DEF AllExact, Begun
<1>10. SUFFICES /\ phase'[o] # "unsettled"
                /\ \A b \in Assets :
                     wallet'[b].locked = wallet[b].locked + (Held(b)'[o] - Held(b)[o])
  <2>1. LocksAddUp'
    BY <1>1, <1>8, <1>10, StillAddUp
  <2>2. QED
    BY <1>1, <1>8, <1>10, <2>1
<1>11. CASE Lock(o)
  <2>1. phase'[o] = "locked"
    BY <1>5, <1>11 DEF Lock, Phases
  <2>2. QED
    BY <1>4, <1>11, <2>1, LockedExactly
<1>12. CASE Insert(o) \/ Swap(o)
  <2>1. /\ phase[o] \in {"locked", "open"} /\ phase'[o] \in {"open", "swapped"}
        /\ wallet' = wallet
    BY <1>5, <1>12 DEF Insert, Swap, Phases
  <2>2. QED
    BY <1>2, <2>1, KeptExactly DEF HoldsLock
<1>13. ASSUME NEW r \in Rows, LockAsset(r) = LockAsset(asked[o]),
              LockAmount(r) = LockAmount(asked[o]), phase[o] \in HoldsLock,
              phase'[o] \in {"rejected", "canceled", "failed"},
              wallet' = IF CanRelease(r) THEN Release(wallet, r) ELSE wallet
       PROVE  /\ phase'[o] # "unsettled"
              /\ \A b \in Assets :
                   wallet'[b].locked = wallet[b].locked + (Held(b)'[o] - Held(b)[o])
  <2>1. CanRelease(r) /\ Representable(asked[o])
    BY <1>9, <1>13 DEF CanRelease, HoldsLock
  <2>2. /\ wallet'[LockAsset(r)].locked
             = Stored(wallet[LockAsset(r)].locked - LockAmount(r))
        /\ \A b \in Assets : b # LockAsset(r) => wallet'[b] = wallet[b]
    BY <1>13, <2>1, ReleaseStep
  <2>3. phase'[o] \notin HoldsLock
    BY <1>13 DEF HoldsLock
  <2>4. QED
    BY <1>8, <1>13, <2>1, <2>2, <2>3, FreedExactly
<1>14. CASE Undo(o)
  <2>1. phase[o] = "locked" /\ phase'[o] = "rejected"
    BY <1>5, <1>14 DEF Undo, Phases
  <2>2. asked[o] \in Rows
    BY <2>1, RequestTypes DEF Inv, Recorded, HasRequest, Phases
  <2>3. wallet' = IF CanRelease(asked[o]) THEN Release(wallet, asked[o]) ELSE wallet
    BY <1>14 DEF Undo
  <2>4. QED
    BY <1>13, <2>1, <2>2, <2>3 DEF HoldsLock
<1>15. CASE Cancel(o) \/ Fail(o)
  <2>1. phase[o] = "open" /\ phase'[o] \in {"canceled", "failed"}
    BY <1>5, <1>15 DEF Cancel, Fail, Phases
  <2>2. /\ row[o] \in Rows /\ LockAsset(row[o]) = LockAsset(asked[o])
        /\ LockAmount(row[o]) = LockAmount(asked[o])
    BY <1>7, <2>1, RowTypes, ExactRow DEF HasRow, Phases
  <2>3. wallet' = IF CanRelease(row[o]) THEN Release(wallet, row[o]) ELSE wallet
    BY <1>15 DEF Cancel, Fail
  <2>4. QED
    BY <1>13, <2>1, <2>2, <2>3 DEF HoldsLock
<1>16. CASE Settle(o)
  <2>1. phase[o] = "swapped"
    BY <1>16 DEF Settle
  <2>2. /\ LockAsset(row[o]) = LockAsset(asked[o])
        /\ LockAmount(row[o]) = LockAmount(asked[o])
    BY <1>7, <2>1, ExactRow DEF HasRow, Phases
  <2>3. CanRelease(row[o]) /\ Representable(asked[o])
    BY <1>9, <2>1, <2>2 DEF CanRelease, HoldsLock
  <2>4. /\ phase'[o] = "settled"
        /\ wallet'[LockAsset(row[o])].locked
             = Stored(wallet[LockAsset(row[o])].locked - LockAmount(row[o]))
        /\ \A b \in Assets : b # LockAsset(row[o]) => wallet'[b].locked = wallet[b].locked
    BY <1>16, <2>3, SettleStep
  <2>5. phase[o] \in HoldsLock /\ phase'[o] \notin HoldsLock
    BY <2>1, <2>4 DEF HoldsLock
  <2>6. QED
    BY <1>8, <2>2, <2>3, <2>4, <2>5, FreedExactly
<1>17. QED
  BY <1>11, <1>12, <1>14, <1>15, <1>16 DEF OrderStep

\* At the start nothing is locked.
LEMMA InitExact ==
  ASSUME Init, IsFiniteSet(OrderIds)
  PROVE  ExactInv
<1>1. \A o \in OrderIds : phase[o] = "new"
  BY DEF Init
<1>2. ASSUME NEW a \in Assets PROVE wallet[a].locked = SumFunctionOnSet(Held(a), OrderIds)
  <2>1. \A o \in OrderIds : Held(a)[o] = 0
    BY <1>1 DEF Held
  <2> DEFINE f == Held(a)
  <2>2. \A o \in OrderIds : f[o] = 0
    BY <2>1
  <2> HIDE DEF f
  <2>3. SumFunctionOnSet(f, OrderIds) = 0
    BY <2>2, SumZero
  <2>4. wallet[a].locked = 0
    BY DEF Init
  <2>5. QED
    BY <2>3, <2>4 DEF f
<1>3. QED
  BY <1>1, <1>2 DEF ExactInv, LocksAddUp

\* As long as eight decimals hold every size, price and lock, the locked balance is the
\* sum of the locks of the orders under way: every lock can be released and every fill
\* settled, although the fill sells less than was locked.
THEOREM OrderAmountsExactLocks ==
  ASSUME IsFiniteSet(OrderIds) PROVE Spec => []ExactLocks
<1>1. ASSUME Inv, Inv', ExactInv, [Next]_vars PROVE ExactInv'
  <2>1. CASE UNCHANGED vars
    <3>1. /\ phase' = phase /\ asked' = asked /\ wallet' = wallet
      BY <2>1 DEF vars
    <3>2. ASSUME AllExact' PROVE AllExact
      BY <3>1, <3>2 DEF AllExact, Begun, Representable, LockAmount
    <3>3. ASSUME NEW a \in Assets PROVE Held(a)' = Held(a)
      BY <3>1 DEF Held, LockAmount, LockAsset
    <3>4. LocksAddUp => LocksAddUp'
      BY <3>1, <3>3 DEF LocksAddUp
    <3>5. QED
      BY <1>1, <3>1, <3>2, <3>4 DEF ExactInv
  <2>2. CASE Next
    BY <1>1, <2>2, StepExact DEF Next, OrderStep
  <2>3. QED
    BY <1>1, <2>1, <2>2
<1>2. ASSUME Inv, ExactInv PROVE ExactLocks
  <2> SUFFICES ASSUME AllExact
               PROVE  /\ LocksAddUp
                      /\ \A o \in OrderIds : phase[o] # "unsettled"
                      /\ \A o \in OrderIds : phase[o] = "open" => CanRelease(row[o])
    BY DEF ExactLocks, AllExact, LocksAddUp
  <2>1. LocksAddUp /\ \A o \in OrderIds : phase[o] # "unsettled"
    BY <1>2 DEF ExactInv
  <2>2. ASSUME NEW o \in OrderIds, phase[o] = "open" PROVE CanRelease(row[o])
    <3>1. wallet[LockAsset(asked[o])].locked >= LockAmount(asked[o])
      BY <1>2, <2>1, <2>2, HeldReleasable DEF HoldsLock
    <3>2. /\ LockAsset(row[o]) = LockAsset(asked[o])
          /\ LockAmount(row[o]) = LockAmount(asked[o])
      BY <1>2, <2>2, ExactRow DEF HasRow, Phases
    <3>3. QED
      BY <3>1, <3>2 DEF CanRelease
  <2>3. QED
    BY <2>1, <2>2
<1>3. Init => ExactInv
  BY InitExact
<1>4. QED
  BY <1>1, <1>2, <1>3, OrderAmountsInvariant, PTL DEF Spec
==============================================================================
