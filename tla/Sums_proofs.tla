----------------------------- MODULE Sums_proofs -----------------------------
(***************************************************************************)
(* Facts about SumFunctionOnSet, the sum of a function's values over a     *)
(* finite set, for the invariants that compare a balance with such a sum.  *)
(* They rest on induction over the subsets of a finite set, in the form of *)
(* the well-foundedness of their strict inclusion.                         *)
(***************************************************************************)
EXTENDS FiniteSetsExt, FiniteSetTheorems, TLAPS

-----------------------------------------------------------------------------
\* Induction over the subsets of a finite set, as a fact about sets: where some subset
\* is bad, there is a bad one whose proper subsets are not.
LEMMA SmallestSubset ==
  ASSUME NEW S, IsFiniteSet(S), NEW bad \in SUBSET (SUBSET S), bad # {}
  PROVE  \E T \in bad : \A U \in bad : U \subseteq T => U = T
<1>1. IsWellFoundedOn(StrictSubsetOrdering(S), SUBSET S)
  BY FS_StrictSubsetOrderingWellFounded, FS_FiniteSubsetsOfFinite
<1>2. PICK T \in bad : \A U \in bad : ~ (<<U, T>> \in StrictSubsetOrdering(S))
  BY <1>1, WFMin
<1>3. ASSUME NEW U \in bad, U \subseteq T PROVE U = T
  BY <1>2, <1>3 DEF StrictSubsetOrdering
<1>4. QED
  BY <1>3

\* The element that a sum takes next.
Pick(s) == CHOOSE x \in s : TRUE

\* g is a table of the sums of f over the subsets of D.
SumsOf(g, f, D) ==
  g = [s \in SUBSET D |-> IF s = {} THEN 0 ELSE f[Pick(s)] + g[s \ {Pick(s)}]]

\* A sum is read off the table of the sums over the subsets.
LEMMA SumIsTable ==
  ASSUME NEW f, NEW S
  PROVE  SumFunctionOnSet(f, S) = (CHOOSE g : SumsOf(g, f, S))[S]
BY DEF SumFunctionOnSet, FoldFunctionOnSet, MapThenFoldSet, SumsOf, Pick

\* Two tables of the sums of one function agree where both have a value.
LEMMA SumsAgree ==
  ASSUME NEW f, NEW S, NEW T, IsFiniteSet(S), NEW g, NEW h,
         SumsOf(g, f, S), SumsOf(h, f, T)
  PROVE  \A s \in SUBSET S : s \in SUBSET T => g[s] = h[s]
<1> DEFINE bad == {s \in SUBSET S : s \in SUBSET T /\ g[s] # h[s]}
<1> SUFFICES ASSUME bad # {} PROVE FALSE
  OBVIOUS
<1>1. PICK s \in bad : \A u \in bad : u \subseteq s => u = s
  <2> HIDE DEF bad
  <2>1. bad \in SUBSET (SUBSET S)
    BY DEF bad
  <2>2. QED
    BY <2>1, SmallestSubset
<1>2. s \in SUBSET S /\ s \in SUBSET T /\ g[s] # h[s]
  OBVIOUS
<1>3. /\ g[s] = IF s = {} THEN 0 ELSE f[Pick(s)] + g[s \ {Pick(s)}]
      /\ h[s] = IF s = {} THEN 0 ELSE f[Pick(s)] + h[s \ {Pick(s)}]
  BY <1>2 DEF SumsOf
<1>4. CASE s = {}
  BY <1>2, <1>3, <1>4
<1>5. CASE s # {}
  <2>1. Pick(s) \in s
    BY <1>5 DEF Pick
  <2>2. g[s \ {Pick(s)}] = h[s \ {Pick(s)}]
    BY <1>1, <1>2, <2>1
  <2>3. QED
    BY <1>2, <1>3, <1>5, <2>2
<1>6. QED
  BY <1>4, <1>5

\* Every finite set has its table.
LEMMA SumsExist ==
  ASSUME NEW f, NEW S, IsFiniteSet(S)
  PROVE  \E g : SumsOf(g, f, S)
<1> DEFINE bad == {T \in SUBSET S : ~ \E g : SumsOf(g, f, T)}
<1>1. SUFFICES ASSUME bad # {} PROVE FALSE
  OBVIOUS
<1>2. PICK T \in bad : \A U \in bad : U \subseteq T => U = T
  <2> HIDE DEF bad
  <2>1. bad \in SUBSET (SUBSET S)
    BY DEF bad
  <2>2. QED
    BY <1>1, <2>1, SmallestSubset
<1>3. /\ T \in SUBSET S
      /\ ~ \E g : SumsOf(g, f, T)
      /\ \A U \in SUBSET T : U # T => \E g : SumsOf(g, f, U)
  BY <1>2
<1> DEFINE Table(U) == CHOOSE g : SumsOf(g, f, U)
           Value(U) == IF U = {} THEN 0
                       ELSE f[Pick(U)] + Table(U \ {Pick(U)})[U \ {Pick(U)}]
           g == [s \in SUBSET T |-> Value(s)]
<1> HIDE DEF bad, Table
<1>4. \A U \in SUBSET T : U # T => SumsOf(Table(U), f, U) /\ IsFiniteSet(U)
  BY <1>3, FS_Subset DEF Table
<1>5. ASSUME NEW s \in SUBSET T, s # {}
      PROVE  /\ Pick(s) \in s /\ s \ {Pick(s)} \in SUBSET T /\ s \ {Pick(s)} # T
             /\ g[s \ {Pick(s)}] = Table(s \ {Pick(s)})[s \ {Pick(s)}]
  <2> DEFINE u == s \ {Pick(s)}
  <2>1. Pick(s) \in s /\ u \in SUBSET T /\ u # T
    BY <1>5 DEF Pick
  <2> HIDE DEF u
  <2>2. SumsOf(Table(u), f, u)
    BY <1>4, <2>1
  <2>3. Table(u)[u] = IF u = {} THEN 0 ELSE f[Pick(u)] + Table(u)[u \ {Pick(u)}]
    BY <2>2 DEF SumsOf
  <2>4. CASE u = {}
    BY <2>1, <2>3, <2>4 DEF u
  <2>5. CASE u # {}
    <3> DEFINE v == u \ {Pick(u)}
    <3>1. v \in SUBSET u /\ v \in SUBSET T /\ v # T
      BY <2>1
    <3> HIDE DEF v
    <3>2. SumsOf(Table(v), f, v) /\ IsFiniteSet(v)
      BY <1>4, <3>1
    <3>3. Table(v)[v] = Table(u)[v]
      BY <2>2, <3>1, <3>2, SumsAgree
    <3>4. g[u] = f[Pick(u)] + Table(v)[v]
      BY <2>1, <2>5 DEF v
    <3>5. Table(u)[u] = f[Pick(u)] + Table(u)[v]
      BY <2>3, <2>5 DEF v
    <3>6. QED
      BY <2>1, <3>3, <3>4, <3>5 DEF u
  <2>6. QED
    BY <2>4, <2>5
<1>6. ASSUME NEW s \in SUBSET T
      PROVE  Value(s) = IF s = {} THEN 0 ELSE f[Pick(s)] + g[s \ {Pick(s)}]
  BY <1>5
<1>7. g = [s \in SUBSET T |-> IF s = {} THEN 0 ELSE f[Pick(s)] + g[s \ {Pick(s)}]]
  <2> HIDE DEF Value
  <2>1. \A s \in SUBSET T :
          Value(s) = IF s = {} THEN 0 ELSE f[Pick(s)] + g[s \ {Pick(s)}]
    BY <1>6
  <2>2. QED
    BY <2>1
<1>8. SumsOf(g, f, T)
  <2> HIDE DEF g
  <2>1. QED
    BY <1>7 DEF SumsOf
<1>9. QED
  BY <1>3, <1>8

\* The recursion of a sum, for the element it takes next.
LEMMA SumPick ==
  ASSUME NEW f, NEW S, IsFiniteSet(S)
  PROVE  /\ S = {} => SumFunctionOnSet(f, S) = 0
         /\ S # {} => /\ Pick(S) \in S
                      /\ SumFunctionOnSet(f, S) = f[Pick(S)] + SumFunctionOnSet(f, S \ {Pick(S)})
<1> DEFINE Table(U) == CHOOSE g : SumsOf(g, f, U)
<1>1. \A U : IsFiniteSet(U) => SumsOf(Table(U), f, U) /\ SumFunctionOnSet(f, U) = Table(U)[U]
  BY SumsExist, SumIsTable 
<1> HIDE DEF Table
<1>2. Table(S)[S] = IF S = {} THEN 0 ELSE f[Pick(S)] + Table(S)[S \ {Pick(S)}]
  BY <1>1 DEF SumsOf
<1>3. CASE S # {}
  <2> DEFINE U == S \ {Pick(S)}
  <2>1. U \in SUBSET S /\ IsFiniteSet(U) /\ Pick(S) \in S
    BY <1>3, FS_Subset DEF Pick
  <2> HIDE DEF U
  <2>2. SumsOf(Table(U), f, U) /\ SumsOf(Table(S), f, S)
    BY <1>1, <2>1
  <2>3. ASSUME NEW g, NEW h, SumsOf(g, f, U), SumsOf(h, f, S) PROVE g[U] = h[U]
    BY <2>1, <2>3, SumsAgree
  <2>4. Table(U)[U] = Table(S)[U]
    BY <2>2, <2>3
  <2>5. QED
    BY <1>1, <1>2, <1>3, <2>1, <2>4 DEF U
<1>4. QED
  BY <1>1, <1>2, <1>3

\* A sum of integers is one, and it does not matter which element is taken first.
LEMMA SumRemove ==
  ASSUME NEW D, NEW f \in [D -> Int], NEW S \in SUBSET D, IsFiniteSet(S)
  PROVE  /\ SumFunctionOnSet(f, S) \in Int
         /\ \A x \in S : SumFunctionOnSet(f, S) = f[x] + SumFunctionOnSet(f, S \ {x})
<1> DEFINE Good(T) == /\ SumFunctionOnSet(f, T) \in Int
                      /\ \A x \in T : SumFunctionOnSet(f, T) = f[x] + SumFunctionOnSet(f, T \ {x})
           bad == {T \in SUBSET S : ~Good(T)}
<1> SUFFICES ASSUME bad # {} PROVE FALSE
  OBVIOUS
<1>1. PICK T \in bad : \A U \in bad : U \subseteq T => U = T
  <2> HIDE DEF bad
  <2>1. bad \in SUBSET (SUBSET S)
    BY DEF bad
  <2>2. QED
    BY <2>1, SmallestSubset
<1>2. T \in SUBSET S /\ ~Good(T) /\ \A U \in SUBSET T : U # T => Good(U)
  <2> HIDE DEF Good
  <2>1. QED
    BY <1>1
<1> HIDE DEF Good, bad
<1>3. \A U \in SUBSET T : IsFiniteSet(U)
  BY <1>2, FS_Subset
<1>4. Good(T)
  <2>1. CASE T = {}
    <3>1. SumFunctionOnSet(f, T) = 0
      BY <1>3, <2>1, SumPick
    <3>2. QED
      BY <2>1, <3>1 DEF Good
  <2>2. CASE T # {}
    <3> DEFINE c == Pick(T)
    <3>1. c \in T /\ SumFunctionOnSet(f, T) = f[c] + SumFunctionOnSet(f, T \ {c})
      BY <1>3, <2>2, SumPick
    <3> HIDE DEF c
    <3>2. \A x \in T : f[x] \in Int /\ Good(T \ {x})
      BY <1>2
    <3>3. \A x \in T : SumFunctionOnSet(f, T \ {x}) \in Int
      BY <3>2 DEF Good
    <3>4. SumFunctionOnSet(f, T) \in Int
      BY <3>1, <3>2, <3>3
    <3>5. ASSUME NEW x \in T PROVE SumFunctionOnSet(f, T) = f[x] + SumFunctionOnSet(f, T \ {x})
      <4>1. CASE x = c
        BY <3>1, <4>1
      <4>2. CASE x # c
        <5>1. SumFunctionOnSet(f, T \ {c}) = f[x] + SumFunctionOnSet(f, (T \ {c}) \ {x})
          BY <3>1, <3>2, <4>2 DEF Good
        <5>2. SumFunctionOnSet(f, T \ {x}) = f[c] + SumFunctionOnSet(f, (T \ {x}) \ {c})
          BY <3>1, <3>2, <4>2 DEF Good
        <5>3. (T \ {c}) \ {x} = (T \ {x}) \ {c}
          OBVIOUS
        <5>4. SumFunctionOnSet(f, (T \ {x}) \ {c}) \in Int
          <6>1. (T \ {x}) \ {c} \in SUBSET T /\ (T \ {x}) \ {c} # T
            BY <3>1
          <6>2. QED
            BY <1>2, <6>1 DEF Good
        <5>5. f[x] \in Int /\ f[c] \in Int
          BY <3>1, <3>2
        <5>6. SumFunctionOnSet(f, T) = f[c] + (f[x] + SumFunctionOnSet(f, (T \ {x}) \ {c}))
          BY <3>1, <5>1, <5>3
        <5>7. QED
          BY <5>2, <5>4, <5>5, <5>6
      <4>3. QED
        BY <4>1, <4>2
    <3>6. QED
      BY <3>4, <3>5 DEF Good
  <2>3. QED
    BY <2>1, <2>2
<1>5. QED
  BY <1>2, <1>4

\* Sums of functions that agree on the set are equal.
LEMMA SumSame ==
  ASSUME NEW f, NEW g, NEW S, IsFiniteSet(S), \A x \in S : f[x] = g[x]
  PROVE  SumFunctionOnSet(f, S) = SumFunctionOnSet(g, S)
<1> DEFINE bad == {T \in SUBSET S : SumFunctionOnSet(f, T) # SumFunctionOnSet(g, T)}
<1> SUFFICES ASSUME bad # {} PROVE FALSE
  OBVIOUS
<1>1. PICK T \in bad : \A U \in bad : U \subseteq T => U = T
  <2> HIDE DEF bad
  <2>1. bad \in SUBSET (SUBSET S)
    BY DEF bad
  <2>2. QED
    BY <2>1, SmallestSubset
<1>2. /\ T \in SUBSET S /\ IsFiniteSet(T) /\ SumFunctionOnSet(f, T) # SumFunctionOnSet(g, T)
      /\ \A U \in SUBSET T : U # T => SumFunctionOnSet(f, U) = SumFunctionOnSet(g, U)
  BY <1>1, FS_Subset
<1>3. CASE T = {}
  BY <1>2, <1>3, SumPick
<1>4. CASE T # {}
  <2>1. /\ Pick(T) \in T
        /\ SumFunctionOnSet(f, T) = f[Pick(T)] + SumFunctionOnSet(f, T \ {Pick(T)})
        /\ SumFunctionOnSet(g, T) = g[Pick(T)] + SumFunctionOnSet(g, T \ {Pick(T)})
    BY <1>2, <1>4, SumPick
  <2>2. SumFunctionOnSet(f, T \ {Pick(T)}) = SumFunctionOnSet(g, T \ {Pick(T)})
    BY <1>2, <2>1
  <2>3. QED
    BY <1>2, <2>1, <2>2
<1>5. QED
  BY <1>3, <1>4

\* A sum of zeros is zero.
LEMMA SumZero ==
  ASSUME NEW f, NEW S, IsFiniteSet(S), \A x \in S : f[x] = 0
  PROVE  SumFunctionOnSet(f, S) = 0
<1> DEFINE bad == {T \in SUBSET S : SumFunctionOnSet(f, T) # 0}
<1> SUFFICES ASSUME bad # {} PROVE FALSE
  OBVIOUS
<1>1. PICK T \in bad : \A U \in bad : U \subseteq T => U = T
  <2> HIDE DEF bad
  <2>1. bad \in SUBSET (SUBSET S)
    BY DEF bad
  <2>2. QED
    BY <2>1, SmallestSubset
<1>2. /\ T \in SUBSET S /\ IsFiniteSet(T) /\ SumFunctionOnSet(f, T) # 0
      /\ \A U \in SUBSET T : U # T => SumFunctionOnSet(f, U) = 0
  BY <1>1, FS_Subset
<1>3. T # {}
  BY <1>2, SumPick
<1>4. /\ Pick(T) \in T
      /\ SumFunctionOnSet(f, T) = f[Pick(T)] + SumFunctionOnSet(f, T \ {Pick(T)})
  BY <1>2, <1>3, SumPick
<1>5. SumFunctionOnSet(f, T \ {Pick(T)}) = 0 /\ f[Pick(T)] = 0
  BY <1>2, <1>4
<1>6. QED
  BY <1>2, <1>4, <1>5

\* What a sum becomes when one value changes.
LEMMA SumChange ==
  ASSUME NEW D, NEW f \in [D -> Int], NEW g \in [D -> Int],
         NEW S \in SUBSET D, IsFiniteSet(S), NEW x \in D,
         \A y \in D : y # x => g[y] = f[y]
  PROVE  SumFunctionOnSet(g, S) = SumFunctionOnSet(f, S) + (IF x \in S THEN g[x] - f[x] ELSE 0)
<1>1. SumFunctionOnSet(f, S) \in Int
  BY SumRemove
<1>2. CASE x \in S
  <2> DEFINE U == S \ {x}
  <2>1. U \in SUBSET D /\ IsFiniteSet(U) /\ \A y \in U : f[y] = g[y]
    BY FS_Subset
  <2>2. SumFunctionOnSet(f, S) = f[x] + SumFunctionOnSet(f, U) /\ SumFunctionOnSet(g, S) = g[x] + SumFunctionOnSet(g, U)
    BY <1>2, SumRemove
  <2> HIDE DEF U
  <2>3. SumFunctionOnSet(f, U) = SumFunctionOnSet(g, U) /\ SumFunctionOnSet(f, U) \in Int
    BY <2>1, SumSame, SumRemove
  <2>4. QED
    BY <1>2, <2>2, <2>3
<1>3. CASE x \notin S
  <2>1. \A y \in S : f[y] = g[y]
    BY <1>3
  <2>2. SumFunctionOnSet(f, S) = SumFunctionOnSet(g, S)
    BY <2>1, SumSame
  <2>3. QED
    BY <1>1, <1>3, <2>2
<1>4. QED
  BY <1>2, <1>3

\* A sum of naturals is one, and bounds each of its terms.
LEMMA SumBounds ==
  ASSUME NEW D, NEW f \in [D -> Nat], NEW S \in SUBSET D, IsFiniteSet(S)
  PROVE  /\ SumFunctionOnSet(f, S) \in Nat
         /\ \A x \in S : f[x] <= SumFunctionOnSet(f, S)
<1>1. f \in [D -> Int]
  OBVIOUS
<1> DEFINE bad == {T \in SUBSET S : SumFunctionOnSet(f, T) \notin Nat}
<1>2. bad = {}
  <2> SUFFICES ASSUME bad # {} PROVE FALSE
    OBVIOUS
  <2>1. PICK T \in bad : \A U \in bad : U \subseteq T => U = T
    <3> HIDE DEF bad
    <3>1. bad \in SUBSET (SUBSET S)
      BY DEF bad
    <3>2. QED
      BY <3>1, SmallestSubset
  <2>2. /\ T \in SUBSET S /\ IsFiniteSet(T) /\ SumFunctionOnSet(f, T) \notin Nat
        /\ \A U \in SUBSET T : U # T => SumFunctionOnSet(f, U) \in Nat
    BY <2>1, FS_Subset
  <2>3. CASE T = {}
    <3>1. SumFunctionOnSet(f, T) = 0
      BY <2>2, <2>3, SumPick
    <3>2. QED
      BY <2>2, <3>1
  <2>4. CASE T # {}
    <3>1. Pick(T) \in T /\ SumFunctionOnSet(f, T) = f[Pick(T)] + SumFunctionOnSet(f, T \ {Pick(T)})
      BY <2>2, <2>4, SumPick
    <3>2. f[Pick(T)] \in Nat /\ SumFunctionOnSet(f, T \ {Pick(T)}) \in Nat
      BY <2>2, <3>1
    <3>3. QED
      BY <2>2, <3>1, <3>2
  <2>5. QED
    BY <2>3, <2>4
<1>3. \A T \in SUBSET S : SumFunctionOnSet(f, T) \in Nat
  BY <1>2
<1>4. ASSUME NEW x \in S PROVE f[x] <= SumFunctionOnSet(f, S)
  <2>1. SumFunctionOnSet(f, S) = f[x] + SumFunctionOnSet(f, S \ {x})
    BY <1>1, SumRemove
  <2>2. SumFunctionOnSet(f, S \ {x}) \in Nat /\ f[x] \in Nat
    BY <1>3
  <2>3. QED
    BY <2>1, <2>2
<1>5. QED
  BY <1>3, <1>4
=============================================================================
