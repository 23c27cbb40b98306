----------------------------- MODULE SetLemmas ------------------------------
(***************************************************************************)
(* What the library's operators on sets compute: Max and Min of a finite   *)
(* set of numbers, and SumFunctionOnSet, the sum of a function over a      *)
(* finite set.  The proof modules use it to reason about lot and loan      *)
(* numbers, treasuries and stocks.                                         *)
(*                                                                         *)
(* The library defines the sum by recursion over the subsets of the set,   *)
(* taking out the element CHOOSE picks.  The proofs are by a least         *)
(* counterexample among those subsets.                                     *)
(***************************************************************************)
EXTENDS Integers, FiniteSets, FiniteSetsExt, Functions, FiniteSetTheorems, TLAPS,
        WellFoundedInduction

-----------------------------------------------------------------------------
(* Maxima and minima. *)

\* The lesser of two numbers.
LEMMA MinOfTwo ==
    ASSUME NEW a \in Nat, NEW b \in Nat
    PROVE  Min({a, b}) \in {a, b} /\ Min({a, b}) <= a /\ Min({a, b}) <= b
<1>1. \E x \in {a, b} : \A y \in {a, b} : x <= y
  <2>1. CASE a <= b
    BY <2>1
  <2>2. CASE b <= a
    BY <2>2
  <2> QED
    BY <2>1, <2>2
<1> QED
  BY <1>1 DEF Min

\* The greater of two numbers.
LEMMA MaxOfTwo ==
    ASSUME NEW a \in Int, NEW b \in Int
    PROVE  Max({a, b}) \in {a, b} /\ Max({a, b}) >= a /\ Max({a, b}) >= b
<1>1. \E x \in {a, b} : \A y \in {a, b} : x >= y
  <2>1. CASE a <= b
    BY <2>1
  <2>2. CASE b <= a
    BY <2>2
  <2> QED
    BY <2>1, <2>2
<1> QED
  BY <1>1 DEF Max

\* A set of numbers below a bound has a greatest one.
LEMMA GreatestExists ==
    ASSUME NEW b \in Nat, NEW S, S \subseteq 0..b, S # {}
    PROVE  /\ Max(S) \in S
           /\ \A y \in S : y <= Max(S)
<1> DEFINE below == {b - y : y \in S}
<1>1. below \subseteq Nat /\ below # {}
  <2>1. \A y \in S : y \in 0..b
    OBVIOUS
  <2>2. \A y \in 0..b : b - y \in Nat
    OBVIOUS
  <2> QED
    BY <2>1, <2>2
<1>2. PICK x \in below : \A y \in below : ~(<<y, x>> \in OpToRel(<, Nat))
  <2> HIDE DEF below
  <2> QED
    BY <1>1, NatLessThanWellFounded, WFMin
<1>3. \A y \in below : ~(y < x)
  BY <1>1, <1>2 DEF OpToRel
<1>4. PICK m \in S : x = b - m
  OBVIOUS
<1>5. \A y \in S : b - y \in below
  OBVIOUS
<1>6. \A y \in S : m >= y
  <2> SUFFICES ASSUME NEW y \in S
               PROVE  m >= y
    OBVIOUS
  <2>1. ~(b - y < b - m)
    BY <1>3, <1>4, <1>5
  <2>2. y \in Nat /\ m \in Nat /\ b \in Nat
    OBVIOUS
  <2> QED
    BY <2>1, <2>2
<1>7. Max(S) \in S /\ \A y \in S : Max(S) >= y
  BY <1>6 DEF Max
<1> QED
  BY <1>7

-----------------------------------------------------------------------------
(* The table the recursion of the sum fills. *)

Pick(T) == CHOOSE x \in T : TRUE
Rest(T) == T \ {Pick(T)}

IsTable(g, f, S) ==
    g = [T \in SUBSET S |-> IF T = {} THEN 0 ELSE f[Pick(T)] + g[Rest(T)]]
Table(f, S) == CHOOSE g : IsTable(g, f, S)

LEMMA RestIsSmaller ==
    ASSUME NEW T, T # {}
    PROVE  Pick(T) \in T /\ Rest(T) \subseteq T /\ Rest(T) # T
BY DEF Pick, Rest

\* Among subsets of a finite set there is a least one.
LEMMA LeastSubset ==
    ASSUME NEW S, IsFiniteSet(S), NEW B, B \subseteq SUBSET S, B # {}
    PROVE  \E T \in B : \A U \in B : U \subseteq T => U = T
<1>1. B \subseteq FiniteSubsetsOf(S)
  <2>1. \A T \in B : IsFiniteSet(T)
    BY FS_Subset
  <2> QED
    BY <2>1 DEF FiniteSubsetsOf
<1>2. PICK T \in B : \A U \in B : ~(<<U, T>> \in StrictSubsetOrdering(S))
  BY <1>1, FS_StrictSubsetOrderingWellFounded, WFMin
<1>3. \A U \in B : U \subseteq T => U = T
  BY <1>2 DEF StrictSubsetOrdering
<1> QED
  BY <1>3

\* What of S is at most y.
NoMore(S, y) == {x \in S : x <= y}

LEMMA FewestBelow ==
    ASSUME NEW S, IsFiniteSet(S), S # {}
    PROVE  \E y \in S : \A x \in S : NoMore(S, x) \subseteq NoMore(S, y) => NoMore(S, x) = NoMore(S, y)
<1> DEFINE B == {NoMore(S, y) : y \in S}
<1>1. B \subseteq SUBSET S /\ B # {}
  BY DEF NoMore
<1>2. PICK T \in B : \A U \in B : U \subseteq T => U = T
  <2> HIDE DEF B
  <2> QED
    BY <1>1, LeastSubset
<1> QED
  BY <1>2

\* A finite set of integers has a least one.
LEMMA LeastOfFinite ==
    ASSUME NEW S, IsFiniteSet(S), S \subseteq Int, S # {}
    PROVE  Min(S) \in S /\ \A y \in S : Min(S) <= y
<1>1. PICK y \in S : \A x \in S : NoMore(S, x) \subseteq NoMore(S, y) => NoMore(S, x) = NoMore(S, y)
  BY FewestBelow, Zenon
<1>2. \A x \in S : y <= x
  <2> SUFFICES ASSUME NEW x \in S, x <= y
               PROVE  y <= x
    OBVIOUS
  <2>1. NoMore(S, x) \subseteq NoMore(S, y)
    <3>1. \A z \in S : z <= x => z <= y
      OBVIOUS
    <3> QED
      BY <3>1 DEF NoMore
  <2>2. NoMore(S, x) = NoMore(S, y)
    BY <1>1, <2>1, Zenon
  <2>3. y \in NoMore(S, x)
    BY <2>2 DEF NoMore
  <2> QED
    BY <2>3 DEF NoMore
<1> QED
  BY <1>2 DEF Min

\* Two tables of one set are the same.
LEMMA TablesAgree ==
    ASSUME NEW f, NEW S, IsFiniteSet(S), NEW g, NEW h, IsTable(g, f, S), IsTable(h, f, S)
    PROVE  \A T \in SUBSET S : g[T] = h[T]
<1> DEFINE B == {T \in SUBSET S : g[T] # h[T]}
<1>1. SUFFICES ASSUME B # {} PROVE FALSE
  OBVIOUS
<1>2. PICK T \in B : \A U \in B : U \subseteq T => U = T
  <2>1. B \subseteq SUBSET S
    OBVIOUS
  <2> HIDE DEF B
  <2> QED
    BY <1>1, <2>1, LeastSubset
<1>3. /\ g[T] = IF T = {} THEN 0 ELSE f[Pick(T)] + g[Rest(T)]
      /\ h[T] = IF T = {} THEN 0 ELSE f[Pick(T)] + h[Rest(T)]
  BY DEF IsTable
<1>4. T # {}
  BY <1>3
<1>5. Rest(T) \in SUBSET S /\ Rest(T) \notin B
  BY <1>2, <1>4, RestIsSmaller
<1> QED
  BY <1>3, <1>4, <1>5

\* A table of a set holds those of its subsets.
LEMMA TableRestricts ==
    ASSUME NEW f, NEW S, NEW g, IsTable(g, f, S), NEW Z \in SUBSET S
    PROVE  IsTable([T \in SUBSET Z |-> g[T]], f, Z)
<1> DEFINE h == [T \in SUBSET Z |-> g[T]]
<1>1. ASSUME NEW T \in SUBSET Z
      PROVE  h[T] = IF T = {} THEN 0 ELSE f[Pick(T)] + h[Rest(T)]
  <2>1. g[T] = IF T = {} THEN 0 ELSE f[Pick(T)] + g[Rest(T)]
    BY DEF IsTable
  <2>2. T # {} => Rest(T) \in SUBSET Z
    BY RestIsSmaller
  <2> QED
    BY <2>1, <2>2
<1>2. h = [T \in SUBSET Z |-> h[T]]
  OBVIOUS
<1> HIDE DEF h
<1>3. h = [T \in SUBSET Z |-> IF T = {} THEN 0 ELSE f[Pick(T)] + h[Rest(T)]]
  BY <1>1, <1>2
<1>4. IsTable(h, f, Z)
  BY <1>3 DEF IsTable
<1> QED
  BY <1>4 DEF h

\* The recursion is well defined: every finite set has its table.
LEMMA TableExists ==
    ASSUME NEW f, NEW S, IsFiniteSet(S)
    PROVE  IsTable(Table(f, S), f, S)
<1> DEFINE B == {T \in SUBSET S : ~\E g : IsTable(g, f, T)}
<1>1. SUFFICES ASSUME B # {} PROVE FALSE
  BY DEF Table
<1>2. PICK T \in B : \A U \in B : U \subseteq T => U = T
  <2>1. B \subseteq SUBSET S
    OBVIOUS
  <2> HIDE DEF B
  <2> QED
    BY <1>1, <2>1, LeastSubset
<1>3. \A U \in SUBSET T : U # T => IsTable(Table(f, U), f, U)
  BY <1>2 DEF Table
<1>4. ASSUME NEW Y \in SUBSET T, Y # T, NEW Z \in SUBSET Y
      PROVE  Table(f, Y)[Z] = Table(f, Z)[Z]
  <2>1. IsTable([X \in SUBSET Z |-> Table(f, Y)[X]], f, Z)
    BY <1>3, <1>4, TableRestricts
  <2>2. IsTable(Table(f, Z), f, Z)
    BY <1>3, <1>4
  <2>3. IsFiniteSet(Z)
    BY FS_Subset
  <2>4. [X \in SUBSET Z |-> Table(f, Y)[X]][Z] = Table(f, Z)[Z]
    BY <2>1, <2>2, <2>3, TablesAgree
  <2> QED
    BY <2>4
<1> DEFINE h == [X \in SUBSET T |->
                   IF X = {} THEN 0 ELSE f[Pick(X)] + Table(f, Rest(X))[Rest(X)]]
<1>5. ASSUME NEW X \in SUBSET T, X # {}
      PROVE  h[Rest(X)] = Table(f, Rest(X))[Rest(X)]
  <2> DEFINE Y == Rest(X)
  <2>1. Y \in SUBSET T /\ Y # T
    BY <1>5, RestIsSmaller
  <2> HIDE DEF Y
  <2>2. h[Y] = IF Y = {} THEN 0 ELSE f[Pick(Y)] + Table(f, Rest(Y))[Rest(Y)]
    BY <2>1
  <2>3. Table(f, Y)[Y] = IF Y = {} THEN 0 ELSE f[Pick(Y)] + Table(f, Y)[Rest(Y)]
    <3>1. IsTable(Table(f, Y), f, Y)
      BY <1>3, <2>1
    <3> HIDE DEF h
    <3> DEFINE g == Table(f, Y)
    <3>2. IsTable(g, f, Y)
      BY <3>1
    <3> HIDE DEF g
    <3>3. g[Y] = IF Y = {} THEN 0 ELSE f[Pick(Y)] + g[Rest(Y)]
      BY <3>2 DEF IsTable
    <3> QED
      BY <3>3 DEF g
  <2>4. Y # {} => Table(f, Y)[Rest(Y)] = Table(f, Rest(Y))[Rest(Y)]
    BY <1>4, <2>1, RestIsSmaller
  <2>5. h[Y] = Table(f, Y)[Y]
    BY <2>2, <2>3, <2>4
  <2> QED
    BY <2>5 DEF Y
<1>6. \A X \in SUBSET T : h[X] = IF X = {} THEN 0 ELSE f[Pick(X)] + h[Rest(X)]
  BY <1>5
<1>7. h = [X \in SUBSET T |-> h[X]]
  OBVIOUS
<1> HIDE DEF h
<1>8. h = [X \in SUBSET T |-> IF X = {} THEN 0 ELSE f[Pick(X)] + h[Rest(X)]]
  BY <1>6, <1>7
<1>9. IsTable(h, f, T)
  BY <1>8 DEF IsTable
<1> QED
  BY <1>9

-----------------------------------------------------------------------------
(* Sums. *)

\* The library's definition, in terms of the table.
LEMMA SumFromTable ==
    ASSUME NEW f, NEW S
    PROVE  SumFunctionOnSet(f, S) = Table(f, S)[S]
BY Zenon DEF SumFunctionOnSet, FoldFunctionOnSet, MapThenFoldSet, Table, IsTable, Pick, Rest

LEMMA SumEmpty == \A f : SumFunctionOnSet(f, {}) = 0
<1> SUFFICES ASSUME NEW f PROVE SumFunctionOnSet(f, {}) = 0
  OBVIOUS
<1> DEFINE g == Table(f, {})
<1>1. IsTable(g, f, {}) /\ SumFunctionOnSet(f, {}) = g[{}]
  BY TableExists, SumFromTable, FS_EmptySet
<1> HIDE DEF g
<1> QED
  BY <1>1 DEF IsTable

\* The sum of a set is that of what CHOOSE leaves, and what it picks.
LEMMA SumUnfolds ==
    ASSUME NEW f, NEW S, IsFiniteSet(S), S # {}
    PROVE  SumFunctionOnSet(f, S) = f[Pick(S)] + SumFunctionOnSet(f, Rest(S))
<1> DEFINE g == Table(f, S)
           R == Rest(S)
<1>1. IsTable(g, f, S) /\ SumFunctionOnSet(f, S) = g[S]
  BY TableExists, SumFromTable
<1>2. R \in SUBSET S /\ IsFiniteSet(R)
  BY RestIsSmaller, FS_Subset
<1> HIDE DEF g
<1>3. g[S] = f[Pick(S)] + g[R]
  BY <1>1 DEF IsTable
<1> HIDE DEF R
<1>4. IsTable([X \in SUBSET R |-> g[X]], f, R)
  BY <1>1, <1>2, TableRestricts
<1>5. [X \in SUBSET R |-> g[X]][R] = Table(f, R)[R]
  BY <1>2, <1>4, TableExists, TablesAgree
<1>6. g[R] = SumFunctionOnSet(f, R)
  BY <1>5, SumFromTable
<1> QED
  BY <1>1, <1>3, <1>6 DEF R

\* Integers add up to an integer.
LEMMA SumIsInt ==
    ASSUME NEW f, NEW S, IsFiniteSet(S), \A x \in S : f[x] \in Int
    PROVE  \A T \in SUBSET S : SumFunctionOnSet(f, T) \in Int
<1> DEFINE B == {T \in SUBSET S : SumFunctionOnSet(f, T) \notin Int}
<1>1. SUFFICES ASSUME B # {} PROVE FALSE
  OBVIOUS
<1>2. PICK T \in B : \A U \in B : U \subseteq T => U = T
  <2>1. B \subseteq SUBSET S
    OBVIOUS
  <2> HIDE DEF B
  <2> QED
    BY <1>1, <2>1, LeastSubset
<1>3. T # {}
  BY SumEmpty
<1>4. SumFunctionOnSet(f, T) = f[Pick(T)] + SumFunctionOnSet(f, Rest(T))
  BY <1>3, FS_Subset, SumUnfolds
<1>5. SumFunctionOnSet(f, Rest(T)) \in Int /\ f[Pick(T)] \in Int
  BY <1>2, <1>3, RestIsSmaller
<1> QED
  BY <1>4, <1>5

\* A sum of natural numbers is one.
LEMMA SumIsNat ==
    ASSUME NEW f, NEW S, IsFiniteSet(S), \A x \in S : f[x] \in Nat
    PROVE  \A T \in SUBSET S : SumFunctionOnSet(f, T) \in Nat
<1> DEFINE B == {T \in SUBSET S : SumFunctionOnSet(f, T) \notin Nat}
<1>1. SUFFICES ASSUME B # {} PROVE FALSE
  OBVIOUS
<1>2. PICK T \in B : \A U \in B : U \subseteq T => U = T
  <2>1. B \subseteq SUBSET S
    OBVIOUS
  <2> HIDE DEF B
  <2> QED
    BY <1>1, <2>1, LeastSubset
<1>3. T # {}
  BY SumEmpty
<1>4. SumFunctionOnSet(f, T) = f[Pick(T)] + SumFunctionOnSet(f, Rest(T))
  BY <1>3, FS_Subset, SumUnfolds
<1>5. SumFunctionOnSet(f, Rest(T)) \in Nat /\ f[Pick(T)] \in Nat
  BY <1>2, <1>3, RestIsSmaller
<1> QED
  BY <1>4, <1>5

\* Any element can be taken out first.
LEMMA SumRemove ==
    ASSUME NEW f, NEW S, IsFiniteSet(S), \A x \in S : f[x] \in Int, NEW y \in S
    PROVE  SumFunctionOnSet(f, S) = f[y] + SumFunctionOnSet(f, S \ {y})
<1> DEFINE B == {T \in SUBSET S : \E x \in T : SumFunctionOnSet(f, T) # f[x] + SumFunctionOnSet(f, T \ {x})}
<1>1. SUFFICES ASSUME B # {} PROVE FALSE
  OBVIOUS
<1>2. PICK T \in B : \A U \in B : U \subseteq T => U = T
  <2>1. B \subseteq SUBSET S
    OBVIOUS
  <2> HIDE DEF B
  <2> QED
    BY <1>1, <2>1, LeastSubset
<1>3. PICK x \in T : SumFunctionOnSet(f, T) # f[x] + SumFunctionOnSet(f, T \ {x})
  OBVIOUS
<1> DEFINE p == Pick(T)
<1>4. IsFiniteSet(T) /\ IsFiniteSet(T \ {x}) /\ T # {}
  BY <1>3, FS_Subset
<1>5. p \in T /\ SumFunctionOnSet(f, T) = f[p] + SumFunctionOnSet(f, T \ {p})
  BY <1>4, SumUnfolds, RestIsSmaller DEF Rest
<1>6. x # p
  BY <1>3, <1>5
<1> HIDE DEF p
<1>7. SumFunctionOnSet(f, T \ {p}) = f[x] + SumFunctionOnSet(f, (T \ {p}) \ {x})
  BY <1>2, <1>3, <1>5, <1>6
<1>8. SumFunctionOnSet(f, T \ {x}) = f[p] + SumFunctionOnSet(f, (T \ {x}) \ {p})
  BY <1>2, <1>3, <1>5, <1>6
<1>9. (T \ {x}) \ {p} = (T \ {p}) \ {x}
  OBVIOUS
<1>10. f[x] \in Int /\ f[p] \in Int /\ SumFunctionOnSet(f, (T \ {p}) \ {x}) \in Int
  BY <1>3, <1>5, SumIsInt
<1> HIDE DEF B
<1>11. SumFunctionOnSet(f, T) = f[p] + (f[x] + SumFunctionOnSet(f, (T \ {p}) \ {x}))
  BY <1>5, <1>7
<1>12. SumFunctionOnSet(f, T \ {x}) = f[p] + SumFunctionOnSet(f, (T \ {p}) \ {x})
  BY <1>8, <1>9
<1>13. \A a, b, c \in Int : a + (b + c) = b + (a + c)
  OBVIOUS
<1> QED
  BY <1>3, <1>10, <1>11, <1>12, <1>13

\* The sum depends on the function over the set only.
LEMMA SumSame ==
    ASSUME NEW f, NEW g, NEW S, IsFiniteSet(S), \A x \in S : f[x] = g[x]
    PROVE  SumFunctionOnSet(f, S) = SumFunctionOnSet(g, S)
<1> DEFINE B == {T \in SUBSET S : SumFunctionOnSet(f, T) # SumFunctionOnSet(g, T)}
<1>1. SUFFICES ASSUME B # {} PROVE FALSE
  OBVIOUS
<1>2. PICK T \in B : \A U \in B : U \subseteq T => U = T
  <2>1. B \subseteq SUBSET S
    OBVIOUS
  <2> HIDE DEF B
  <2> QED
    BY <1>1, <2>1, LeastSubset
<1>3. T # {} /\ IsFiniteSet(T)
  BY SumEmpty, FS_Subset
<1>4. /\ SumFunctionOnSet(f, T) = f[Pick(T)] + SumFunctionOnSet(f, Rest(T))
      /\ SumFunctionOnSet(g, T) = g[Pick(T)] + SumFunctionOnSet(g, Rest(T))
  BY <1>3, SumUnfolds
<1>5. SumFunctionOnSet(f, Rest(T)) = SumFunctionOnSet(g, Rest(T)) /\ f[Pick(T)] = g[Pick(T)]
  BY <1>2, <1>3, RestIsSmaller
<1> QED
  BY <1>4, <1>5

\* One value changes: the sum changes by as much.
LEMMA SumUpdate ==
    ASSUME NEW f, NEW g, NEW S, IsFiniteSet(S), NEW k \in S,
           \A x \in S : f[x] \in Int, g[k] \in Int,
           \A x \in S : x # k => g[x] = f[x]
    PROVE  SumFunctionOnSet(g, S) = SumFunctionOnSet(f, S) + (g[k] - f[k])
<1> DEFINE a == SumFunctionOnSet(f, S \ {k})
<1>1. \A x \in S : g[x] \in Int
  OBVIOUS
<1>2. SumFunctionOnSet(f, S) = f[k] + a /\ SumFunctionOnSet(g, S) = g[k] + SumFunctionOnSet(g, S \ {k})
  BY <1>1, SumRemove
<1>3. SumFunctionOnSet(g, S \ {k}) = a
  BY FS_Subset, SumSame
<1>4. a \in Int /\ f[k] \in Int
  BY SumIsInt
<1> HIDE DEF a
<1> QED
  BY <1>2, <1>3, <1>4

\* An element is added to the set.
LEMMA SumAdd ==
    ASSUME NEW f, NEW S, IsFiniteSet(S), NEW k, k \notin S, f[k] \in Int,
           \A x \in S : f[x] \in Int
    PROVE  SumFunctionOnSet(f, S \cup {k}) = SumFunctionOnSet(f, S) + f[k]
<1>1. IsFiniteSet(S \cup {k})
  BY FS_AddElement
<1>2. (S \cup {k}) \ {k} = S
  OBVIOUS
<1>3. SumFunctionOnSet(f, S \cup {k}) = f[k] + SumFunctionOnSet(f, S)
  BY <1>1, <1>2, SumRemove
<1>4. SumFunctionOnSet(f, S) \in Int
  BY SumIsInt
<1> QED
  BY <1>3, <1>4

\* What one element loses another gains: the sum stays as it is.
LEMMA SumMove ==
    ASSUME NEW f, NEW g, NEW S, IsFiniteSet(S), NEW j \in S, NEW k \in S, j # k,
           NEW a \in Int, \A x \in S : f[x] \in Int,
           g[j] = f[j] - a, g[k] = f[k] + a,
           \A x \in S : x # j /\ x # k => g[x] = f[x]
    PROVE  SumFunctionOnSet(g, S) = SumFunctionOnSet(f, S)
<1> DEFINE h == [x \in S |-> IF x = j THEN g[j] ELSE f[x]]
<1>1. SumFunctionOnSet(h, S) = SumFunctionOnSet(f, S) + (g[j] - f[j])
  BY SumUpdate
<1>2. SumFunctionOnSet(g, S) = SumFunctionOnSet(h, S) + (g[k] - f[k])
  <2>1. h[k] = f[k] /\ g[k] \in Int /\ (\A x \in S : x # k => g[x] = h[x])
        /\ \A x \in S : h[x] \in Int
    OBVIOUS
  <2> HIDE DEF h
  <2> QED
    BY <2>1, SumUpdate
<1>3. SumFunctionOnSet(f, S) \in Int /\ f[j] \in Int /\ f[k] \in Int
  BY SumIsInt
<1> DEFINE s == SumFunctionOnSet(f, S)
<1> HIDE DEF h
<1> QED
  BY <1>1, <1>2, <1>3

\* A constant function.
LEMMA SumConstant ==
    ASSUME NEW f, NEW S, IsFiniteSet(S), NEW c \in Int, \A x \in S : f[x] = c
    PROVE  SumFunctionOnSet(f, S) = c * Cardinality(S)
<1> DEFINE B == {T \in SUBSET S : SumFunctionOnSet(f, T) # c * Cardinality(T)}
<1>1. SUFFICES ASSUME B # {} PROVE FALSE
  OBVIOUS
<1>2. PICK T \in B : \A U \in B : U \subseteq T => U = T
  <2>1. B \subseteq SUBSET S
    OBVIOUS
  <2> HIDE DEF B
  <2> QED
    BY <1>1, <2>1, LeastSubset
<1>3. T # {} /\ IsFiniteSet(T)
  <2>1. c * 0 = 0
    OBVIOUS
  <2> QED
    BY <2>1, SumEmpty, FS_EmptySet, FS_Subset
<1>4. SumFunctionOnSet(f, T) = c + SumFunctionOnSet(f, Rest(T))
  BY <1>3, SumUnfolds, RestIsSmaller
<1>5. SumFunctionOnSet(f, Rest(T)) = c * Cardinality(Rest(T))
  BY <1>2, <1>3, RestIsSmaller
<1>6. Cardinality(Rest(T)) = Cardinality(T) - 1 /\ Cardinality(T) \in Nat
  BY <1>3, FS_RemoveElement, FS_CardinalityType, RestIsSmaller DEF Rest
<1>7. \A n \in Nat : c + c * (n - 1) = c * n
  OBVIOUS
<1> QED
  BY <1>4, <1>5, <1>6, <1>7

\* The same of all the values of a function.
LEMMA SumOfAll ==
    ASSUME NEW S, IsFiniteSet(S), NEW f \in [S -> Int]
    PROVE  SumFunction(f) \in Int /\ SumFunction(f) = SumFunctionOnSet(f, S)
BY SumIsInt DEF SumFunction

LEMMA SumOfAllUpdate ==
    ASSUME NEW S, IsFiniteSet(S), NEW f \in [S -> Int], NEW k \in S, NEW v \in Int
    PROVE  SumFunction([f EXCEPT ![k] = v]) = SumFunction(f) + (v - f[k])
<1> DEFINE g == [f EXCEPT ![k] = v]
<1>1. g \in [S -> Int] /\ g[k] = v /\ \A x \in S : x # k => g[x] = f[x]
  OBVIOUS
<1> HIDE DEF g
<1>2. SumFunctionOnSet(g, S) = SumFunctionOnSet(f, S) + (v - f[k])
  BY <1>1, SumUpdate
<1>3. SumFunction(g) = SumFunction(f) + (v - f[k])
  BY <1>1, <1>2, SumOfAll
<1> QED
  BY <1>3 DEF g

LEMMA SumOfAllConstant ==
    ASSUME NEW S, IsFiniteSet(S), NEW c \in Int
    PROVE  SumFunction([x \in S |-> c]) = c * Cardinality(S)
BY SumConstant DEF SumFunction

-----------------------------------------------------------------------------
(* Quotients. *)

\* There is one way to divide with a remainder.
LEMMA Division ==
    ASSUME NEW n \in Nat \ {0}, NEW q \in Int, NEW r \in 0..n - 1
    PROVE  (n * q + r) % n = r /\ (n * q + r) \div n = q
<1> DEFINE a == n * q + r
           p == a \div n
           s == a % n
<1>1. a \in Int /\ n \in Int /\ n > 0
  OBVIOUS
<1>2. a = n * p + s /\ 0 <= s /\ s < n /\ p \in Int /\ s \in Int
  <2> HIDE DEF a
  <2> QED
    BY <1>1
<1>3. n * p + s = n * q + r
  BY <1>2
<1> HIDE DEF a, p, s
<1>4. p = q
  <2>1. ASSUME p >= q + 1 PROVE FALSE
    <3>1. n * p >= n * (q + 1) /\ n * (q + 1) = n * q + n
      BY <1>1, <1>2, <2>1
    <3> QED
      BY <1>1, <1>2, <1>3, <3>1
  <2>2. ASSUME q >= p + 1 PROVE FALSE
    <3>1. n * q >= n * (p + 1) /\ n * (p + 1) = n * p + n
      BY <1>1, <1>2, <2>2
    <3> QED
      BY <1>1, <1>2, <1>3, <3>1
  <2> QED
    BY <1>2, <2>1, <2>2
<1>5. s = r
  BY <1>1, <1>2, <1>3, <1>4
<1> QED
  BY <1>4, <1>5 DEF a, p, s

-----------------------------------------------------------------------------
(* Folds: what every step of a loop keeps, the loop keeps. *)

(* The values of a recursion over the subsets of S that takes out the element ch picks, and stays in V. *)
IsFold(g, V, base, f, ch, S) ==
    /\ g \in [SUBSET S -> V]
    /\ \A T \in SUBSET S : g[T] = IF T = {} THEN base ELSE f[ch[T]][g[T \ {ch[T]}]]

LEMMA FoldExists ==
    ASSUME NEW S, IsFiniteSet(S), NEW V, NEW base \in V, NEW f \in [S -> [V -> V]],
           NEW ch, \A T \in SUBSET S : T # {} => ch[T] \in T
    PROVE  \E g : IsFold(g, V, base, f, ch, S)
<1> DEFINE B == {T \in SUBSET S : ~\E g : IsFold(g, V, base, f, ch, T)}
<1>1. SUFFICES ASSUME B # {} PROVE FALSE
  OBVIOUS
<1>2. PICK T \in B : \A U \in B : U \subseteq T => U = T
  <2>1. B \subseteq SUBSET S
    OBVIOUS
  <2> HIDE DEF B
  <2> QED
    BY <1>1, <2>1, LeastSubset
<1> DEFINE fold(U) == CHOOSE g : IsFold(g, V, base, f, ch, U)
<1>3. ASSUME NEW U \in SUBSET T, U # T PROVE IsFold(fold(U), V, base, f, ch, U)
  BY <1>2, <1>3
<1>a. \A U \in SUBSET S : IsFiniteSet(U)
  BY FS_Subset
<1>4. ASSUME NEW Y, NEW Z, Y \subseteq T, Y # T, Z \subseteq Y
      PROVE  fold(Y)[Z] = fold(Z)[Z]
  <2> DEFINE C == {X \in SUBSET Z : fold(Y)[X] # fold(Z)[X]}
  <2>1. SUFFICES ASSUME C # {} PROVE FALSE
    OBVIOUS
  <2>2. IsFiniteSet(Z)
    BY <1>a, <1>4
  <2>3. PICK X \in C : \A U \in C : U \subseteq X => U = X
    <3>1. C \subseteq SUBSET Z
      OBVIOUS
    <3> HIDE DEF C
    <3> QED
      BY <2>1, <2>2, <3>1, LeastSubset
  <2>4. Z # T /\ IsFold(fold(Y), V, base, f, ch, Y) /\ IsFold(fold(Z), V, base, f, ch, Z)
    BY <1>3, <1>4
  <2> HIDE DEF fold
  <2>5. /\ fold(Y)[X] = IF X = {} THEN base ELSE f[ch[X]][fold(Y)[X \ {ch[X]}]]
        /\ fold(Z)[X] = IF X = {} THEN base ELSE f[ch[X]][fold(Z)[X \ {ch[X]}]]
    BY <2>3, <2>4, <1>4 DEF IsFold
  <2>6. X # {}
    BY <2>3, <2>5
  <2>7. ch[X] \in X
    BY <1>4, <2>3, <2>6
  <2>8. X \ {ch[X]} \in SUBSET Z /\ X \ {ch[X]} \notin C
    BY <2>3, <2>7
  <2> QED
    BY <2>3, <2>5, <2>6, <2>8
<1> DEFINE h == [X \in SUBSET T |->
                   IF X = {} THEN base ELSE f[ch[X]][fold(X \ {ch[X]})[X \ {ch[X]}]]]
<1>5. ASSUME NEW X \in SUBSET T, X # {} PROVE h[X \ {ch[X]}] = fold(X \ {ch[X]})[X \ {ch[X]}]
  <2> DEFINE Y == X \ {ch[X]}
  <2>1. Y \in SUBSET T /\ Y # T
    BY <1>5
  <2> HIDE DEF Y
  <2>2. h[Y] = IF Y = {} THEN base ELSE f[ch[Y]][fold(Y \ {ch[Y]})[Y \ {ch[Y]}]]
    BY <2>1
  <2>3. IsFold(fold(Y), V, base, f, ch, Y)
    BY <1>3, <2>1
  <2>3a. Y # {} => fold(Y)[Y \ {ch[Y]}] = fold(Y \ {ch[Y]})[Y \ {ch[Y]}]
    BY <1>4, <2>1
  <2> HIDE DEF h, fold
  <2>4. fold(Y)[Y] = IF Y = {} THEN base ELSE f[ch[Y]][fold(Y)[Y \ {ch[Y]}]]
    BY <2>3 DEF IsFold
  <2>5. h[Y] = fold(Y)[Y]
    BY <2>2, <2>3a, <2>4
  <2> QED
    BY <2>5 DEF Y
<1>6. \A X \in SUBSET T : h[X] = IF X = {} THEN base ELSE f[ch[X]][h[X \ {ch[X]}]]
  <2> SUFFICES ASSUME NEW X \in SUBSET T
               PROVE  h[X] = IF X = {} THEN base ELSE f[ch[X]][h[X \ {ch[X]}]]
    OBVIOUS
  <2>1. h[X] = IF X = {} THEN base ELSE f[ch[X]][fold(X \ {ch[X]})[X \ {ch[X]}]]
    <3> HIDE DEF fold
    <3> QED
      OBVIOUS
  <2>2. X # {} => h[X \ {ch[X]}] = fold(X \ {ch[X]})[X \ {ch[X]}]
    BY <1>5
  <2> HIDE DEF h, fold
  <2> QED
    BY <2>1, <2>2
<1>7. ASSUME NEW X \in SUBSET T PROVE h[X] \in V
  <2>1. CASE X = {}
    BY <2>1
  <2>2. CASE X # {}
    <3> DEFINE Y == X \ {ch[X]}
    <3>1. ch[X] \in X /\ Y \in SUBSET Y /\ Y # T /\ Y \in SUBSET T
      BY <2>2
    <3>2. IsFold(fold(Y), V, base, f, ch, Y)
      BY <1>3, <3>1
    <3>3. h[X] = f[ch[X]][fold(Y)[Y]]
      BY <2>2
    <3> HIDE DEF Y, fold
    <3>4. fold(Y)[Y] \in V
      BY <3>1, <3>2 DEF IsFold
    <3> QED
      BY <3>1, <3>3, <3>4
  <2> QED
    BY <2>1, <2>2
<1>8. h \in [SUBSET T -> V]
  BY <1>7
<1> HIDE DEF h
<1>9. IsFold(h, V, base, f, ch, T)
  BY <1>6, <1>8 DEF IsFold
<1> QED
  BY <1>9

(* A walk through 1..n from base, by the steps of f. *)
IsWalk(h, V, base, f, n) ==
    /\ h \in [0..n -> V] /\ h[0] = base
    /\ \A k \in 1..n : h[k] = f[k][h[k - 1]]

IsRecursion(g, V, base, f, n) ==
    /\ g \in [SUBSET (1..n) -> V]
    /\ \A T \in SUBSET (1..n) : g[T] = IF T = {} THEN base ELSE f[Max(T)][g[T \ {Max(T)}]]

LEMMA RecursionExists ==
    ASSUME NEW n \in Nat, NEW V, NEW base \in V, NEW f \in [1..n -> [V -> V]]
    PROVE  \E g : IsRecursion(g, V, base, f, n)
<1> DEFINE ch == [T \in SUBSET (1..n) |-> Max(T)]
<1>1. IsFiniteSet(1..n)
  BY FS_Interval
<1>2. \A T \in SUBSET (1..n) : T # {} => ch[T] \in T
  <2> SUFFICES ASSUME NEW T \in SUBSET (1..n), T # {} PROVE Max(T) \in T
    OBVIOUS
  <2>1. T \subseteq 0..n
    OBVIOUS
  <2> QED
    BY <2>1, GreatestExists
<1>3. PICK g : IsFold(g, V, base, f, ch, 1..n)
  <2> HIDE DEF ch
  <2> QED
    BY <1>1, <1>2, FoldExists
<1>4. \A T \in SUBSET (1..n) : ch[T] = Max(T)
  OBVIOUS
<1> HIDE DEF ch
<1>5. \A T \in SUBSET (1..n) :
         g[T] = IF T = {} THEN base ELSE f[Max(T)][g[T \ {Max(T)}]]
  <2> SUFFICES ASSUME NEW T \in SUBSET (1..n)
               PROVE  g[T] = IF T = {} THEN base ELSE f[Max(T)][g[T \ {Max(T)}]]
    OBVIOUS
  <2>1. g[T] = IF T = {} THEN base ELSE f[ch[T]][g[T \ {ch[T]}]]
    BY <1>3 DEF IsFold
  <2>2. ch[T] = Max(T)
    BY <1>4
  <2> QED
    BY <2>1, <2>2
<1> QED
  BY <1>3, <1>5 DEF IsFold, IsRecursion

\* A function that obeys the recursion wherever the value before is in V.
Recurs(g, V, base, f, n) ==
    \A T \in SUBSET (1..n) :
        (T # {} => g[T \ {Max(T)}] \in V)
            => g[T] = IF T = {} THEN base ELSE f[Max(T)][g[T \ {Max(T)}]]

LEMMA WalkOfRecursion ==
    ASSUME NEW n \in Nat, NEW V, NEW base \in V, NEW f \in [1..n -> [V -> V]], NEW g,
           Recurs(g, V, base, f, n)
    PROVE  IsWalk([k \in 0..n |-> g[1..k]], V, base, f, n)
<1> DEFINE B == {k \in 0..n : g[1..k] \notin V}
<1>1. g[1..0] = base
  <2>1. 1..0 = {} /\ {} \in SUBSET (1..n)
    OBVIOUS
  <2>2. g[{}] = base
    BY <2>1 DEF Recurs
  <2> QED
    BY <2>1, <2>2
<1>2. ASSUME NEW k \in 1..n, g[1..k - 1] \in V PROVE g[1..k] = f[k][g[1..k - 1]]
  <2>1. Max(1..k) = k /\ (1..k) \ {k} = 1..k - 1 /\ 1..k # {} /\ 1..k \in SUBSET (1..n)
    <3>1. k \in 1..k /\ \A j \in 1..k : j <= k
      BY <1>2
    <3>2. Max(1..k) = k
      BY <3>1 DEF Max
    <3>3. (1..k) \ {k} = 1..k - 1
      BY <1>2
    <3>4. 1..k # {} /\ 1..k \in SUBSET (1..n)
      BY <1>2
    <3> QED
      BY <3>2, <3>3, <3>4
  <2> QED
    BY <1>2, <2>1 DEF Recurs
<1>3. B = {}
  <2> SUFFICES ASSUME B # {} PROVE FALSE
    OBVIOUS
  <2>1. PICK k \in B : \A j \in B : k <= j
    <3>1. B \subseteq 0..n /\ B \subseteq Int
      OBVIOUS
    <3>2. IsFiniteSet(B)
      <4>1. IsFiniteSet(0..n)
        BY FS_Interval
      <4> HIDE DEF B
      <4> QED
        BY <3>1, <4>1, FS_Subset
    <3> HIDE DEF B
    <3> QED
      BY <3>1, <3>2, LeastOfFinite
  <2>2. k # 0
    BY <1>1
  <2>3. k - 1 \in 0..n /\ k - 1 \notin B
    BY <2>1, <2>2
  <2>4. g[1..k - 1] \in V /\ k \in 1..n
    BY <2>2, <2>3
  <2>5. g[1..k] \in V
    BY <1>2, <2>4
  <2> QED
    BY <2>5
<1> DEFINE h == [k \in 0..n |-> g[1..k]]
<1>4. h \in [0..n -> V]
  BY <1>3
<1>5. h[0] = base
  BY <1>1
<1>6. ASSUME NEW k \in 1..n PROVE h[k] = f[k][h[k - 1]]
  BY <1>2, <1>3
<1> HIDE DEF h
<1>7. IsWalk(h, V, base, f, n)
  BY <1>4, <1>5, <1>6 DEF IsWalk
<1> QED
  BY <1>7 DEF h

-----------------------------------------------------------------------------
(* Orders and ranks. *)

\* Under a strict total order of a finite set, each rank is taken by just one element.
LEMMA OneOfEachRank ==
    ASSUME NEW S, IsFiniteSet(S), NEW R,
           \A u \in S : <<u, u>> \notin R,
           \A u, v \in S : u # v => <<u, v>> \in R \/ <<v, u>> \in R,
           \A u, v, x \in S : <<u, v>> \in R /\ <<v, x>> \in R => <<u, x>> \in R
    PROVE  /\ Cardinality(S) \in Nat
           /\ \A k \in 1..Cardinality(S) :
                 \E u \in S : Cardinality({v \in S : <<v, u>> \in R}) = k - 1
           /\ \A u \in S : Cardinality({v \in S : <<v, u>> \in R}) \in 0..Cardinality(S) - 1
           /\ \A u, x \in S : Cardinality({v \in S : <<v, u>> \in R})
                              = Cardinality({v \in S : <<v, x>> \in R}) => u = x
<1> DEFINE below(u) == {v \in S : <<v, u>> \in R}
           n == Cardinality(S)
           rank == [u \in S |-> Cardinality(below(u))]
<1>1. n \in Nat
  BY FS_CardinalityType
<1>2. ASSUME NEW u \in S PROVE IsFiniteSet(below(u)) /\ Cardinality(below(u)) \in 0..n - 1
  <2>1. below(u) \subseteq S /\ u \in S /\ u \notin below(u)
    OBVIOUS
  <2> HIDE DEF below
  <2>2. IsFiniteSet(below(u)) /\ Cardinality(below(u)) <= n /\ (n = Cardinality(below(u)) => S = below(u))
    BY <2>1, FS_Subset
  <2>3. Cardinality(below(u)) \in Nat
    BY <2>2, FS_CardinalityType
  <2>4. n # Cardinality(below(u))
    BY <2>1, <2>2
  <2> HIDE DEF n
  <2> QED
    BY <1>1, <2>2, <2>3, <2>4
<1>3. ASSUME NEW u \in S, NEW x \in S, <<u, x>> \in R
      PROVE  Cardinality(below(u)) # Cardinality(below(x))
  <2>1. below(u) \subseteq below(x)
    BY <1>3
  <2>2. u \in below(x) /\ u \notin below(u)
    BY <1>3
  <2>3. IsFiniteSet(below(x))
    BY <1>2
  <2> HIDE DEF below
  <2> QED
    BY <2>1, <2>2, <2>3, FS_Subset
<1>4. \A u, x \in S : Cardinality(below(u)) = Cardinality(below(x)) => u = x
  <2> HIDE DEF below
  <2> QED
    BY <1>3
<1>5. rank \in Injection(S, 0..n - 1)
  <2>1. rank \in [S -> 0..n - 1]
    <3> HIDE DEF below, n
    <3> QED
      BY <1>2
  <2>2. \A u, x \in S : rank[u] = rank[x] => u = x
    <3> HIDE DEF below
    <3> QED
      BY <1>4
  <2> HIDE DEF rank
  <2> QED
    BY <2>1, <2>2 DEF Injection, IsInjective
<1>6. IsFiniteSet(0..n - 1) /\ Cardinality(0..n - 1) = n
  <2>1. 0 \in Int /\ n - 1 \in Int
    BY <1>1
  <2>2. /\ IsFiniteSet(0..n - 1)
        /\ Cardinality(0..n - 1) = IF 0 > n - 1 THEN 0 ELSE (n - 1) - 0 + 1
    BY <2>1, FS_Interval
  <2> HIDE DEF n
  <2> QED
    BY <1>1, <2>2
<1>7. rank \in Surjection(S, 0..n - 1)
  <2> HIDE DEF rank
  <2> QED
    BY <1>5, <1>6, FS_Injection
<1>8. ASSUME NEW k \in 1..n PROVE \E u \in S : Cardinality(below(u)) = k - 1
  <2>1. k - 1 \in 0..n - 1
    BY <1>1
  <2>2. \E u \in S : rank[u] = k - 1
    <3> HIDE DEF rank
    <3> QED
      BY <1>7, <2>1 DEF Surjection
  <2> HIDE DEF below
  <2> QED
    BY <2>2
<1> QED
  <2> HIDE DEF below, n
  <2>1. /\ n \in Nat
        /\ \A k \in 1..n : \E u \in S : Cardinality(below(u)) = k - 1
        /\ \A u \in S : Cardinality(below(u)) \in 0..n - 1
        /\ \A u, x \in S : Cardinality(below(u)) = Cardinality(below(x)) => u = x
    BY <1>1, <1>2, <1>4, <1>8
  <2> QED
    BY Zenon, <2>1 DEF below, n

\* The greatest element of a set of numbers between 1 and n is one of them.
LEMMA MaxOfRange ==
    ASSUME NEW n \in Nat
    PROVE  \A T \in SUBSET (1..n) : T # {} => Max(T) \in 1..n
<1> SUFFICES ASSUME NEW T \in SUBSET (1..n), T # {} PROVE Max(T) \in 1..n
  OBVIOUS
<1>1. T \subseteq 0..n
  OBVIOUS
<1> QED
  BY <1>1, GreatestExists

\* Where such a recursion ends.
LEMMA WalkEnds ==
    ASSUME NEW n \in Nat, NEW V, NEW base \in V, NEW f \in [1..n -> [V -> V]], NEW g,
           Recurs(g, V, base, f, n)
    PROVE  g[1..n] \in V
<1> DEFINE h == [k \in 0..n |-> g[1..k]]
<1>1. IsWalk(h, V, base, f, n)
  BY WalkOfRecursion
<1>2. h[n] = g[1..n] /\ n \in 0..n
  OBVIOUS
<1> HIDE DEF h
<1> QED
  BY <1>1, <1>2 DEF IsWalk
=============================================================================
