------------------------------ MODULE WarProofs ------------------------------
(***************************************************************************)
(* Proofs about War: rows in range, berths and holds that are enough, and   *)
(* planes that are where their ships are, and no shot without a shell or    *)
(* fuel, whatever the tables of types, the map, the rows at the start and   *)
(* the commands.                                                            *)
(*                                                                         *)
(* The three are inductive only together (WarInv): a hold that fits relies  *)
(* on rows in range, a berth on the plane being where its ship is.  A       *)
(* handler is a fold over rows.  For each there is a set of worlds that     *)
(* every step of the loop stays in: Quiet if nothing moves and no ship is   *)
(* shot at, Fought if ships are, Still if planes move, Afloat if ships do;  *)
(* and the invariant holds in each.  That nobody shoots for nothing is a    *)
(* property of the command, not of a step of it: Fair, which compares a     *)
(* world with the rows at the start of the command, says who was charged.   *)
(***************************************************************************)
EXTENDS War, SetLemmas

-----------------------------------------------------------------------------
(* The order of the queries. *)

\* Units by number: each of them, once.
LEMMA AscendingEach ==
    ASSUME NEW S, IsFiniteSet(S), S \subseteq Int
    PROVE  /\ Cardinality(S) \in Nat
           /\ Ascending(S) \in [1..Cardinality(S) -> S]
           /\ \A k \in 1..Cardinality(S) : \A j \in 1..Cardinality(S) :
                 Ascending(S)[k] = Ascending(S)[j] => k = j
           /\ \A u \in S : \E k \in 1..Cardinality(S) : Ascending(S)[k] = u
<1> DEFINE R == {r \in S \X S : r[1] < r[2]}
           before(u) == {v \in S : v < u}
           n == Cardinality(S)
           seq == [k \in 1..n |-> CHOOSE u \in S : Cardinality(before(u)) = k - 1]
<1>1. ASSUME NEW u \in S PROVE {v \in S : <<v, u>> \in R} = before(u)
  BY <1>1
<1>2. /\ n \in Nat
      /\ \A k \in 1..n : \E u \in S : Cardinality({v \in S : <<v, u>> \in R}) = k - 1
      /\ \A u \in S : Cardinality({v \in S : <<v, u>> \in R}) \in 0..n - 1
      /\ \A u, x \in S : Cardinality({v \in S : <<v, u>> \in R})
                         = Cardinality({v \in S : <<v, x>> \in R}) => u = x
  <2>1. /\ \A u \in S : <<u, u>> \notin R
        /\ \A u, v \in S : u # v => <<u, v>> \in R \/ <<v, u>> \in R
        /\ \A u, v, x \in S : <<u, v>> \in R /\ <<v, x>> \in R => <<u, x>> \in R
    OBVIOUS
  <2> HIDE DEF R
  <2> QED
    BY <2>1, OneOfEachRank
<1> HIDE DEF R
<1>3. /\ \A k \in 1..n : \E u \in S : Cardinality(before(u)) = k - 1
      /\ \A u \in S : Cardinality(before(u)) \in 0..n - 1
      /\ \A u, x \in S : Cardinality(before(u)) = Cardinality(before(x)) => u = x
  <2> HIDE DEF before
  <2> QED
    BY <1>1, <1>2
<1>4. n \in Nat
  BY <1>2
<1> HIDE DEF before, n
<1>5. ASSUME NEW k \in 1..n PROVE seq[k] \in S /\ Cardinality(before(seq[k])) = k - 1
  BY <1>3
<1>6. ASSUME NEW u \in S PROVE \E k \in 1..n : seq[k] = u
  <2>1. Cardinality(before(u)) \in 0..n - 1
    BY <1>3
  <2>2. Cardinality(before(u)) + 1 \in 1..n /\ (Cardinality(before(u)) + 1) - 1 = Cardinality(before(u))
    BY <2>1, <1>4
  <2>3. seq[Cardinality(before(u)) + 1] \in S
        /\ Cardinality(before(seq[Cardinality(before(u)) + 1])) = (Cardinality(before(u)) + 1) - 1
    BY <2>2, <1>5
  <2> HIDE DEF seq
  <2>4. seq[Cardinality(before(u)) + 1] = u
    BY <2>2, <2>3, <1>3
  <2> QED
    BY <2>2, <2>4
<1>7. Ascending(S) = seq
  BY DEF Ascending, n, before
<1>8. seq \in [1..n -> S]
  BY <1>5
<1> HIDE DEF seq
<1>9. \A k \in 1..n : \A j \in 1..n : seq[k] = seq[j] => k = j
  <2> SUFFICES ASSUME NEW k \in 1..n, NEW j \in 1..n, seq[k] = seq[j] PROVE k = j
    OBVIOUS
  <2>1. Cardinality(before(seq[k])) = k - 1 /\ Cardinality(before(seq[j])) = j - 1
    BY <1>5
  <2>2. k - 1 = j - 1
    BY <2>1
  <2> QED
    BY <2>2, <1>4
<1>10. /\ n \in Nat
       /\ Ascending(S) \in [1..n -> S]
       /\ \A k \in 1..n : \A j \in 1..n : Ascending(S)[k] = Ascending(S)[j] => k = j
       /\ \A u \in S : \E k \in 1..n : Ascending(S)[k] = u
  BY <1>4, <1>6, <1>7, <1>8, <1>9
<1> QED
  BY <1>10 DEF n
\* Sectors by row and column: each of them, once.
LEMMA InRowsEach ==
    ASSUME NEW S, IsFiniteSet(S), S \subseteq Sectors
    PROVE  /\ Cardinality(S) \in Nat
           /\ InRows(S) \in [1..Cardinality(S) -> S]
           /\ \A k \in 1..Cardinality(S) : \A j \in 1..Cardinality(S) :
                 InRows(S)[k] = InRows(S)[j] => k = j
           /\ \A u \in S : \E k \in 1..Cardinality(S) : InRows(S)[k] = u
<1> DEFINE R == {r \in S \X S : Precedes(r[1], r[2])}
           before(u) == {v \in S : Precedes(v, u)}
           n == Cardinality(S)
           seq == [k \in 1..n |-> CHOOSE u \in S : Cardinality(before(u)) = k - 1]
<1>1. ASSUME NEW u \in S PROVE {v \in S : <<v, u>> \in R} = before(u)
  BY <1>1
<1>2. /\ n \in Nat
      /\ \A k \in 1..n : \E u \in S : Cardinality({v \in S : <<v, u>> \in R}) = k - 1
      /\ \A u \in S : Cardinality({v \in S : <<v, u>> \in R}) \in 0..n - 1
      /\ \A u, x \in S : Cardinality({v \in S : <<v, u>> \in R})
                         = Cardinality({v \in S : <<v, x>> \in R}) => u = x
  <2>1. /\ \A u \in S : <<u, u>> \notin R
        /\ \A u, v \in S : u # v => <<u, v>> \in R \/ <<v, u>> \in R
        /\ \A u, v, x \in S : <<u, v>> \in R /\ <<v, x>> \in R => <<u, x>> \in R
    <3>1. \A u \in S : u = <<u[1], u[2]>> /\ u[1] \in Int /\ u[2] \in Int
      BY ForcesAssumption DEF Sectors
    <3> QED
      BY <3>1 DEF Precedes
  <2> HIDE DEF R
  <2> QED
    BY <2>1, OneOfEachRank
<1> HIDE DEF R
<1>3. /\ \A k \in 1..n : \E u \in S : Cardinality(before(u)) = k - 1
      /\ \A u \in S : Cardinality(before(u)) \in 0..n - 1
      /\ \A u, x \in S : Cardinality(before(u)) = Cardinality(before(x)) => u = x
  <2> HIDE DEF before
  <2> QED
    BY <1>1, <1>2
<1>4. n \in Nat
  BY <1>2
<1> HIDE DEF before, n
<1>5. ASSUME NEW k \in 1..n PROVE seq[k] \in S /\ Cardinality(before(seq[k])) = k - 1
  BY <1>3
<1>6. ASSUME NEW u \in S PROVE \E k \in 1..n : seq[k] = u
  <2>1. Cardinality(before(u)) \in 0..n - 1
    BY <1>3
  <2>2. Cardinality(before(u)) + 1 \in 1..n /\ (Cardinality(before(u)) + 1) - 1 = Cardinality(before(u))
    BY <2>1, <1>4
  <2>3. seq[Cardinality(before(u)) + 1] \in S
        /\ Cardinality(before(seq[Cardinality(before(u)) + 1])) = (Cardinality(before(u)) + 1) - 1
    BY <2>2, <1>5
  <2> HIDE DEF seq
  <2>4. seq[Cardinality(before(u)) + 1] = u
    BY <2>2, <2>3, <1>3
  <2> QED
    BY <2>2, <2>4
<1>7. InRows(S) = seq
  BY DEF InRows, n, before
<1>8. seq \in [1..n -> S]
  BY <1>5
<1> HIDE DEF seq
<1>9. \A k \in 1..n : \A j \in 1..n : seq[k] = seq[j] => k = j
  <2> SUFFICES ASSUME NEW k \in 1..n, NEW j \in 1..n, seq[k] = seq[j] PROVE k = j
    OBVIOUS
  <2>1. Cardinality(before(seq[k])) = k - 1 /\ Cardinality(before(seq[j])) = j - 1
    BY <1>5
  <2>2. k - 1 = j - 1
    BY <2>1
  <2> QED
    BY <2>2, <1>4
<1>10. /\ n \in Nat
       /\ InRows(S) \in [1..n -> S]
       /\ \A k \in 1..n : \A j \in 1..n : InRows(S)[k] = InRows(S)[j] => k = j
       /\ \A u \in S : \E k \in 1..n : InRows(S)[k] = u
  BY <1>4, <1>6, <1>7, <1>8, <1>9
<1> QED
  BY <1>10 DEF n

-----------------------------------------------------------------------------
(* The loops of the handlers, each as a fold over a sequence: what every step keeps, the whole loop keeps. *)

\* move, explore: along the route.
LEMMA CarriedIn ==
    ASSUME NEW me, NEW from, NEW route, NEW owners, NEW n \in Nat, route \in [1..n -> Directions], NEW V,
           [w |-> World, at |-> from, left |-> sect[from].mobil * 1000, halt |-> FALSE,
              steps |-> 0] \in V,
           \A st \in V : \A d \in Directions : Carry(st, d, me, owners) \in V
    PROVE  Carried(me, from, route, owners) \in V
<1> DEFINE seq == route
           base == [w |-> World, at |-> from, left |-> sect[from].mobil * 1000, halt |-> FALSE,
              steps |-> 0]
           It(g) == g = [T \in SUBSET DOMAIN seq |->
                            IF T = {} THEN base ELSE Carry(g[T \ {Max(T)}], seq[Max(T)], me, owners)]
           G == CHOOSE g : It(g)
           f == [k \in 1..n |-> [st \in V |-> Carry(st, seq[k], me, owners)]]
<1>0. n \in Nat /\ DOMAIN seq = 1..n /\ seq \in [1..n -> Directions]
  OBVIOUS
<1>1. Carried(me, from, route, owners) = G[DOMAIN seq]
  BY Zenon DEF Carried, FoldLeft, MapThenFoldSet
<1>2. \A k \in 1..n : \A st \in V : Carry(st, seq[k], me, owners) \in V
  <2> HIDE DEF seq
  <2> QED
    BY <1>0
<1>3. f \in [1..n -> [V -> V]]
  <2> HIDE DEF seq
  <2> QED
    BY <1>2
<1>4. \A k \in 1..n : \A st \in V : f[k][st] = Carry(st, seq[k], me, owners)
  <2> HIDE DEF seq
  <2> QED
    OBVIOUS
<1>5. base \in V
  OBVIOUS
<1> HIDE DEF seq, base, f, It, G
<1>6. PICK r : IsRecursion(r, V, base, f, n)
  BY <1>0, <1>3, <1>5, RecursionExists
<1>7. \A T \in SUBSET (1..n) : T # {} => Max(T) \in 1..n
  BY <1>0, MaxOfRange
<1>8. It(r)
  <2>1. ASSUME NEW T \in SUBSET (1..n)
        PROVE  r[T] = IF T = {} THEN base ELSE Carry(r[T \ {Max(T)}], seq[Max(T)], me, owners)
    BY <1>4, <1>6, <1>7, <2>1 DEF IsRecursion
  <2> QED
    BY <1>0, <1>6, <2>1 DEF It, IsRecursion
<1>9. It(G)
  BY Zenon, <1>8 DEF G
<1>10. \A T \in SUBSET (1..n) : G[T] = IF T = {} THEN base ELSE Carry(G[T \ {Max(T)}], seq[Max(T)], me, owners)
  BY <1>0, <1>9 DEF It
<1>11. Recurs(G, V, base, f, n)
  <2>1. ASSUME NEW T \in SUBSET (1..n), T # {} => G[T \ {Max(T)}] \in V
        PROVE  G[T] = IF T = {} THEN base ELSE f[Max(T)][G[T \ {Max(T)}]]
    <3>1. CASE T = {}
      BY <1>10, <3>1
    <3>2. CASE T # {}
      <4>1. Max(T) \in 1..n /\ G[T \ {Max(T)}] \in V
        BY <1>7, <2>1, <3>2
      <4>2. f[Max(T)][G[T \ {Max(T)}]] = Carry(G[T \ {Max(T)}], seq[Max(T)], me, owners)
        BY <1>4, <4>1
      <4> QED
        BY <1>10, <3>2, <4>2
    <3> QED
      BY <3>1, <3>2
  <2> QED
    BY <2>1 DEF Recurs
<1>12. G[1..n] \in V
  BY <1>0, <1>3, <1>5, <1>11, WalkEnds
<1> QED
  BY <1>0, <1>1, <1>12

\* enlist: sector by sector.
LEMMA EnlistedIn ==
    ASSUME NEW me, NEW spec, NEW wanted, IsFiniteSet(Own(me, spec)), Own(me, spec) \subseteq Sectors, NEW V,
           [w |-> World, total |-> 0] \in V,
           \A st \in V : \A s \in Own(me, spec) : EnlistOne(st, s, me, wanted) \in V
    PROVE  Enlisted(me, spec, wanted) \in V
<1> DEFINE n == Cardinality(Own(me, spec))
           seq == InRows(Own(me, spec))
           base == [w |-> World, total |-> 0]
           It(g) == g = [T \in SUBSET DOMAIN seq |->
                            IF T = {} THEN base ELSE EnlistOne(g[T \ {Max(T)}], seq[Max(T)], me, wanted)]
           G == CHOOSE g : It(g)
           f == [k \in 1..n |-> [st \in V |-> EnlistOne(st, seq[k], me, wanted)]]
<1>0. n \in Nat /\ DOMAIN seq = 1..n /\ seq \in [1..n -> Own(me, spec)]
  BY InRowsEach
<1>1. Enlisted(me, spec, wanted) = G[DOMAIN seq]
  BY Zenon DEF Enlisted, FoldLeft, MapThenFoldSet
<1>2. \A k \in 1..n : \A st \in V : EnlistOne(st, seq[k], me, wanted) \in V
  <2> HIDE DEF seq, n
  <2> QED
    BY <1>0
<1>3. f \in [1..n -> [V -> V]]
  <2> HIDE DEF seq, n
  <2> QED
    BY <1>2
<1>4. \A k \in 1..n : \A st \in V : f[k][st] = EnlistOne(st, seq[k], me, wanted)
  <2> HIDE DEF seq, n
  <2> QED
    OBVIOUS
<1>5. base \in V
  OBVIOUS
<1> HIDE DEF seq, base, f, It, G, n
<1>6. PICK r : IsRecursion(r, V, base, f, n)
  BY <1>0, <1>3, <1>5, RecursionExists
<1>7. \A T \in SUBSET (1..n) : T # {} => Max(T) \in 1..n
  BY <1>0, MaxOfRange
<1>8. It(r)
  <2>1. ASSUME NEW T \in SUBSET (1..n)
        PROVE  r[T] = IF T = {} THEN base ELSE EnlistOne(r[T \ {Max(T)}], seq[Max(T)], me, wanted)
    BY <1>4, <1>6, <1>7, <2>1 DEF IsRecursion
  <2> QED
    BY <1>0, <1>6, <2>1 DEF It, IsRecursion
<1>9. It(G)
  BY Zenon, <1>8 DEF G
<1>10. \A T \in SUBSET (1..n) : G[T] = IF T = {} THEN base ELSE EnlistOne(G[T \ {Max(T)}], seq[Max(T)], me, wanted)
  BY <1>0, <1>9 DEF It
<1>11. Recurs(G, V, base, f, n)
  <2>1. ASSUME NEW T \in SUBSET (1..n), T # {} => G[T \ {Max(T)}] \in V
        PROVE  G[T] = IF T = {} THEN base ELSE f[Max(T)][G[T \ {Max(T)}]]
    <3>1. CASE T = {}
      BY <1>10, <3>1
    <3>2. CASE T # {}
      <4>1. Max(T) \in 1..n /\ G[T \ {Max(T)}] \in V
        BY <1>7, <2>1, <3>2
      <4>2. f[Max(T)][G[T \ {Max(T)}]] = EnlistOne(G[T \ {Max(T)}], seq[Max(T)], me, wanted)
        BY <1>4, <4>1
      <4> QED
        BY <1>10, <3>2, <4>2
    <3> QED
      BY <3>1, <3>2
  <2> QED
    BY <2>1 DEF Recurs
<1>12. G[1..n] \in V
  BY <1>0, <1>3, <1>5, <1>11, WalkEnds
<1> QED
  BY <1>0, <1>1, <1>12

\* demobilize: sector by sector.
LEMMA DemobilizedIn ==
    ASSUME NEW me, NEW spec, NEW amount, IsFiniteSet(Own(me, spec)), Own(me, spec) \subseteq Sectors, NEW V,
           [w |-> World, total |-> 0, broke |-> FALSE] \in V,
           \A st \in V : \A s \in Own(me, spec) : DemobilizeOne(st, s, me, amount) \in V
    PROVE  Demobilized(me, spec, amount) \in V
<1> DEFINE n == Cardinality(Own(me, spec))
           seq == InRows(Own(me, spec))
           base == [w |-> World, total |-> 0, broke |-> FALSE]
           It(g) == g = [T \in SUBSET DOMAIN seq |->
                            IF T = {} THEN base ELSE DemobilizeOne(g[T \ {Max(T)}], seq[Max(T)], me, amount)]
           G == CHOOSE g : It(g)
           f == [k \in 1..n |-> [st \in V |-> DemobilizeOne(st, seq[k], me, amount)]]
<1>0. n \in Nat /\ DOMAIN seq = 1..n /\ seq \in [1..n -> Own(me, spec)]
  BY InRowsEach
<1>1. Demobilized(me, spec, amount) = G[DOMAIN seq]
  BY Zenon DEF Demobilized, FoldLeft, MapThenFoldSet
<1>2. \A k \in 1..n : \A st \in V : DemobilizeOne(st, seq[k], me, amount) \in V
  <2> HIDE DEF seq, n
  <2> QED
    BY <1>0
<1>3. f \in [1..n -> [V -> V]]
  <2> HIDE DEF seq, n
  <2> QED
    BY <1>2
<1>4. \A k \in 1..n : \A st \in V : f[k][st] = DemobilizeOne(st, seq[k], me, amount)
  <2> HIDE DEF seq, n
  <2> QED
    OBVIOUS
<1>5. base \in V
  OBVIOUS
<1> HIDE DEF seq, base, f, It, G, n
<1>6. PICK r : IsRecursion(r, V, base, f, n)
  BY <1>0, <1>3, <1>5, RecursionExists
<1>7. \A T \in SUBSET (1..n) : T # {} => Max(T) \in 1..n
  BY <1>0, MaxOfRange
<1>8. It(r)
  <2>1. ASSUME NEW T \in SUBSET (1..n)
        PROVE  r[T] = IF T = {} THEN base ELSE DemobilizeOne(r[T \ {Max(T)}], seq[Max(T)], me, amount)
    BY <1>4, <1>6, <1>7, <2>1 DEF IsRecursion
  <2> QED
    BY <1>0, <1>6, <2>1 DEF It, IsRecursion
<1>9. It(G)
  BY Zenon, <1>8 DEF G
<1>10. \A T \in SUBSET (1..n) : G[T] = IF T = {} THEN base ELSE DemobilizeOne(G[T \ {Max(T)}], seq[Max(T)], me, amount)
  BY <1>0, <1>9 DEF It
<1>11. Recurs(G, V, base, f, n)
  <2>1. ASSUME NEW T \in SUBSET (1..n), T # {} => G[T \ {Max(T)}] \in V
        PROVE  G[T] = IF T = {} THEN base ELSE f[Max(T)][G[T \ {Max(T)}]]
    <3>1. CASE T = {}
      BY <1>10, <3>1
    <3>2. CASE T # {}
      <4>1. Max(T) \in 1..n /\ G[T \ {Max(T)}] \in V
        BY <1>7, <2>1, <3>2
      <4>2. f[Max(T)][G[T \ {Max(T)}]] = DemobilizeOne(G[T \ {Max(T)}], seq[Max(T)], me, amount)
        BY <1>4, <4>1
      <4> QED
        BY <1>10, <3>2, <4>2
    <3> QED
      BY <3>1, <3>2
  <2> QED
    BY <2>1 DEF Recurs
<1>12. G[1..n] \in V
  BY <1>0, <1>3, <1>5, <1>11, WalkEnds
<1> QED
  BY <1>0, <1>1, <1>12

\* build: a bridge from each source.
LEMMA BridgedIn ==
    ASSUME NEW sources, NEW d, NEW hcm, NEW type, IsFiniteSet(sources), sources \subseteq Sectors, NEW V,
           World \in V,
           \A w \in V : \A s \in sources : BridgeOne(w, s, d, hcm, type) \in V
    PROVE  Bridged(sources, d, hcm, type) \in V
<1> DEFINE n == Cardinality(sources)
           seq == InRows(sources)
           base == World
           It(g) == g = [T \in SUBSET DOMAIN seq |->
                            IF T = {} THEN base ELSE BridgeOne(g[T \ {Max(T)}], seq[Max(T)], d, hcm, type)]
           G == CHOOSE g : It(g)
           f == [k \in 1..n |-> [w \in V |-> BridgeOne(w, seq[k], d, hcm, type)]]
<1>0. n \in Nat /\ DOMAIN seq = 1..n /\ seq \in [1..n -> sources]
  BY InRowsEach
<1>1. Bridged(sources, d, hcm, type) = G[DOMAIN seq]
  BY Zenon DEF Bridged, FoldLeft, MapThenFoldSet
<1>2. \A k \in 1..n : \A w \in V : BridgeOne(w, seq[k], d, hcm, type) \in V
  <2> HIDE DEF seq, n
  <2> QED
    BY <1>0
<1>3. f \in [1..n -> [V -> V]]
  <2> HIDE DEF seq, n
  <2> QED
    BY <1>2
<1>4. \A k \in 1..n : \A w \in V : f[k][w] = BridgeOne(w, seq[k], d, hcm, type)
  <2> HIDE DEF seq, n
  <2> QED
    OBVIOUS
<1>5. base \in V
  OBVIOUS
<1> HIDE DEF seq, base, f, It, G, n
<1>6. PICK r : IsRecursion(r, V, base, f, n)
  BY <1>0, <1>3, <1>5, RecursionExists
<1>7. \A T \in SUBSET (1..n) : T # {} => Max(T) \in 1..n
  BY <1>0, MaxOfRange
<1>8. It(r)
  <2>1. ASSUME NEW T \in SUBSET (1..n)
        PROVE  r[T] = IF T = {} THEN base ELSE BridgeOne(r[T \ {Max(T)}], seq[Max(T)], d, hcm, type)
    BY <1>4, <1>6, <1>7, <2>1 DEF IsRecursion
  <2> QED
    BY <1>0, <1>6, <2>1 DEF It, IsRecursion
<1>9. It(G)
  BY Zenon, <1>8 DEF G
<1>10. \A T \in SUBSET (1..n) : G[T] = IF T = {} THEN base ELSE BridgeOne(G[T \ {Max(T)}], seq[Max(T)], d, hcm, type)
  BY <1>0, <1>9 DEF It
<1>11. Recurs(G, V, base, f, n)
  <2>1. ASSUME NEW T \in SUBSET (1..n), T # {} => G[T \ {Max(T)}] \in V
        PROVE  G[T] = IF T = {} THEN base ELSE f[Max(T)][G[T \ {Max(T)}]]
    <3>1. CASE T = {}
      BY <1>10, <3>1
    <3>2. CASE T # {}
      <4>1. Max(T) \in 1..n /\ G[T \ {Max(T)}] \in V
        BY <1>7, <2>1, <3>2
      <4>2. f[Max(T)][G[T \ {Max(T)}]] = BridgeOne(G[T \ {Max(T)}], seq[Max(T)], d, hcm, type)
        BY <1>4, <4>1
      <4> QED
        BY <1>10, <3>2, <4>2
    <3> QED
      BY <3>1, <3>2
  <2> QED
    BY <2>1 DEF Recurs
<1>12. G[1..n] \in V
  BY <1>0, <1>3, <1>5, <1>11, WalkEnds
<1> QED
  BY <1>0, <1>1, <1>12

\* march: along the route.
LEMMA TroddenIn ==
    ASSUME NEW me, NEW row, NEW route, NEW n \in Nat, route \in [1..n -> Directions], NEW V,
           [at |-> row.at, mobil |-> row.mobil, halt |-> FALSE] \in V,
           \A st \in V : \A d \in Directions : Tread(me, st, d) \in V
    PROVE  Trodden(me, row, route) \in V
<1> DEFINE seq == route
           base == [at |-> row.at, mobil |-> row.mobil, halt |-> FALSE]
           It(g) == g = [T \in SUBSET DOMAIN seq |->
                            IF T = {} THEN base ELSE Tread(me, g[T \ {Max(T)}], seq[Max(T)])]
           G == CHOOSE g : It(g)
           f == [k \in 1..n |-> [st \in V |-> Tread(me, st, seq[k])]]
<1>0. n \in Nat /\ DOMAIN seq = 1..n /\ seq \in [1..n -> Directions]
  OBVIOUS
<1>1. Trodden(me, row, route) = G[DOMAIN seq]
  BY Zenon DEF Trodden, FoldLeft, MapThenFoldSet
<1>2. \A k \in 1..n : \A st \in V : Tread(me, st, seq[k]) \in V
  <2> HIDE DEF seq
  <2> QED
    BY <1>0
<1>3. f \in [1..n -> [V -> V]]
  <2> HIDE DEF seq
  <2> QED
    BY <1>2
<1>4. \A k \in 1..n : \A st \in V : f[k][st] = Tread(me, st, seq[k])
  <2> HIDE DEF seq
  <2> QED
    OBVIOUS
<1>5. base \in V
  OBVIOUS
<1> HIDE DEF seq, base, f, It, G
<1>6. PICK r : IsRecursion(r, V, base, f, n)
  BY <1>0, <1>3, <1>5, RecursionExists
<1>7. \A T \in SUBSET (1..n) : T # {} => Max(T) \in 1..n
  BY <1>0, MaxOfRange
<1>8. It(r)
  <2>1. ASSUME NEW T \in SUBSET (1..n)
        PROVE  r[T] = IF T = {} THEN base ELSE Tread(me, r[T \ {Max(T)}], seq[Max(T)])
    BY <1>4, <1>6, <1>7, <2>1 DEF IsRecursion
  <2> QED
    BY <1>0, <1>6, <2>1 DEF It, IsRecursion
<1>9. It(G)
  BY Zenon, <1>8 DEF G
<1>10. \A T \in SUBSET (1..n) : G[T] = IF T = {} THEN base ELSE Tread(me, G[T \ {Max(T)}], seq[Max(T)])
  BY <1>0, <1>9 DEF It
<1>11. Recurs(G, V, base, f, n)
  <2>1. ASSUME NEW T \in SUBSET (1..n), T # {} => G[T \ {Max(T)}] \in V
        PROVE  G[T] = IF T = {} THEN base ELSE f[Max(T)][G[T \ {Max(T)}]]
    <3>1. CASE T = {}
      BY <1>10, <3>1
    <3>2. CASE T # {}
      <4>1. Max(T) \in 1..n /\ G[T \ {Max(T)}] \in V
        BY <1>7, <2>1, <3>2
      <4>2. f[Max(T)][G[T \ {Max(T)}]] = Tread(me, G[T \ {Max(T)}], seq[Max(T)])
        BY <1>4, <4>1
      <4> QED
        BY <1>10, <3>2, <4>2
    <3> QED
      BY <3>1, <3>2
  <2> QED
    BY <2>1 DEF Recurs
<1>12. G[1..n] \in V
  BY <1>0, <1>3, <1>5, <1>11, WalkEnds
<1> QED
  BY <1>0, <1>1, <1>12

\* load: ship by ship.
LEMMA LoadAllIn ==
    ASSUME NEW docked, NEW i, NEW amount, IsFiniteSet(docked), docked \subseteq Int, NEW V,
           World \in V,
           \A w \in V : \A s \in docked : LoadOne(w, s, i, amount) \in V
    PROVE  LoadAll(docked, i, amount) \in V
<1> DEFINE n == Cardinality(docked)
           seq == Ascending(docked)
           base == World
           It(g) == g = [T \in SUBSET DOMAIN seq |->
                            IF T = {} THEN base ELSE LoadOne(g[T \ {Max(T)}], seq[Max(T)], i, amount)]
           G == CHOOSE g : It(g)
           f == [k \in 1..n |-> [w \in V |-> LoadOne(w, seq[k], i, amount)]]
<1>0. n \in Nat /\ DOMAIN seq = 1..n /\ seq \in [1..n -> docked]
  BY AscendingEach
<1>1. LoadAll(docked, i, amount) = G[DOMAIN seq]
  BY Zenon DEF LoadAll, FoldLeft, MapThenFoldSet
<1>2. \A k \in 1..n : \A w \in V : LoadOne(w, seq[k], i, amount) \in V
  <2> HIDE DEF seq, n
  <2> QED
    BY <1>0
<1>3. f \in [1..n -> [V -> V]]
  <2> HIDE DEF seq, n
  <2> QED
    BY <1>2
<1>4. \A k \in 1..n : \A w \in V : f[k][w] = LoadOne(w, seq[k], i, amount)
  <2> HIDE DEF seq, n
  <2> QED
    OBVIOUS
<1>5. base \in V
  OBVIOUS
<1> HIDE DEF seq, base, f, It, G, n
<1>6. PICK r : IsRecursion(r, V, base, f, n)
  BY <1>0, <1>3, <1>5, RecursionExists
<1>7. \A T \in SUBSET (1..n) : T # {} => Max(T) \in 1..n
  BY <1>0, MaxOfRange
<1>8. It(r)
  <2>1. ASSUME NEW T \in SUBSET (1..n)
        PROVE  r[T] = IF T = {} THEN base ELSE LoadOne(r[T \ {Max(T)}], seq[Max(T)], i, amount)
    BY <1>4, <1>6, <1>7, <2>1 DEF IsRecursion
  <2> QED
    BY <1>0, <1>6, <2>1 DEF It, IsRecursion
<1>9. It(G)
  BY Zenon, <1>8 DEF G
<1>10. \A T \in SUBSET (1..n) : G[T] = IF T = {} THEN base ELSE LoadOne(G[T \ {Max(T)}], seq[Max(T)], i, amount)
  BY <1>0, <1>9 DEF It
<1>11. Recurs(G, V, base, f, n)
  <2>1. ASSUME NEW T \in SUBSET (1..n), T # {} => G[T \ {Max(T)}] \in V
        PROVE  G[T] = IF T = {} THEN base ELSE f[Max(T)][G[T \ {Max(T)}]]
    <3>1. CASE T = {}
      BY <1>10, <3>1
    <3>2. CASE T # {}
      <4>1. Max(T) \in 1..n /\ G[T \ {Max(T)}] \in V
        BY <1>7, <2>1, <3>2
      <4>2. f[Max(T)][G[T \ {Max(T)}]] = LoadOne(G[T \ {Max(T)}], seq[Max(T)], i, amount)
        BY <1>4, <4>1
      <4> QED
        BY <1>10, <3>2, <4>2
    <3> QED
      BY <3>1, <3>2
  <2> QED
    BY <2>1 DEF Recurs
<1>12. G[1..n] \in V
  BY <1>0, <1>3, <1>5, <1>11, WalkEnds
<1> QED
  BY <1>0, <1>1, <1>12

\* load: planes onto a ship.
LEMMA FilledIn ==
    ASSUME NEW st, NEW s, NEW planes, IsFiniteSet(planes), planes \subseteq Int, NEW V,
           [st EXCEPT !.manifest = Ascending(PlanesOn(st.w, s))] \in V,
           \A v \in V : \A p \in planes : LoadOnto(v, s, p) \in V
    PROVE  Filled(st, s, planes) \in V
<1> DEFINE n == Cardinality(planes)
           seq == Ascending(planes)
           base == [st EXCEPT !.manifest = Ascending(PlanesOn(st.w, s))]
           It(g) == g = [T \in SUBSET DOMAIN seq |->
                            IF T = {} THEN base ELSE LoadOnto(g[T \ {Max(T)}], s, seq[Max(T)])]
           G == CHOOSE g : It(g)
           f == [k \in 1..n |-> [v \in V |-> LoadOnto(v, s, seq[k])]]
<1>0. n \in Nat /\ DOMAIN seq = 1..n /\ seq \in [1..n -> planes]
  BY AscendingEach
<1>1. Filled(st, s, planes) = G[DOMAIN seq]
  BY Zenon DEF Filled, FoldLeft, MapThenFoldSet
<1>2. \A k \in 1..n : \A v \in V : LoadOnto(v, s, seq[k]) \in V
  <2> HIDE DEF seq, n
  <2> QED
    BY <1>0
<1>3. f \in [1..n -> [V -> V]]
  <2> HIDE DEF seq, n
  <2> QED
    BY <1>2
<1>4. \A k \in 1..n : \A v \in V : f[k][v] = LoadOnto(v, s, seq[k])
  <2> HIDE DEF seq, n
  <2> QED
    OBVIOUS
<1>5. base \in V
  OBVIOUS
<1> HIDE DEF seq, base, f, It, G, n
<1>6. PICK r : IsRecursion(r, V, base, f, n)
  BY <1>0, <1>3, <1>5, RecursionExists
<1>7. \A T \in SUBSET (1..n) : T # {} => Max(T) \in 1..n
  BY <1>0, MaxOfRange
<1>8. It(r)
  <2>1. ASSUME NEW T \in SUBSET (1..n)
        PROVE  r[T] = IF T = {} THEN base ELSE LoadOnto(r[T \ {Max(T)}], s, seq[Max(T)])
    BY <1>4, <1>6, <1>7, <2>1 DEF IsRecursion
  <2> QED
    BY <1>0, <1>6, <2>1 DEF It, IsRecursion
<1>9. It(G)
  BY Zenon, <1>8 DEF G
<1>10. \A T \in SUBSET (1..n) : G[T] = IF T = {} THEN base ELSE LoadOnto(G[T \ {Max(T)}], s, seq[Max(T)])
  BY <1>0, <1>9 DEF It
<1>11. Recurs(G, V, base, f, n)
  <2>1. ASSUME NEW T \in SUBSET (1..n), T # {} => G[T \ {Max(T)}] \in V
        PROVE  G[T] = IF T = {} THEN base ELSE f[Max(T)][G[T \ {Max(T)}]]
    <3>1. CASE T = {}
      BY <1>10, <3>1
    <3>2. CASE T # {}
      <4>1. Max(T) \in 1..n /\ G[T \ {Max(T)}] \in V
        BY <1>7, <2>1, <3>2
      <4>2. f[Max(T)][G[T \ {Max(T)}]] = LoadOnto(G[T \ {Max(T)}], s, seq[Max(T)])
        BY <1>4, <4>1
      <4> QED
        BY <1>10, <3>2, <4>2
    <3> QED
      BY <3>1, <3>2
  <2> QED
    BY <2>1 DEF Recurs
<1>12. G[1..n] \in V
  BY <1>0, <1>3, <1>5, <1>11, WalkEnds
<1> QED
  BY <1>0, <1>1, <1>12

\* load: planes, ship by ship.
LEMMA AllFilledIn ==
    ASSUME NEW ships, NEW planes, IsFiniteSet(ships), ships \subseteq Int, NEW V,
           [w |-> World, manifest |-> <<>>, placed |-> {}] \in V,
           \A st \in V : \A s \in ships : Filled(st, s, planes) \in V
    PROVE  AllFilled(ships, planes) \in V
<1> DEFINE n == Cardinality(ships)
           seq == Ascending(ships)
           base == [w |-> World, manifest |-> <<>>, placed |-> {}]
           It(g) == g = [T \in SUBSET DOMAIN seq |->
                            IF T = {} THEN base ELSE Filled(g[T \ {Max(T)}], seq[Max(T)], planes)]
           G == CHOOSE g : It(g)
           f == [k \in 1..n |-> [st \in V |-> Filled(st, seq[k], planes)]]
<1>0. n \in Nat /\ DOMAIN seq = 1..n /\ seq \in [1..n -> ships]
  BY AscendingEach
<1>1. AllFilled(ships, planes) = G[DOMAIN seq]
  BY Zenon DEF AllFilled, FoldLeft, MapThenFoldSet
<1>2. \A k \in 1..n : \A st \in V : Filled(st, seq[k], planes) \in V
  <2> HIDE DEF seq, n
  <2> QED
    BY <1>0
<1>3. f \in [1..n -> [V -> V]]
  <2> HIDE DEF seq, n
  <2> QED
    BY <1>2
<1>4. \A k \in 1..n : \A st \in V : f[k][st] = Filled(st, seq[k], planes)
  <2> HIDE DEF seq, n
  <2> QED
    OBVIOUS
<1>5. base \in V
  OBVIOUS
<1> HIDE DEF seq, base, f, It, G, n
<1>6. PICK r : IsRecursion(r, V, base, f, n)
  BY <1>0, <1>3, <1>5, RecursionExists
<1>7. \A T \in SUBSET (1..n) : T # {} => Max(T) \in 1..n
  BY <1>0, MaxOfRange
<1>8. It(r)
  <2>1. ASSUME NEW T \in SUBSET (1..n)
        PROVE  r[T] = IF T = {} THEN base ELSE Filled(r[T \ {Max(T)}], seq[Max(T)], planes)
    BY <1>4, <1>6, <1>7, <2>1 DEF IsRecursion
  <2> QED
    BY <1>0, <1>6, <2>1 DEF It, IsRecursion
<1>9. It(G)
  BY Zenon, <1>8 DEF G
<1>10. \A T \in SUBSET (1..n) : G[T] = IF T = {} THEN base ELSE Filled(G[T \ {Max(T)}], seq[Max(T)], planes)
  BY <1>0, <1>9 DEF It
<1>11. Recurs(G, V, base, f, n)
  <2>1. ASSUME NEW T \in SUBSET (1..n), T # {} => G[T \ {Max(T)}] \in V
        PROVE  G[T] = IF T = {} THEN base ELSE f[Max(T)][G[T \ {Max(T)}]]
    <3>1. CASE T = {}
      BY <1>10, <3>1
    <3>2. CASE T # {}
      <4>1. Max(T) \in 1..n /\ G[T \ {Max(T)}] \in V
        BY <1>7, <2>1, <3>2
      <4>2. f[Max(T)][G[T \ {Max(T)}]] = Filled(G[T \ {Max(T)}], seq[Max(T)], planes)
        BY <1>4, <4>1
      <4> QED
        BY <1>10, <3>2, <4>2
    <3> QED
      BY <3>1, <3>2
  <2> QED
    BY <2>1 DEF Recurs
<1>12. G[1..n] \in V
  BY <1>0, <1>3, <1>5, <1>11, WalkEnds
<1> QED
  BY <1>0, <1>1, <1>12

\* tend: from one tender.
LEMMA TendAllIn ==
    ASSUME NEW w, NEW me, NEW i, NEW amount, NEW tender, NEW targets, IsFiniteSet(targets), targets \subseteq Int, NEW V,
           w \in V,
           \A v \in V : \A t \in targets : Tended(v, me, i, amount, tender, t) \in V
    PROVE  TendAll(w, me, i, amount, tender, targets) \in V
<1> DEFINE n == Cardinality(targets)
           seq == Ascending(targets)
           base == w
           It(g) == g = [T \in SUBSET DOMAIN seq |->
                            IF T = {} THEN base ELSE Tended(g[T \ {Max(T)}], me, i, amount, tender, seq[Max(T)])]
           G == CHOOSE g : It(g)
           f == [k \in 1..n |-> [v \in V |-> Tended(v, me, i, amount, tender, seq[k])]]
<1>0. n \in Nat /\ DOMAIN seq = 1..n /\ seq \in [1..n -> targets]
  BY AscendingEach
<1>1. TendAll(w, me, i, amount, tender, targets) = G[DOMAIN seq]
  BY Zenon DEF TendAll, FoldLeft, MapThenFoldSet
<1>2. \A k \in 1..n : \A v \in V : Tended(v, me, i, amount, tender, seq[k]) \in V
  <2> HIDE DEF seq, n
  <2> QED
    BY <1>0
<1>3. f \in [1..n -> [V -> V]]
  <2> HIDE DEF seq, n
  <2> QED
    BY <1>2
<1>4. \A k \in 1..n : \A v \in V : f[k][v] = Tended(v, me, i, amount, tender, seq[k])
  <2> HIDE DEF seq, n
  <2> QED
    OBVIOUS
<1>5. base \in V
  OBVIOUS
<1> HIDE DEF seq, base, f, It, G, n
<1>6. PICK r : IsRecursion(r, V, base, f, n)
  BY <1>0, <1>3, <1>5, RecursionExists
<1>7. \A T \in SUBSET (1..n) : T # {} => Max(T) \in 1..n
  BY <1>0, MaxOfRange
<1>8. It(r)
  <2>1. ASSUME NEW T \in SUBSET (1..n)
        PROVE  r[T] = IF T = {} THEN base ELSE Tended(r[T \ {Max(T)}], me, i, amount, tender, seq[Max(T)])
    BY <1>4, <1>6, <1>7, <2>1 DEF IsRecursion
  <2> QED
    BY <1>0, <1>6, <2>1 DEF It, IsRecursion
<1>9. It(G)
  BY Zenon, <1>8 DEF G
<1>10. \A T \in SUBSET (1..n) : G[T] = IF T = {} THEN base ELSE Tended(G[T \ {Max(T)}], me, i, amount, tender, seq[Max(T)])
  BY <1>0, <1>9 DEF It
<1>11. Recurs(G, V, base, f, n)
  <2>1. ASSUME NEW T \in SUBSET (1..n), T # {} => G[T \ {Max(T)}] \in V
        PROVE  G[T] = IF T = {} THEN base ELSE f[Max(T)][G[T \ {Max(T)}]]
    <3>1. CASE T = {}
      BY <1>10, <3>1
    <3>2. CASE T # {}
      <4>1. Max(T) \in 1..n /\ G[T \ {Max(T)}] \in V
        BY <1>7, <2>1, <3>2
      <4>2. f[Max(T)][G[T \ {Max(T)}]] = Tended(G[T \ {Max(T)}], me, i, amount, tender, seq[Max(T)])
        BY <1>4, <4>1
      <4> QED
        BY <1>10, <3>2, <4>2
    <3> QED
      BY <3>1, <3>2
  <2> QED
    BY <2>1 DEF Recurs
<1>12. G[1..n] \in V
  BY <1>0, <1>3, <1>5, <1>11, WalkEnds
<1> QED
  BY <1>0, <1>1, <1>12

\* tend: tender by tender.
LEMMA AllTendIn ==
    ASSUME NEW me, NEW i, NEW tenders, NEW amount, NEW targets, IsFiniteSet(tenders), tenders \subseteq Int, NEW V,
           World \in V,
           \A w \in V : \A tender \in tenders : TendAll(w, me, i, amount, tender, targets) \in V
    PROVE  AllTend(me, i, tenders, amount, targets) \in V
<1> DEFINE n == Cardinality(tenders)
           seq == Ascending(tenders)
           base == World
           It(g) == g = [T \in SUBSET DOMAIN seq |->
                            IF T = {} THEN base ELSE TendAll(g[T \ {Max(T)}], me, i, amount, seq[Max(T)], targets)]
           G == CHOOSE g : It(g)
           f == [k \in 1..n |-> [w \in V |-> TendAll(w, me, i, amount, seq[k], targets)]]
<1>0. n \in Nat /\ DOMAIN seq = 1..n /\ seq \in [1..n -> tenders]
  BY AscendingEach
<1>1. AllTend(me, i, tenders, amount, targets) = G[DOMAIN seq]
  BY Zenon DEF AllTend, FoldLeft, MapThenFoldSet
<1>2. \A k \in 1..n : \A w \in V : TendAll(w, me, i, amount, seq[k], targets) \in V
  <2> HIDE DEF seq, n
  <2> QED
    BY <1>0
<1>3. f \in [1..n -> [V -> V]]
  <2> HIDE DEF seq, n
  <2> QED
    BY <1>2
<1>4. \A k \in 1..n : \A w \in V : f[k][w] = TendAll(w, me, i, amount, seq[k], targets)
  <2> HIDE DEF seq, n
  <2> QED
    OBVIOUS
<1>5. base \in V
  OBVIOUS
<1> HIDE DEF seq, base, f, It, G, n
<1>6. PICK r : IsRecursion(r, V, base, f, n)
  BY <1>0, <1>3, <1>5, RecursionExists
<1>7. \A T \in SUBSET (1..n) : T # {} => Max(T) \in 1..n
  BY <1>0, MaxOfRange
<1>8. It(r)
  <2>1. ASSUME NEW T \in SUBSET (1..n)
        PROVE  r[T] = IF T = {} THEN base ELSE TendAll(r[T \ {Max(T)}], me, i, amount, seq[Max(T)], targets)
    BY <1>4, <1>6, <1>7, <2>1 DEF IsRecursion
  <2> QED
    BY <1>0, <1>6, <2>1 DEF It, IsRecursion
<1>9. It(G)
  BY Zenon, <1>8 DEF G
<1>10. \A T \in SUBSET (1..n) : G[T] = IF T = {} THEN base ELSE TendAll(G[T \ {Max(T)}], me, i, amount, seq[Max(T)], targets)
  BY <1>0, <1>9 DEF It
<1>11. Recurs(G, V, base, f, n)
  <2>1. ASSUME NEW T \in SUBSET (1..n), T # {} => G[T \ {Max(T)}] \in V
        PROVE  G[T] = IF T = {} THEN base ELSE f[Max(T)][G[T \ {Max(T)}]]
    <3>1. CASE T = {}
      BY <1>10, <3>1
    <3>2. CASE T # {}
      <4>1. Max(T) \in 1..n /\ G[T \ {Max(T)}] \in V
        BY <1>7, <2>1, <3>2
      <4>2. f[Max(T)][G[T \ {Max(T)}]] = TendAll(G[T \ {Max(T)}], me, i, amount, seq[Max(T)], targets)
        BY <1>4, <4>1
      <4> QED
        BY <1>10, <3>2, <4>2
    <3> QED
      BY <3>1, <3>2
  <2> QED
    BY <2>1 DEF Recurs
<1>12. G[1..n] \in V
  BY <1>0, <1>3, <1>5, <1>11, WalkEnds
<1> QED
  BY <1>0, <1>1, <1>12

\* scuttle: ship by ship.
LEMMA ShipsSunkIn ==
    ASSUME NEW ships, IsFiniteSet(ships), ships \subseteq Int, NEW V,
           World \in V,
           \A w \in V : \A s \in ships : PutShip(Spill(w, ship[s]), s, Wreck(ship[s])) \in V
    PROVE  ShipsSunk(ships) \in V
<1> DEFINE n == Cardinality(ships)
           seq == Ascending(ships)
           base == World
           It(g) == g = [T \in SUBSET DOMAIN seq |->
                            IF T = {} THEN base ELSE PutShip(Spill(g[T \ {Max(T)}], ship[seq[Max(T)]]), seq[Max(T)], Wreck(ship[seq[Max(T)]]))]
           G == CHOOSE g : It(g)
           f == [k \in 1..n |-> [w \in V |-> PutShip(Spill(w, ship[seq[k]]), seq[k], Wreck(ship[seq[k]]))]]
<1>0. n \in Nat /\ DOMAIN seq = 1..n /\ seq \in [1..n -> ships]
  BY AscendingEach
<1>1. ShipsSunk(ships) = G[DOMAIN seq]
  BY Zenon DEF ShipsSunk, FoldLeft, MapThenFoldSet
<1>2. \A k \in 1..n : \A w \in V : PutShip(Spill(w, ship[seq[k]]), seq[k], Wreck(ship[seq[k]])) \in V
  <2> HIDE DEF seq, n
  <2> QED
    BY <1>0
<1>3. f \in [1..n -> [V -> V]]
  <2> HIDE DEF seq, n
  <2> QED
    BY <1>2
<1>4. \A k \in 1..n : \A w \in V : f[k][w] = PutShip(Spill(w, ship[seq[k]]), seq[k], Wreck(ship[seq[k]]))
  <2> HIDE DEF seq, n
  <2> QED
    OBVIOUS
<1>5. base \in V
  OBVIOUS
<1> HIDE DEF seq, base, f, It, G, n
<1>6. PICK r : IsRecursion(r, V, base, f, n)
  BY <1>0, <1>3, <1>5, RecursionExists
<1>7. \A T \in SUBSET (1..n) : T # {} => Max(T) \in 1..n
  BY <1>0, MaxOfRange
<1>8. It(r)
  <2>1. ASSUME NEW T \in SUBSET (1..n)
        PROVE  r[T] = IF T = {} THEN base ELSE PutShip(Spill(r[T \ {Max(T)}], ship[seq[Max(T)]]), seq[Max(T)], Wreck(ship[seq[Max(T)]]))
    BY <1>4, <1>6, <1>7, <2>1 DEF IsRecursion
  <2> QED
    BY <1>0, <1>6, <2>1 DEF It, IsRecursion
<1>9. It(G)
  BY Zenon, <1>8 DEF G
<1>10. \A T \in SUBSET (1..n) : G[T] = IF T = {} THEN base ELSE PutShip(Spill(G[T \ {Max(T)}], ship[seq[Max(T)]]), seq[Max(T)], Wreck(ship[seq[Max(T)]]))
  BY <1>0, <1>9 DEF It
<1>11. Recurs(G, V, base, f, n)
  <2>1. ASSUME NEW T \in SUBSET (1..n), T # {} => G[T \ {Max(T)}] \in V
        PROVE  G[T] = IF T = {} THEN base ELSE f[Max(T)][G[T \ {Max(T)}]]
    <3>1. CASE T = {}
      BY <1>10, <3>1
    <3>2. CASE T # {}
      <4>1. Max(T) \in 1..n /\ G[T \ {Max(T)}] \in V
        BY <1>7, <2>1, <3>2
      <4>2. f[Max(T)][G[T \ {Max(T)}]] = PutShip(Spill(G[T \ {Max(T)}], ship[seq[Max(T)]]), seq[Max(T)], Wreck(ship[seq[Max(T)]]))
        BY <1>4, <4>1
      <4> QED
        BY <1>10, <3>2, <4>2
    <3> QED
      BY <3>1, <3>2
  <2> QED
    BY <2>1 DEF Recurs
<1>12. G[1..n] \in V
  BY <1>0, <1>3, <1>5, <1>11, WalkEnds
<1> QED
  BY <1>0, <1>1, <1>12

\* scuttle: unit by unit.
LEMMA LandSunkIn ==
    ASSUME NEW units, IsFiniteSet(units), units \subseteq Int, NEW V,
           World \in V,
           \A w \in V : \A u \in units : PutLand(Spill(w, land[u]), u, Wreck(land[u])) \in V
    PROVE  LandSunk(units) \in V
<1> DEFINE n == Cardinality(units)
           seq == Ascending(units)
           base == World
           It(g) == g = [T \in SUBSET DOMAIN seq |->
                            IF T = {} THEN base ELSE PutLand(Spill(g[T \ {Max(T)}], land[seq[Max(T)]]), seq[Max(T)], Wreck(land[seq[Max(T)]]))]
           G == CHOOSE g : It(g)
           f == [k \in 1..n |-> [w \in V |-> PutLand(Spill(w, land[seq[k]]), seq[k], Wreck(land[seq[k]]))]]
<1>0. n \in Nat /\ DOMAIN seq = 1..n /\ seq \in [1..n -> units]
  BY AscendingEach
<1>1. LandSunk(units) = G[DOMAIN seq]
  BY Zenon DEF LandSunk, FoldLeft, MapThenFoldSet
<1>2. \A k \in 1..n : \A w \in V : PutLand(Spill(w, land[seq[k]]), seq[k], Wreck(land[seq[k]])) \in V
  <2> HIDE DEF seq, n
  <2> QED
    BY <1>0
<1>3. f \in [1..n -> [V -> V]]
  <2> HIDE DEF seq, n
  <2> QED
    BY <1>2
<1>4. \A k \in 1..n : \A w \in V : f[k][w] = PutLand(Spill(w, land[seq[k]]), seq[k], Wreck(land[seq[k]]))
  <2> HIDE DEF seq, n
  <2> QED
    OBVIOUS
<1>5. base \in V
  OBVIOUS
<1> HIDE DEF seq, base, f, It, G, n
<1>6. PICK r : IsRecursion(r, V, base, f, n)
  BY <1>0, <1>3, <1>5, RecursionExists
<1>7. \A T \in SUBSET (1..n) : T # {} => Max(T) \in 1..n
  BY <1>0, MaxOfRange
<1>8. It(r)
  <2>1. ASSUME NEW T \in SUBSET (1..n)
        PROVE  r[T] = IF T = {} THEN base ELSE PutLand(Spill(r[T \ {Max(T)}], land[seq[Max(T)]]), seq[Max(T)], Wreck(land[seq[Max(T)]]))
    BY <1>4, <1>6, <1>7, <2>1 DEF IsRecursion
  <2> QED
    BY <1>0, <1>6, <2>1 DEF It, IsRecursion
<1>9. It(G)
  BY Zenon, <1>8 DEF G
<1>10. \A T \in SUBSET (1..n) : G[T] = IF T = {} THEN base ELSE PutLand(Spill(G[T \ {Max(T)}], land[seq[Max(T)]]), seq[Max(T)], Wreck(land[seq[Max(T)]]))
  BY <1>0, <1>9 DEF It
<1>11. Recurs(G, V, base, f, n)
  <2>1. ASSUME NEW T \in SUBSET (1..n), T # {} => G[T \ {Max(T)}] \in V
        PROVE  G[T] = IF T = {} THEN base ELSE f[Max(T)][G[T \ {Max(T)}]]
    <3>1. CASE T = {}
      BY <1>10, <3>1
    <3>2. CASE T # {}
      <4>1. Max(T) \in 1..n /\ G[T \ {Max(T)}] \in V
        BY <1>7, <2>1, <3>2
      <4>2. f[Max(T)][G[T \ {Max(T)}]] = PutLand(Spill(G[T \ {Max(T)}], land[seq[Max(T)]]), seq[Max(T)], Wreck(land[seq[Max(T)]]))
        BY <1>4, <4>1
      <4> QED
        BY <1>10, <3>2, <4>2
    <3> QED
      BY <3>1, <3>2
  <2> QED
    BY <2>1 DEF Recurs
<1>12. G[1..n] \in V
  BY <1>0, <1>3, <1>5, <1>11, WalkEnds
<1> QED
  BY <1>0, <1>1, <1>12

\* scrap: ship by ship.
LEMMA ShipsScrappedIn ==
    ASSUME NEW ships, IsFiniteSet(ships), ships \subseteq Int, NEW V,
           World \in V,
           \A w \in V : \A s \in ships : PutShip(Salvaged(Spilled(w, ship[s]), ship[s], ShipChr[ship[s].type]),
                s, Wreck(ship[s])) \in V
    PROVE  ShipsScrapped(ships) \in V
<1> DEFINE n == Cardinality(ships)
           seq == Ascending(ships)
           base == World
           It(g) == g = [T \in SUBSET DOMAIN seq |->
                            IF T = {} THEN base ELSE PutShip(Salvaged(Spilled(g[T \ {Max(T)}], ship[seq[Max(T)]]), ship[seq[Max(T)]], ShipChr[ship[seq[Max(T)]].type]),
                seq[Max(T)], Wreck(ship[seq[Max(T)]]))]
           G == CHOOSE g : It(g)
           f == [k \in 1..n |-> [w \in V |-> PutShip(Salvaged(Spilled(w, ship[seq[k]]), ship[seq[k]], ShipChr[ship[seq[k]].type]),
                seq[k], Wreck(ship[seq[k]]))]]
<1>0. n \in Nat /\ DOMAIN seq = 1..n /\ seq \in [1..n -> ships]
  BY AscendingEach
<1>1. ShipsScrapped(ships) = G[DOMAIN seq]
  BY Zenon DEF ShipsScrapped, FoldLeft, MapThenFoldSet
<1>2. \A k \in 1..n : \A w \in V : PutShip(Salvaged(Spilled(w, ship[seq[k]]), ship[seq[k]], ShipChr[ship[seq[k]].type]),
                seq[k], Wreck(ship[seq[k]])) \in V
  <2> HIDE DEF seq, n
  <2> QED
    BY <1>0
<1>3. f \in [1..n -> [V -> V]]
  <2> HIDE DEF seq, n
  <2> QED
    BY <1>2
<1>4. \A k \in 1..n : \A w \in V : f[k][w] = PutShip(Salvaged(Spilled(w, ship[seq[k]]), ship[seq[k]], ShipChr[ship[seq[k]].type]),
                seq[k], Wreck(ship[seq[k]]))
  <2> HIDE DEF seq, n
  <2> QED
    OBVIOUS
<1>5. base \in V
  OBVIOUS
<1> HIDE DEF seq, base, f, It, G, n
<1>6. PICK r : IsRecursion(r, V, base, f, n)
  BY <1>0, <1>3, <1>5, RecursionExists
<1>7. \A T \in SUBSET (1..n) : T # {} => Max(T) \in 1..n
  BY <1>0, MaxOfRange
<1>8. It(r)
  <2>1. ASSUME NEW T \in SUBSET (1..n)
        PROVE  r[T] = IF T = {} THEN base ELSE PutShip(Salvaged(Spilled(r[T \ {Max(T)}], ship[seq[Max(T)]]), ship[seq[Max(T)]], ShipChr[ship[seq[Max(T)]].type]),
                seq[Max(T)], Wreck(ship[seq[Max(T)]]))
    BY <1>4, <1>6, <1>7, <2>1 DEF IsRecursion
  <2> QED
    BY <1>0, <1>6, <2>1 DEF It, IsRecursion
<1>9. It(G)
  BY Zenon, <1>8 DEF G
<1>10. \A T \in SUBSET (1..n) : G[T] = IF T = {} THEN base ELSE PutShip(Salvaged(Spilled(G[T \ {Max(T)}], ship[seq[Max(T)]]), ship[seq[Max(T)]], ShipChr[ship[seq[Max(T)]].type]),
                seq[Max(T)], Wreck(ship[seq[Max(T)]]))
  BY <1>0, <1>9 DEF It
<1>11. Recurs(G, V, base, f, n)
  <2>1. ASSUME NEW T \in SUBSET (1..n), T # {} => G[T \ {Max(T)}] \in V
        PROVE  G[T] = IF T = {} THEN base ELSE f[Max(T)][G[T \ {Max(T)}]]
    <3>1. CASE T = {}
      BY <1>10, <3>1
    <3>2. CASE T # {}
      <4>1. Max(T) \in 1..n /\ G[T \ {Max(T)}] \in V
        BY <1>7, <2>1, <3>2
      <4>2. f[Max(T)][G[T \ {Max(T)}]] = PutShip(Salvaged(Spilled(G[T \ {Max(T)}], ship[seq[Max(T)]]), ship[seq[Max(T)]], ShipChr[ship[seq[Max(T)]].type]),
                seq[Max(T)], Wreck(ship[seq[Max(T)]]))
        BY <1>4, <4>1
      <4> QED
        BY <1>10, <3>2, <4>2
    <3> QED
      BY <3>1, <3>2
  <2> QED
    BY <2>1 DEF Recurs
<1>12. G[1..n] \in V
  BY <1>0, <1>3, <1>5, <1>11, WalkEnds
<1> QED
  BY <1>0, <1>1, <1>12

\* scrap: plane by plane.
LEMMA PlanesScrappedIn ==
    ASSUME NEW planes, IsFiniteSet(planes), planes \subseteq Int, NEW V,
           World \in V,
           \A w \in V : \A p \in planes : PutPlane(Salvaged(w, plane[p], PlaneChr[plane[p].type]), p, Wreck(plane[p])) \in V
    PROVE  PlanesScrapped(planes) \in V
<1> DEFINE n == Cardinality(planes)
           seq == Ascending(planes)
           base == World
           It(g) == g = [T \in SUBSET DOMAIN seq |->
                            IF T = {} THEN base ELSE PutPlane(Salvaged(g[T \ {Max(T)}], plane[seq[Max(T)]], PlaneChr[plane[seq[Max(T)]].type]), seq[Max(T)], Wreck(plane[seq[Max(T)]]))]
           G == CHOOSE g : It(g)
           f == [k \in 1..n |-> [w \in V |-> PutPlane(Salvaged(w, plane[seq[k]], PlaneChr[plane[seq[k]].type]), seq[k], Wreck(plane[seq[k]]))]]
<1>0. n \in Nat /\ DOMAIN seq = 1..n /\ seq \in [1..n -> planes]
  BY AscendingEach
<1>1. PlanesScrapped(planes) = G[DOMAIN seq]
  BY Zenon DEF PlanesScrapped, FoldLeft, MapThenFoldSet
<1>2. \A k \in 1..n : \A w \in V : PutPlane(Salvaged(w, plane[seq[k]], PlaneChr[plane[seq[k]].type]), seq[k], Wreck(plane[seq[k]])) \in V
  <2> HIDE DEF seq, n
  <2> QED
    BY <1>0
<1>3. f \in [1..n -> [V -> V]]
  <2> HIDE DEF seq, n
  <2> QED
    BY <1>2
<1>4. \A k \in 1..n : \A w \in V : f[k][w] = PutPlane(Salvaged(w, plane[seq[k]], PlaneChr[plane[seq[k]].type]), seq[k], Wreck(plane[seq[k]]))
  <2> HIDE DEF seq, n
  <2> QED
    OBVIOUS
<1>5. base \in V
  OBVIOUS
<1> HIDE DEF seq, base, f, It, G, n
<1>6. PICK r : IsRecursion(r, V, base, f, n)
  BY <1>0, <1>3, <1>5, RecursionExists
<1>7. \A T \in SUBSET (1..n) : T # {} => Max(T) \in 1..n
  BY <1>0, MaxOfRange
<1>8. It(r)
  <2>1. ASSUME NEW T \in SUBSET (1..n)
        PROVE  r[T] = IF T = {} THEN base ELSE PutPlane(Salvaged(r[T \ {Max(T)}], plane[seq[Max(T)]], PlaneChr[plane[seq[Max(T)]].type]), seq[Max(T)], Wreck(plane[seq[Max(T)]]))
    BY <1>4, <1>6, <1>7, <2>1 DEF IsRecursion
  <2> QED
    BY <1>0, <1>6, <2>1 DEF It, IsRecursion
<1>9. It(G)
  BY Zenon, <1>8 DEF G
<1>10. \A T \in SUBSET (1..n) : G[T] = IF T = {} THEN base ELSE PutPlane(Salvaged(G[T \ {Max(T)}], plane[seq[Max(T)]], PlaneChr[plane[seq[Max(T)]].type]), seq[Max(T)], Wreck(plane[seq[Max(T)]]))
  BY <1>0, <1>9 DEF It
<1>11. Recurs(G, V, base, f, n)
  <2>1. ASSUME NEW T \in SUBSET (1..n), T # {} => G[T \ {Max(T)}] \in V
        PROVE  G[T] = IF T = {} THEN base ELSE f[Max(T)][G[T \ {Max(T)}]]
    <3>1. CASE T = {}
      BY <1>10, <3>1
    <3>2. CASE T # {}
      <4>1. Max(T) \in 1..n /\ G[T \ {Max(T)}] \in V
        BY <1>7, <2>1, <3>2
      <4>2. f[Max(T)][G[T \ {Max(T)}]] = PutPlane(Salvaged(G[T \ {Max(T)}], plane[seq[Max(T)]], PlaneChr[plane[seq[Max(T)]].type]), seq[Max(T)], Wreck(plane[seq[Max(T)]]))
        BY <1>4, <4>1
      <4> QED
        BY <1>10, <3>2, <4>2
    <3> QED
      BY <3>1, <3>2
  <2> QED
    BY <2>1 DEF Recurs
<1>12. G[1..n] \in V
  BY <1>0, <1>3, <1>5, <1>11, WalkEnds
<1> QED
  BY <1>0, <1>1, <1>12

\* scrap: unit by unit.
LEMMA LandScrappedIn ==
    ASSUME NEW units, IsFiniteSet(units), units \subseteq Int, NEW V,
           World \in V,
           \A w \in V : \A u \in units : PutLand(Salvaged(Spilled(w, land[u]), land[u], LandChr[land[u].type]),
                u, Wreck(land[u])) \in V
    PROVE  LandScrapped(units) \in V
<1> DEFINE n == Cardinality(units)
           seq == Ascending(units)
           base == World
           It(g) == g = [T \in SUBSET DOMAIN seq |->
                            IF T = {} THEN base ELSE PutLand(Salvaged(Spilled(g[T \ {Max(T)}], land[seq[Max(T)]]), land[seq[Max(T)]], LandChr[land[seq[Max(T)]].type]),
                seq[Max(T)], Wreck(land[seq[Max(T)]]))]
           G == CHOOSE g : It(g)
           f == [k \in 1..n |-> [w \in V |-> PutLand(Salvaged(Spilled(w, land[seq[k]]), land[seq[k]], LandChr[land[seq[k]].type]),
                seq[k], Wreck(land[seq[k]]))]]
<1>0. n \in Nat /\ DOMAIN seq = 1..n /\ seq \in [1..n -> units]
  BY AscendingEach
<1>1. LandScrapped(units) = G[DOMAIN seq]
  BY Zenon DEF LandScrapped, FoldLeft, MapThenFoldSet
<1>2. \A k \in 1..n : \A w \in V : PutLand(Salvaged(Spilled(w, land[seq[k]]), land[seq[k]], LandChr[land[seq[k]].type]),
                seq[k], Wreck(land[seq[k]])) \in V
  <2> HIDE DEF seq, n
  <2> QED
    BY <1>0
<1>3. f \in [1..n -> [V -> V]]
  <2> HIDE DEF seq, n
  <2> QED
    BY <1>2
<1>4. \A k \in 1..n : \A w \in V : f[k][w] = PutLand(Salvaged(Spilled(w, land[seq[k]]), land[seq[k]], LandChr[land[seq[k]].type]),
                seq[k], Wreck(land[seq[k]]))
  <2> HIDE DEF seq, n
  <2> QED
    OBVIOUS
<1>5. base \in V
  OBVIOUS
<1> HIDE DEF seq, base, f, It, G, n
<1>6. PICK r : IsRecursion(r, V, base, f, n)
  BY <1>0, <1>3, <1>5, RecursionExists
<1>7. \A T \in SUBSET (1..n) : T # {} => Max(T) \in 1..n
  BY <1>0, MaxOfRange
<1>8. It(r)
  <2>1. ASSUME NEW T \in SUBSET (1..n)
        PROVE  r[T] = IF T = {} THEN base ELSE PutLand(Salvaged(Spilled(r[T \ {Max(T)}], land[seq[Max(T)]]), land[seq[Max(T)]], LandChr[land[seq[Max(T)]].type]),
                seq[Max(T)], Wreck(land[seq[Max(T)]]))
    BY <1>4, <1>6, <1>7, <2>1 DEF IsRecursion
  <2> QED
    BY <1>0, <1>6, <2>1 DEF It, IsRecursion
<1>9. It(G)
  BY Zenon, <1>8 DEF G
<1>10. \A T \in SUBSET (1..n) : G[T] = IF T = {} THEN base ELSE PutLand(Salvaged(Spilled(G[T \ {Max(T)}], land[seq[Max(T)]]), land[seq[Max(T)]], LandChr[land[seq[Max(T)]].type]),
                seq[Max(T)], Wreck(land[seq[Max(T)]]))
  BY <1>0, <1>9 DEF It
<1>11. Recurs(G, V, base, f, n)
  <2>1. ASSUME NEW T \in SUBSET (1..n), T # {} => G[T \ {Max(T)}] \in V
        PROVE  G[T] = IF T = {} THEN base ELSE f[Max(T)][G[T \ {Max(T)}]]
    <3>1. CASE T = {}
      BY <1>10, <3>1
    <3>2. CASE T # {}
      <4>1. Max(T) \in 1..n /\ G[T \ {Max(T)}] \in V
        BY <1>7, <2>1, <3>2
      <4>2. f[Max(T)][G[T \ {Max(T)}]] = PutLand(Salvaged(Spilled(G[T \ {Max(T)}], land[seq[Max(T)]]), land[seq[Max(T)]], LandChr[land[seq[Max(T)]].type]),
                seq[Max(T)], Wreck(land[seq[Max(T)]]))
        BY <1>4, <4>1
      <4> QED
        BY <1>10, <3>2, <4>2
    <3> QED
      BY <3>1, <3>2
  <2> QED
    BY <2>1 DEF Recurs
<1>12. G[1..n] \in V
  BY <1>0, <1>3, <1>5, <1>11, WalkEnds
<1> QED
  BY <1>0, <1>1, <1>12

\* navigate: along the route.
LEMMA SailedIn ==
    ASSUME NEW w, NEW s, NEW route, NEW luck, NEW n \in Nat, route \in [1..n -> Directions], NEW V,
           [w |-> w, row |-> ship[s], halt |-> FALSE, moved |-> FALSE] \in V,
           \A st \in V : \A d \in Directions : Sail(st, d, luck) \in V
    PROVE  Sailed(w, s, route, luck) \in V
<1> DEFINE seq == route
           base == [w |-> w, row |-> ship[s], halt |-> FALSE, moved |-> FALSE]
           It(g) == g = [T \in SUBSET DOMAIN seq |->
                            IF T = {} THEN base ELSE Sail(g[T \ {Max(T)}], seq[Max(T)], luck)]
           G == CHOOSE g : It(g)
           f == [k \in 1..n |-> [st \in V |-> Sail(st, seq[k], luck)]]
<1>0. n \in Nat /\ DOMAIN seq = 1..n /\ seq \in [1..n -> Directions]
  OBVIOUS
<1>1. Sailed(w, s, route, luck) = G[DOMAIN seq]
  BY Zenon DEF Sailed, FoldLeft, MapThenFoldSet
<1>2. \A k \in 1..n : \A st \in V : Sail(st, seq[k], luck) \in V
  <2> HIDE DEF seq
  <2> QED
    BY <1>0
<1>3. f \in [1..n -> [V -> V]]
  <2> HIDE DEF seq
  <2> QED
    BY <1>2
<1>4. \A k \in 1..n : \A st \in V : f[k][st] = Sail(st, seq[k], luck)
  <2> HIDE DEF seq
  <2> QED
    OBVIOUS
<1>5. base \in V
  OBVIOUS
<1> HIDE DEF seq, base, f, It, G
<1>6. PICK r : IsRecursion(r, V, base, f, n)
  BY <1>0, <1>3, <1>5, RecursionExists
<1>7. \A T \in SUBSET (1..n) : T # {} => Max(T) \in 1..n
  BY <1>0, MaxOfRange
<1>8. It(r)
  <2>1. ASSUME NEW T \in SUBSET (1..n)
        PROVE  r[T] = IF T = {} THEN base ELSE Sail(r[T \ {Max(T)}], seq[Max(T)], luck)
    BY <1>4, <1>6, <1>7, <2>1 DEF IsRecursion
  <2> QED
    BY <1>0, <1>6, <2>1 DEF It, IsRecursion
<1>9. It(G)
  BY Zenon, <1>8 DEF G
<1>10. \A T \in SUBSET (1..n) : G[T] = IF T = {} THEN base ELSE Sail(G[T \ {Max(T)}], seq[Max(T)], luck)
  BY <1>0, <1>9 DEF It
<1>11. Recurs(G, V, base, f, n)
  <2>1. ASSUME NEW T \in SUBSET (1..n), T # {} => G[T \ {Max(T)}] \in V
        PROVE  G[T] = IF T = {} THEN base ELSE f[Max(T)][G[T \ {Max(T)}]]
    <3>1. CASE T = {}
      BY <1>10, <3>1
    <3>2. CASE T # {}
      <4>1. Max(T) \in 1..n /\ G[T \ {Max(T)}] \in V
        BY <1>7, <2>1, <3>2
      <4>2. f[Max(T)][G[T \ {Max(T)}]] = Sail(G[T \ {Max(T)}], seq[Max(T)], luck)
        BY <1>4, <4>1
      <4> QED
        BY <1>10, <3>2, <4>2
    <3> QED
      BY <3>1, <3>2
  <2> QED
    BY <2>1 DEF Recurs
<1>12. G[1..n] \in V
  BY <1>0, <1>3, <1>5, <1>11, WalkEnds
<1> QED
  BY <1>0, <1>1, <1>12

\* navigate: ship by ship.
LEMMA VoyagesIn ==
    ASSUME NEW ships, NEW route, NEW luck, IsFiniteSet(ships), ships \subseteq Int, NEW V,
           World \in V,
           \A w \in V : \A s \in ships : Voyage(w, s, route, luck) \in V
    PROVE  Voyages(ships, route, luck) \in V
<1> DEFINE n == Cardinality(ships)
           seq == Ascending(ships)
           base == World
           It(g) == g = [T \in SUBSET DOMAIN seq |->
                            IF T = {} THEN base ELSE Voyage(g[T \ {Max(T)}], seq[Max(T)], route, luck)]
           G == CHOOSE g : It(g)
           f == [k \in 1..n |-> [w \in V |-> Voyage(w, seq[k], route, luck)]]
<1>0. n \in Nat /\ DOMAIN seq = 1..n /\ seq \in [1..n -> ships]
  BY AscendingEach
<1>1. Voyages(ships, route, luck) = G[DOMAIN seq]
  BY Zenon DEF Voyages, FoldLeft, MapThenFoldSet
<1>2. \A k \in 1..n : \A w \in V : Voyage(w, seq[k], route, luck) \in V
  <2> HIDE DEF seq, n
  <2> QED
    BY <1>0
<1>3. f \in [1..n -> [V -> V]]
  <2> HIDE DEF seq, n
  <2> QED
    BY <1>2
<1>4. \A k \in 1..n : \A w \in V : f[k][w] = Voyage(w, seq[k], route, luck)
  <2> HIDE DEF seq, n
  <2> QED
    OBVIOUS
<1>5. base \in V
  OBVIOUS
<1> HIDE DEF seq, base, f, It, G, n
<1>6. PICK r : IsRecursion(r, V, base, f, n)
  BY <1>0, <1>3, <1>5, RecursionExists
<1>7. \A T \in SUBSET (1..n) : T # {} => Max(T) \in 1..n
  BY <1>0, MaxOfRange
<1>8. It(r)
  <2>1. ASSUME NEW T \in SUBSET (1..n)
        PROVE  r[T] = IF T = {} THEN base ELSE Voyage(r[T \ {Max(T)}], seq[Max(T)], route, luck)
    BY <1>4, <1>6, <1>7, <2>1 DEF IsRecursion
  <2> QED
    BY <1>0, <1>6, <2>1 DEF It, IsRecursion
<1>9. It(G)
  BY Zenon, <1>8 DEF G
<1>10. \A T \in SUBSET (1..n) : G[T] = IF T = {} THEN base ELSE Voyage(G[T \ {Max(T)}], seq[Max(T)], route, luck)
  BY <1>0, <1>9 DEF It
<1>11. Recurs(G, V, base, f, n)
  <2>1. ASSUME NEW T \in SUBSET (1..n), T # {} => G[T \ {Max(T)}] \in V
        PROVE  G[T] = IF T = {} THEN base ELSE f[Max(T)][G[T \ {Max(T)}]]
    <3>1. CASE T = {}
      BY <1>10, <3>1
    <3>2. CASE T # {}
      <4>1. Max(T) \in 1..n /\ G[T \ {Max(T)}] \in V
        BY <1>7, <2>1, <3>2
      <4>2. f[Max(T)][G[T \ {Max(T)}]] = Voyage(G[T \ {Max(T)}], seq[Max(T)], route, luck)
        BY <1>4, <4>1
      <4> QED
        BY <1>10, <3>2, <4>2
    <3> QED
      BY <3>1, <3>2
  <2> QED
    BY <2>1 DEF Recurs
<1>12. G[1..n] \in V
  BY <1>0, <1>3, <1>5, <1>11, WalkEnds
<1> QED
  BY <1>0, <1>1, <1>12

\* fire: ship by ship, at a ship.
LEMMA AllFireAtShipIn ==
    ASSUME NEW firers, NEW t, NEW luck, NEW back, IsFiniteSet(firers), firers \subseteq Int, NEW V,
           [w |-> World, target |-> ship[t]] \in V,
           \A st \in V : \A s \in firers : FireAtShip(st, s, luck, back) \in V
    PROVE  AllFireAtShip(firers, t, luck, back) \in V
<1> DEFINE n == Cardinality(firers)
           seq == Ascending(firers)
           base == [w |-> World, target |-> ship[t]]
           It(g) == g = [T \in SUBSET DOMAIN seq |->
                            IF T = {} THEN base ELSE FireAtShip(g[T \ {Max(T)}], seq[Max(T)], luck, back)]
           G == CHOOSE g : It(g)
           f == [k \in 1..n |-> [st \in V |-> FireAtShip(st, seq[k], luck, back)]]
<1>0. n \in Nat /\ DOMAIN seq = 1..n /\ seq \in [1..n -> firers]
  BY AscendingEach
<1>1. AllFireAtShip(firers, t, luck, back) = G[DOMAIN seq]
  BY Zenon DEF AllFireAtShip, FoldLeft, MapThenFoldSet
<1>2. \A k \in 1..n : \A st \in V : FireAtShip(st, seq[k], luck, back) \in V
  <2> HIDE DEF seq, n
  <2> QED
    BY <1>0
<1>3. f \in [1..n -> [V -> V]]
  <2> HIDE DEF seq, n
  <2> QED
    BY <1>2
<1>4. \A k \in 1..n : \A st \in V : f[k][st] = FireAtShip(st, seq[k], luck, back)
  <2> HIDE DEF seq, n
  <2> QED
    OBVIOUS
<1>5. base \in V
  OBVIOUS
<1> HIDE DEF seq, base, f, It, G, n
<1>6. PICK r : IsRecursion(r, V, base, f, n)
  BY <1>0, <1>3, <1>5, RecursionExists
<1>7. \A T \in SUBSET (1..n) : T # {} => Max(T) \in 1..n
  BY <1>0, MaxOfRange
<1>8. It(r)
  <2>1. ASSUME NEW T \in SUBSET (1..n)
        PROVE  r[T] = IF T = {} THEN base ELSE FireAtShip(r[T \ {Max(T)}], seq[Max(T)], luck, back)
    BY <1>4, <1>6, <1>7, <2>1 DEF IsRecursion
  <2> QED
    BY <1>0, <1>6, <2>1 DEF It, IsRecursion
<1>9. It(G)
  BY Zenon, <1>8 DEF G
<1>10. \A T \in SUBSET (1..n) : G[T] = IF T = {} THEN base ELSE FireAtShip(G[T \ {Max(T)}], seq[Max(T)], luck, back)
  BY <1>0, <1>9 DEF It
<1>11. Recurs(G, V, base, f, n)
  <2>1. ASSUME NEW T \in SUBSET (1..n), T # {} => G[T \ {Max(T)}] \in V
        PROVE  G[T] = IF T = {} THEN base ELSE f[Max(T)][G[T \ {Max(T)}]]
    <3>1. CASE T = {}
      BY <1>10, <3>1
    <3>2. CASE T # {}
      <4>1. Max(T) \in 1..n /\ G[T \ {Max(T)}] \in V
        BY <1>7, <2>1, <3>2
      <4>2. f[Max(T)][G[T \ {Max(T)}]] = FireAtShip(G[T \ {Max(T)}], seq[Max(T)], luck, back)
        BY <1>4, <4>1
      <4> QED
        BY <1>10, <3>2, <4>2
    <3> QED
      BY <3>1, <3>2
  <2> QED
    BY <2>1 DEF Recurs
<1>12. G[1..n] \in V
  BY <1>0, <1>3, <1>5, <1>11, WalkEnds
<1> QED
  BY <1>0, <1>1, <1>12

\* fire: ship by ship, at a sector.
LEMMA AllFireAtSectIn ==
    ASSUME NEW firers, NEW at, NEW luck, IsFiniteSet(firers), firers \subseteq Int, NEW V,
           [w |-> World, target |-> sect[at], at |-> at] \in V,
           \A st \in V : \A s \in firers : FireAtSect(st, s, luck) \in V
    PROVE  AllFireAtSect(firers, at, luck) \in V
<1> DEFINE n == Cardinality(firers)
           seq == Ascending(firers)
           base == [w |-> World, target |-> sect[at], at |-> at]
           It(g) == g = [T \in SUBSET DOMAIN seq |->
                            IF T = {} THEN base ELSE FireAtSect(g[T \ {Max(T)}], seq[Max(T)], luck)]
           G == CHOOSE g : It(g)
           f == [k \in 1..n |-> [st \in V |-> FireAtSect(st, seq[k], luck)]]
<1>0. n \in Nat /\ DOMAIN seq = 1..n /\ seq \in [1..n -> firers]
  BY AscendingEach
<1>1. AllFireAtSect(firers, at, luck) = G[DOMAIN seq]
  BY Zenon DEF AllFireAtSect, FoldLeft, MapThenFoldSet
<1>2. \A k \in 1..n : \A st \in V : FireAtSect(st, seq[k], luck) \in V
  <2> HIDE DEF seq, n
  <2> QED
    BY <1>0
<1>3. f \in [1..n -> [V -> V]]
  <2> HIDE DEF seq, n
  <2> QED
    BY <1>2
<1>4. \A k \in 1..n : \A st \in V : f[k][st] = FireAtSect(st, seq[k], luck)
  <2> HIDE DEF seq, n
  <2> QED
    OBVIOUS
<1>5. base \in V
  OBVIOUS
<1> HIDE DEF seq, base, f, It, G, n
<1>6. PICK r : IsRecursion(r, V, base, f, n)
  BY <1>0, <1>3, <1>5, RecursionExists
<1>7. \A T \in SUBSET (1..n) : T # {} => Max(T) \in 1..n
  BY <1>0, MaxOfRange
<1>8. It(r)
  <2>1. ASSUME NEW T \in SUBSET (1..n)
        PROVE  r[T] = IF T = {} THEN base ELSE FireAtSect(r[T \ {Max(T)}], seq[Max(T)], luck)
    BY <1>4, <1>6, <1>7, <2>1 DEF IsRecursion
  <2> QED
    BY <1>0, <1>6, <2>1 DEF It, IsRecursion
<1>9. It(G)
  BY Zenon, <1>8 DEF G
<1>10. \A T \in SUBSET (1..n) : G[T] = IF T = {} THEN base ELSE FireAtSect(G[T \ {Max(T)}], seq[Max(T)], luck)
  BY <1>0, <1>9 DEF It
<1>11. Recurs(G, V, base, f, n)
  <2>1. ASSUME NEW T \in SUBSET (1..n), T # {} => G[T \ {Max(T)}] \in V
        PROVE  G[T] = IF T = {} THEN base ELSE f[Max(T)][G[T \ {Max(T)}]]
    <3>1. CASE T = {}
      BY <1>10, <3>1
    <3>2. CASE T # {}
      <4>1. Max(T) \in 1..n /\ G[T \ {Max(T)}] \in V
        BY <1>7, <2>1, <3>2
      <4>2. f[Max(T)][G[T \ {Max(T)}]] = FireAtSect(G[T \ {Max(T)}], seq[Max(T)], luck)
        BY <1>4, <4>1
      <4> QED
        BY <1>10, <3>2, <4>2
    <3> QED
      BY <3>1, <3>2
  <2> QED
    BY <2>1 DEF Recurs
<1>12. G[1..n] \in V
  BY <1>0, <1>3, <1>5, <1>11, WalkEnds
<1> QED
  BY <1>0, <1>1, <1>12

\* fire: unit by unit, at a ship.
LEMMA ShipShelledIn ==
    ASSUME NEW t, NEW units, NEW luck, IsFiniteSet(units), units \subseteq Int, NEW V,
           ship[t] \in V,
           \A row \in V : \A u \in units : ShipHit(row, LandShot(land[u], luck)) \in V
    PROVE  ShipShelled(t, units, luck) \in V
<1> DEFINE n == Cardinality(units)
           seq == Ascending(units)
           base == ship[t]
           It(g) == g = [T \in SUBSET DOMAIN seq |->
                            IF T = {} THEN base ELSE ShipHit(g[T \ {Max(T)}], LandShot(land[seq[Max(T)]], luck))]
           G == CHOOSE g : It(g)
           f == [k \in 1..n |-> [row \in V |-> ShipHit(row, LandShot(land[seq[k]], luck))]]
<1>0. n \in Nat /\ DOMAIN seq = 1..n /\ seq \in [1..n -> units]
  BY AscendingEach
<1>1. ShipShelled(t, units, luck) = G[DOMAIN seq]
  BY Zenon DEF ShipShelled, FoldLeft, MapThenFoldSet
<1>2. \A k \in 1..n : \A row \in V : ShipHit(row, LandShot(land[seq[k]], luck)) \in V
  <2> HIDE DEF seq, n
  <2> QED
    BY <1>0
<1>3. f \in [1..n -> [V -> V]]
  <2> HIDE DEF seq, n
  <2> QED
    BY <1>2
<1>4. \A k \in 1..n : \A row \in V : f[k][row] = ShipHit(row, LandShot(land[seq[k]], luck))
  <2> HIDE DEF seq, n
  <2> QED
    OBVIOUS
<1>5. base \in V
  OBVIOUS
<1> HIDE DEF seq, base, f, It, G, n
<1>6. PICK r : IsRecursion(r, V, base, f, n)
  BY <1>0, <1>3, <1>5, RecursionExists
<1>7. \A T \in SUBSET (1..n) : T # {} => Max(T) \in 1..n
  BY <1>0, MaxOfRange
<1>8. It(r)
  <2>1. ASSUME NEW T \in SUBSET (1..n)
        PROVE  r[T] = IF T = {} THEN base ELSE ShipHit(r[T \ {Max(T)}], LandShot(land[seq[Max(T)]], luck))
    BY <1>4, <1>6, <1>7, <2>1 DEF IsRecursion
  <2> QED
    BY <1>0, <1>6, <2>1 DEF It, IsRecursion
<1>9. It(G)
  BY Zenon, <1>8 DEF G
<1>10. \A T \in SUBSET (1..n) : G[T] = IF T = {} THEN base ELSE ShipHit(G[T \ {Max(T)}], LandShot(land[seq[Max(T)]], luck))
  BY <1>0, <1>9 DEF It
<1>11. Recurs(G, V, base, f, n)
  <2>1. ASSUME NEW T \in SUBSET (1..n), T # {} => G[T \ {Max(T)}] \in V
        PROVE  G[T] = IF T = {} THEN base ELSE f[Max(T)][G[T \ {Max(T)}]]
    <3>1. CASE T = {}
      BY <1>10, <3>1
    <3>2. CASE T # {}
      <4>1. Max(T) \in 1..n /\ G[T \ {Max(T)}] \in V
        BY <1>7, <2>1, <3>2
      <4>2. f[Max(T)][G[T \ {Max(T)}]] = ShipHit(G[T \ {Max(T)}], LandShot(land[seq[Max(T)]], luck))
        BY <1>4, <4>1
      <4> QED
        BY <1>10, <3>2, <4>2
    <3> QED
      BY <3>1, <3>2
  <2> QED
    BY <2>1 DEF Recurs
<1>12. G[1..n] \in V
  BY <1>0, <1>3, <1>5, <1>11, WalkEnds
<1> QED
  BY <1>0, <1>1, <1>12

\* fire: unit by unit, at a sector.
LEMMA SectShelledIn ==
    ASSUME NEW at, NEW units, NEW luck, IsFiniteSet(units), units \subseteq Int, NEW V,
           sect[at] \in V,
           \A row \in V : \A u \in units : SectHit(row, LandShot(land[u], luck)) \in V
    PROVE  SectShelled(at, units, luck) \in V
<1> DEFINE n == Cardinality(units)
           seq == Ascending(units)
           base == sect[at]
           It(g) == g = [T \in SUBSET DOMAIN seq |->
                            IF T = {} THEN base ELSE SectHit(g[T \ {Max(T)}], LandShot(land[seq[Max(T)]], luck))]
           G == CHOOSE g : It(g)
           f == [k \in 1..n |-> [row \in V |-> SectHit(row, LandShot(land[seq[k]], luck))]]
<1>0. n \in Nat /\ DOMAIN seq = 1..n /\ seq \in [1..n -> units]
  BY AscendingEach
<1>1. SectShelled(at, units, luck) = G[DOMAIN seq]
  BY Zenon DEF SectShelled, FoldLeft, MapThenFoldSet
<1>2. \A k \in 1..n : \A row \in V : SectHit(row, LandShot(land[seq[k]], luck)) \in V
  <2> HIDE DEF seq, n
  <2> QED
    BY <1>0
<1>3. f \in [1..n -> [V -> V]]
  <2> HIDE DEF seq, n
  <2> QED
    BY <1>2
<1>4. \A k \in 1..n : \A row \in V : f[k][row] = SectHit(row, LandShot(land[seq[k]], luck))
  <2> HIDE DEF seq, n
  <2> QED
    OBVIOUS
<1>5. base \in V
  OBVIOUS
<1> HIDE DEF seq, base, f, It, G, n
<1>6. PICK r : IsRecursion(r, V, base, f, n)
  BY <1>0, <1>3, <1>5, RecursionExists
<1>7. \A T \in SUBSET (1..n) : T # {} => Max(T) \in 1..n
  BY <1>0, MaxOfRange
<1>8. It(r)
  <2>1. ASSUME NEW T \in SUBSET (1..n)
        PROVE  r[T] = IF T = {} THEN base ELSE SectHit(r[T \ {Max(T)}], LandShot(land[seq[Max(T)]], luck))
    BY <1>4, <1>6, <1>7, <2>1 DEF IsRecursion
  <2> QED
    BY <1>0, <1>6, <2>1 DEF It, IsRecursion
<1>9. It(G)
  BY Zenon, <1>8 DEF G
<1>10. \A T \in SUBSET (1..n) : G[T] = IF T = {} THEN base ELSE SectHit(G[T \ {Max(T)}], LandShot(land[seq[Max(T)]], luck))
  BY <1>0, <1>9 DEF It
<1>11. Recurs(G, V, base, f, n)
  <2>1. ASSUME NEW T \in SUBSET (1..n), T # {} => G[T \ {Max(T)}] \in V
        PROVE  G[T] = IF T = {} THEN base ELSE f[Max(T)][G[T \ {Max(T)}]]
    <3>1. CASE T = {}
      BY <1>10, <3>1
    <3>2. CASE T # {}
      <4>1. Max(T) \in 1..n /\ G[T \ {Max(T)}] \in V
        BY <1>7, <2>1, <3>2
      <4>2. f[Max(T)][G[T \ {Max(T)}]] = SectHit(G[T \ {Max(T)}], LandShot(land[seq[Max(T)]], luck))
        BY <1>4, <4>1
      <4> QED
        BY <1>10, <3>2, <4>2
    <3> QED
      BY <3>1, <3>2
  <2> QED
    BY <2>1 DEF Recurs
<1>12. G[1..n] \in V
  BY <1>0, <1>3, <1>5, <1>11, WalkEnds
<1> QED
  BY <1>0, <1>1, <1>12

\* torpedo: ship by ship.
LEMMA AllTorpIn ==
    ASSUME NEW firers, NEW t, NEW hits, NEW answered, NEW luck, IsFiniteSet(firers), firers \subseteq Int, NEW V,
           [w |-> World, target |-> ship[t]] \in V,
           \A st \in V : \A s \in firers : TorpAtShip(st, s, hits, answered, luck) \in V
    PROVE  AllTorp(firers, t, hits, answered, luck) \in V
<1> DEFINE n == Cardinality(firers)
           seq == Ascending(firers)
           base == [w |-> World, target |-> ship[t]]
           It(g) == g = [T \in SUBSET DOMAIN seq |->
                            IF T = {} THEN base ELSE TorpAtShip(g[T \ {Max(T)}], seq[Max(T)], hits, answered, luck)]
           G == CHOOSE g : It(g)
           f == [k \in 1..n |-> [st \in V |-> TorpAtShip(st, seq[k], hits, answered, luck)]]
<1>0. n \in Nat /\ DOMAIN seq = 1..n /\ seq \in [1..n -> firers]
  BY AscendingEach
<1>1. AllTorp(firers, t, hits, answered, luck) = G[DOMAIN seq]
  BY Zenon DEF AllTorp, FoldLeft, MapThenFoldSet
<1>2. \A k \in 1..n : \A st \in V : TorpAtShip(st, seq[k], hits, answered, luck) \in V
  <2> HIDE DEF seq, n
  <2> QED
    BY <1>0
<1>3. f \in [1..n -> [V -> V]]
  <2> HIDE DEF seq, n
  <2> QED
    BY <1>2
<1>4. \A k \in 1..n : \A st \in V : f[k][st] = TorpAtShip(st, seq[k], hits, answered, luck)
  <2> HIDE DEF seq, n
  <2> QED
    OBVIOUS
<1>5. base \in V
  OBVIOUS
<1> HIDE DEF seq, base, f, It, G, n
<1>6. PICK r : IsRecursion(r, V, base, f, n)
  BY <1>0, <1>3, <1>5, RecursionExists
<1>7. \A T \in SUBSET (1..n) : T # {} => Max(T) \in 1..n
  BY <1>0, MaxOfRange
<1>8. It(r)
  <2>1. ASSUME NEW T \in SUBSET (1..n)
        PROVE  r[T] = IF T = {} THEN base ELSE TorpAtShip(r[T \ {Max(T)}], seq[Max(T)], hits, answered, luck)
    BY <1>4, <1>6, <1>7, <2>1 DEF IsRecursion
  <2> QED
    BY <1>0, <1>6, <2>1 DEF It, IsRecursion
<1>9. It(G)
  BY Zenon, <1>8 DEF G
<1>10. \A T \in SUBSET (1..n) : G[T] = IF T = {} THEN base ELSE TorpAtShip(G[T \ {Max(T)}], seq[Max(T)], hits, answered, luck)
  BY <1>0, <1>9 DEF It
<1>11. Recurs(G, V, base, f, n)
  <2>1. ASSUME NEW T \in SUBSET (1..n), T # {} => G[T \ {Max(T)}] \in V
        PROVE  G[T] = IF T = {} THEN base ELSE f[Max(T)][G[T \ {Max(T)}]]
    <3>1. CASE T = {}
      BY <1>10, <3>1
    <3>2. CASE T # {}
      <4>1. Max(T) \in 1..n /\ G[T \ {Max(T)}] \in V
        BY <1>7, <2>1, <3>2
      <4>2. f[Max(T)][G[T \ {Max(T)}]] = TorpAtShip(G[T \ {Max(T)}], seq[Max(T)], hits, answered, luck)
        BY <1>4, <4>1
      <4> QED
        BY <1>10, <3>2, <4>2
    <3> QED
      BY <3>1, <3>2
  <2> QED
    BY <2>1 DEF Recurs
<1>12. G[1..n] \in V
  BY <1>0, <1>3, <1>5, <1>11, WalkEnds
<1> QED
  BY <1>0, <1>1, <1>12

\* launch: plane by plane.
LEMMA LaunchedIn ==
    ASSUME NEW candidates, NEW at, NEW orbit, IsFiniteSet(candidates), candidates \subseteq Int, NEW V,
           [w |-> World, target |-> sect[at], at |-> at, hit |-> FALSE] \in V,
           \A st \in V : \A p \in candidates : LaunchOne(st, p, orbit) \in V
    PROVE  Launched(candidates, at, orbit) \in V
<1> DEFINE n == Cardinality(candidates)
           seq == Ascending(candidates)
           base == [w |-> World, target |-> sect[at], at |-> at, hit |-> FALSE]
           It(g) == g = [T \in SUBSET DOMAIN seq |->
                            IF T = {} THEN base ELSE LaunchOne(g[T \ {Max(T)}], seq[Max(T)], orbit)]
           G == CHOOSE g : It(g)
           f == [k \in 1..n |-> [st \in V |-> LaunchOne(st, seq[k], orbit)]]
<1>0. n \in Nat /\ DOMAIN seq = 1..n /\ seq \in [1..n -> candidates]
  BY AscendingEach
<1>1. Launched(candidates, at, orbit) = G[DOMAIN seq]
  BY Zenon DEF Launched, FoldLeft, MapThenFoldSet
<1>2. \A k \in 1..n : \A st \in V : LaunchOne(st, seq[k], orbit) \in V
  <2> HIDE DEF seq, n
  <2> QED
    BY <1>0
<1>3. f \in [1..n -> [V -> V]]
  <2> HIDE DEF seq, n
  <2> QED
    BY <1>2
<1>4. \A k \in 1..n : \A st \in V : f[k][st] = LaunchOne(st, seq[k], orbit)
  <2> HIDE DEF seq, n
  <2> QED
    OBVIOUS
<1>5. base \in V
  OBVIOUS
<1> HIDE DEF seq, base, f, It, G, n
<1>6. PICK r : IsRecursion(r, V, base, f, n)
  BY <1>0, <1>3, <1>5, RecursionExists
<1>7. \A T \in SUBSET (1..n) : T # {} => Max(T) \in 1..n
  BY <1>0, MaxOfRange
<1>8. It(r)
  <2>1. ASSUME NEW T \in SUBSET (1..n)
        PROVE  r[T] = IF T = {} THEN base ELSE LaunchOne(r[T \ {Max(T)}], seq[Max(T)], orbit)
    BY <1>4, <1>6, <1>7, <2>1 DEF IsRecursion
  <2> QED
    BY <1>0, <1>6, <2>1 DEF It, IsRecursion
<1>9. It(G)
  BY Zenon, <1>8 DEF G
<1>10. \A T \in SUBSET (1..n) : G[T] = IF T = {} THEN base ELSE LaunchOne(G[T \ {Max(T)}], seq[Max(T)], orbit)
  BY <1>0, <1>9 DEF It
<1>11. Recurs(G, V, base, f, n)
  <2>1. ASSUME NEW T \in SUBSET (1..n), T # {} => G[T \ {Max(T)}] \in V
        PROVE  G[T] = IF T = {} THEN base ELSE f[Max(T)][G[T \ {Max(T)}]]
    <3>1. CASE T = {}
      BY <1>10, <3>1
    <3>2. CASE T # {}
      <4>1. Max(T) \in 1..n /\ G[T \ {Max(T)}] \in V
        BY <1>7, <2>1, <3>2
      <4>2. f[Max(T)][G[T \ {Max(T)}]] = LaunchOne(G[T \ {Max(T)}], seq[Max(T)], orbit)
        BY <1>4, <4>1
      <4> QED
        BY <1>10, <3>2, <4>2
    <3> QED
      BY <3>1, <3>2
  <2> QED
    BY <2>1 DEF Recurs
<1>12. G[1..n] \in V
  BY <1>0, <1>3, <1>5, <1>11, WalkEnds
<1> QED
  BY <1>0, <1>1, <1>12

\* sweep: along the flight.
LEMMA SweptAllIn ==
    ASSUME NEW w, NEW visited, NEW sweepers, NEW S, NEW n \in Nat, visited \in [1..n -> S], NEW V,
           w \in V,
           \A v \in V : \A s \in S : PutSect(v, s, Swept(v.sect[s], sweepers)) \in V
    PROVE  SweptAll(w, visited, sweepers) \in V
<1> DEFINE seq == visited
           base == w
           It(g) == g = [T \in SUBSET DOMAIN seq |->
                            IF T = {} THEN base ELSE PutSect(g[T \ {Max(T)}], seq[Max(T)], Swept(g[T \ {Max(T)}].sect[seq[Max(T)]], sweepers))]
           G == CHOOSE g : It(g)
           f == [k \in 1..n |-> [v \in V |-> PutSect(v, seq[k], Swept(v.sect[seq[k]], sweepers))]]
<1>0. n \in Nat /\ DOMAIN seq = 1..n /\ seq \in [1..n -> S]
  OBVIOUS
<1>1. SweptAll(w, visited, sweepers) = G[DOMAIN seq]
  BY Zenon DEF SweptAll, FoldLeft, MapThenFoldSet
<1>2. \A k \in 1..n : \A v \in V : PutSect(v, seq[k], Swept(v.sect[seq[k]], sweepers)) \in V
  <2> HIDE DEF seq
  <2> QED
    BY <1>0
<1>3. f \in [1..n -> [V -> V]]
  <2> HIDE DEF seq
  <2> QED
    BY <1>2
<1>4. \A k \in 1..n : \A v \in V : f[k][v] = PutSect(v, seq[k], Swept(v.sect[seq[k]], sweepers))
  <2> HIDE DEF seq
  <2> QED
    OBVIOUS
<1>5. base \in V
  OBVIOUS
<1> HIDE DEF seq, base, f, It, G
<1>6. PICK r : IsRecursion(r, V, base, f, n)
  BY <1>0, <1>3, <1>5, RecursionExists
<1>7. \A T \in SUBSET (1..n) : T # {} => Max(T) \in 1..n
  BY <1>0, MaxOfRange
<1>8. It(r)
  <2>1. ASSUME NEW T \in SUBSET (1..n)
        PROVE  r[T] = IF T = {} THEN base ELSE PutSect(r[T \ {Max(T)}], seq[Max(T)], Swept(r[T \ {Max(T)}].sect[seq[Max(T)]], sweepers))
    BY <1>4, <1>6, <1>7, <2>1 DEF IsRecursion
  <2> QED
    BY <1>0, <1>6, <2>1 DEF It, IsRecursion
<1>9. It(G)
  BY Zenon, <1>8 DEF G
<1>10. \A T \in SUBSET (1..n) : G[T] = IF T = {} THEN base ELSE PutSect(G[T \ {Max(T)}], seq[Max(T)], Swept(G[T \ {Max(T)}].sect[seq[Max(T)]], sweepers))
  BY <1>0, <1>9 DEF It
<1>11. Recurs(G, V, base, f, n)
  <2>1. ASSUME NEW T \in SUBSET (1..n), T # {} => G[T \ {Max(T)}] \in V
        PROVE  G[T] = IF T = {} THEN base ELSE f[Max(T)][G[T \ {Max(T)}]]
    <3>1. CASE T = {}
      BY <1>10, <3>1
    <3>2. CASE T # {}
      <4>1. Max(T) \in 1..n /\ G[T \ {Max(T)}] \in V
        BY <1>7, <2>1, <3>2
      <4>2. f[Max(T)][G[T \ {Max(T)}]] = PutSect(G[T \ {Max(T)}], seq[Max(T)], Swept(G[T \ {Max(T)}].sect[seq[Max(T)]], sweepers))
        BY <1>4, <4>1
      <4> QED
        BY <1>10, <3>2, <4>2
    <3> QED
      BY <3>1, <3>2
  <2> QED
    BY <2>1 DEF Recurs
<1>12. G[1..n] \in V
  BY <1>0, <1>3, <1>5, <1>11, WalkEnds
<1> QED
  BY <1>0, <1>1, <1>12

\* Landings, one by one.
LEMMA LandingsIn ==
    ASSUME NEW w, NEW flight, NEW rows_, NEW at, NEW me, NEW runway, NEW S, NEW n \in Nat, flight \in [1..n -> S], NEW V,
           [w |-> w, manifest |-> [s \in Carriers(me, at) |-> Ascending(PlanesOn(w, s))]] \in V,
           \A st \in V : \A i \in S : Land(st, Of(i), rows_[i], at, runway) \in V
    PROVE  Landings(w, flight, rows_, at, me, runway) \in V
<1> DEFINE seq == flight
           base == [w |-> w, manifest |-> [s \in Carriers(me, at) |-> Ascending(PlanesOn(w, s))]]
           It(g) == g = [T \in SUBSET DOMAIN seq |->
                            IF T = {} THEN base ELSE Land(g[T \ {Max(T)}], Of(seq[Max(T)]), rows_[seq[Max(T)]], at, runway)]
           G == CHOOSE g : It(g)
           f == [k \in 1..n |-> [st \in V |-> Land(st, Of(seq[k]), rows_[seq[k]], at, runway)]]
<1>0. n \in Nat /\ DOMAIN seq = 1..n /\ seq \in [1..n -> S]
  OBVIOUS
<1>1. Landings(w, flight, rows_, at, me, runway) = G[DOMAIN seq]
  BY Zenon DEF Landings, FoldLeft, MapThenFoldSet
<1>2. \A k \in 1..n : \A st \in V : Land(st, Of(seq[k]), rows_[seq[k]], at, runway) \in V
  <2> HIDE DEF seq
  <2> QED
    BY <1>0
<1>3. f \in [1..n -> [V -> V]]
  <2> HIDE DEF seq
  <2> QED
    BY <1>2
<1>4. \A k \in 1..n : \A st \in V : f[k][st] = Land(st, Of(seq[k]), rows_[seq[k]], at, runway)
  <2> HIDE DEF seq
  <2> QED
    OBVIOUS
<1>5. base \in V
  OBVIOUS
<1> HIDE DEF seq, base, f, It, G
<1>6. PICK r : IsRecursion(r, V, base, f, n)
  BY <1>0, <1>3, <1>5, RecursionExists
<1>7. \A T \in SUBSET (1..n) : T # {} => Max(T) \in 1..n
  BY <1>0, MaxOfRange
<1>8. It(r)
  <2>1. ASSUME NEW T \in SUBSET (1..n)
        PROVE  r[T] = IF T = {} THEN base ELSE Land(r[T \ {Max(T)}], Of(seq[Max(T)]), rows_[seq[Max(T)]], at, runway)
    BY <1>4, <1>6, <1>7, <2>1 DEF IsRecursion
  <2> QED
    BY <1>0, <1>6, <2>1 DEF It, IsRecursion
<1>9. It(G)
  BY Zenon, <1>8 DEF G
<1>10. \A T \in SUBSET (1..n) : G[T] = IF T = {} THEN base ELSE Land(G[T \ {Max(T)}], Of(seq[Max(T)]), rows_[seq[Max(T)]], at, runway)
  BY <1>0, <1>9 DEF It
<1>11. Recurs(G, V, base, f, n)
  <2>1. ASSUME NEW T \in SUBSET (1..n), T # {} => G[T \ {Max(T)}] \in V
        PROVE  G[T] = IF T = {} THEN base ELSE f[Max(T)][G[T \ {Max(T)}]]
    <3>1. CASE T = {}
      BY <1>10, <3>1
    <3>2. CASE T # {}
      <4>1. Max(T) \in 1..n /\ G[T \ {Max(T)}] \in V
        BY <1>7, <2>1, <3>2
      <4>2. f[Max(T)][G[T \ {Max(T)}]] = Land(G[T \ {Max(T)}], Of(seq[Max(T)]), rows_[seq[Max(T)]], at, runway)
        BY <1>4, <4>1
      <4> QED
        BY <1>10, <3>2, <4>2
    <3> QED
      BY <3>1, <3>2
  <2> QED
    BY <2>1 DEF Recurs
<1>12. G[1..n] \in V
  BY <1>0, <1>3, <1>5, <1>11, WalkEnds
<1> QED
  BY <1>0, <1>1, <1>12

-----------------------------------------------------------------------------
(* What damage leaves. *)

Fits(row) == \A i \in Items : row.items[i] <= ShipChr[row.type].cap[i]
HullRow == {row \in ShipRow : Fits(row)}

\* Rounding down keeps a share of a number between 0 and the number.
LEMMA DivNat == ASSUME NEW a \in Nat, NEW b \in Nat \ {0} PROVE a \div b \in Nat
  OBVIOUS

LEMMA DamageLeaves ==
    ASSUME NEW n \in Int, NEW pct \in Nat
    PROVE  /\ Damage(n, pct) \in Nat
           /\ n >= 0 => Damage(n, pct) <= n
<1>1. CASE n <= 0
  BY <1>1 DEF Damage
<1>2. CASE n > 0
  <2>1. n * pct \in Nat
    BY <1>2
  <2>2. ((n * pct + 50) \div 100) \in Nat
    BY <2>1
  <2> QED
    BY <1>2, <2>2 DEF Damage, Most
<1> QED
  BY <1>1, <1>2

LEMMA ItemDamageLeaves ==
    ASSUME NEW items \in Stock, NEW pct \in Nat
    PROVE  /\ ItemDamage(pct, items) \in Stock
           /\ \A i \in Items : ItemDamage(pct, items)[i] <= items[i]
<1>1. \A i \in Items : items[i] \in Nat
  BY DEF Stock
<1>2. ASSUME NEW i \in Items
      PROVE  Damage(items[i], pct) \in Nat /\ Damage(items[i], pct) <= items[i]
  <2>1. items[i] \in Int /\ items[i] >= 0
    BY <1>1, <1>2
  <2> QED
    BY <2>1, DamageLeaves
<1> QED
  BY <1>1, <1>2 DEF ItemDamage, Stock

LEMMA ShipDamageLeaves ==
    ASSUME NEW row \in HullRow, NEW dam \in Int
    PROVE  /\ ShipDamage(row, dam) \in HullRow
           /\ ShipDamage(row, dam).type = row.type /\ ShipDamage(row, dam).at = row.at
           /\ ShipDamage(row, dam).own = row.own
           /\ ShipDamage(row, dam).effic <= row.effic
           /\ \A i \in Items : ShipDamage(row, dam).items[i] <= row.items[i]
<1> DEFINE armor == ShipChr[row.type].armor
           pct == Least((dam * 100) \div (100 + armor), 100)
<1>0. row \in ShipRow
  BY DEF HullRow
<1>1. row \in ShipRow /\ armor \in Nat
  <2>1. row.type \in DOMAIN ShipChr
    BY <1>0 DEF ShipRow
  <2> QED
    BY <1>0, <2>1, TablesAssumption
<1>2. pct \in Int /\ pct <= 100
  <2>1. ((dam * 100) \div (100 + armor)) \in Int
    BY <1>1
  <2> QED
    BY <2>1 DEF Least
<1>3. ShipDamage(row, dam) = IF pct <= 0 THEN row
                             ELSE [Worn(row, pct) EXCEPT !.items = ItemDamage(pct, @)]
  BY DEF ShipDamage
<1> HIDE DEF pct, armor
<1>4. CASE pct <= 0
  <2>1. \A i \in Items : row.items[i] \in Nat
    BY <1>1 DEF ShipRow, Stock
  <2>2. row.effic \in Int
    BY <1>1 DEF ShipRow
  <2> QED
    BY <1>3, <1>4, <2>1, <2>2
<1>5. CASE ~(pct <= 0)
  <2>1. pct \in Nat
    BY <1>2, <1>5
  <2>2. row.items \in Stock /\ row.effic \in 0..100 /\ row.mobil \in -100..127
    BY <1>1 DEF ShipRow
  <2>3. Damage(row.effic, pct) \in 0..100 /\ Damage(row.effic, pct) <= row.effic
    <3>1. row.effic \in Int /\ row.effic >= 0
      BY <2>2
    <3>2. Damage(row.effic, pct) \in Nat /\ Damage(row.effic, pct) <= row.effic
      BY <2>1, <3>1, DamageLeaves
    <3> QED
      BY <2>2, <3>2
  <2>4. row.mobil > 0 => Damage(row.mobil, pct) \in 0..127
    <3>1. row.mobil \in Int
      BY <2>2
    <3>2. Damage(row.mobil, pct) \in Nat /\ (row.mobil >= 0 => Damage(row.mobil, pct) <= row.mobil)
      BY <2>1, <3>1, DamageLeaves
    <3> QED
      BY <2>2, <3>2
  <2>5. ItemDamage(pct, row.items) \in Stock
        /\ \A i \in Items : ItemDamage(pct, row.items)[i] <= row.items[i]
    BY <2>1, <2>2, ItemDamageLeaves
  <2> DEFINE mob == IF row.mobil > 0 THEN Damage(row.mobil, pct) ELSE row.mobil
             eff == Damage(row.effic, pct)
             its == ItemDamage(pct, row.items)
             new == [row EXCEPT !.effic = eff, !.mobil = mob, !.items = its]
  <2>6. mob \in -100..127
    BY <2>2, <2>4
  <2>7. ShipDamage(row, dam) = new
    BY <1>1, <1>3, <1>5 DEF Worn, ShipRow
  <2>8. eff \in 0..100 /\ eff <= row.effic
    BY <2>3
  <2>9. its \in Stock /\ \A i \in Items : its[i] <= row.items[i]
    BY <2>5
  <2> HIDE DEF mob, eff, its
  <2>10. /\ new \in ShipRow
         /\ new.type = row.type /\ new.at = row.at /\ new.own = row.own
         /\ new.effic = eff /\ new.items = its
    BY <1>1, <2>6, <2>8, <2>9 DEF ShipRow
  <2>11. Fits(new)
    <3> SUFFICES ASSUME NEW i \in Items PROVE new.items[i] <= ShipChr[new.type].cap[i]
      BY DEF Fits
    <3>1. its[i] \in Nat /\ row.items[i] \in Nat /\ ShipChr[row.type].cap[i] \in Nat
      BY <2>2, <2>9, <1>1, TablesAssumption DEF Stock, ShipRow
    <3>2. row.items[i] <= ShipChr[row.type].cap[i]
      BY DEF HullRow, Fits
    <3> QED
      BY <2>9, <2>10, <3>1, <3>2
  <2> HIDE DEF new
  <2> QED
    BY <2>7, <2>8, <2>9, <2>10, <2>11 DEF HullRow
<1> QED
  BY <1>4, <1>5

-----------------------------------------------------------------------------
(* The invariant, and rows that a command may put when nothing moves. *)

WorldInv(w) == Tables(w) /\ HangarFits(w) /\ HoldsFit(w) /\ Moored(w)

\* The rows that a ship, plane or sector may get from a command that moves nothing.
\* A ship has been hit, or it has the efficiency it had or is a wreck.
HitRows(s) == {row \in HullRow : row.at = ship[s].at /\ row.type = ship[s].type}
ShipRows(s) == {row \in HitRows(s) : row.effic \in {ship[s].effic, 0}}
PlaneRows(p) == {row \in PlaneRow(DOMAIN ship) :
                    row.at = plane[p].at /\ row.ship = plane[p].ship /\ row.type = plane[p].type}
SectRows(s) == {row \in SectRow : row.type = "sea" => sect[s].type = "sea"}
Now == Worlds(DOMAIN ship, DOMAIN plane, DOMAIN land)
Fought == {w \in Now : /\ \A s \in DOMAIN ship : w.ship[s] \in HitRows(s)
                       /\ \A p \in DOMAIN plane : w.plane[p] \in PlaneRows(p)
                       /\ \A s \in Sectors : w.sect[s] \in SectRows(s)}
Quiet == {w \in Fought : \A s \in DOMAIN ship : w.ship[s] \in ShipRows(s)}

\* Somebody other than ship s has paid for a shot, with a shell or with fuel.
Charged(w, s) ==
    \/ \E f \in Sectors : w.sect[f].items["shell"] < sect[f].items["shell"]
    \/ \E t \in DOMAIN ship \ {s} : w.ship[t].items["shell"] < ship[t].items["shell"]
    \/ \E u \in DOMAIN land : w.land[u].items["shell"] < land[u].items["shell"]
    \/ \E p \in DOMAIN plane : w.plane[p].mobil < plane[p].mobil

\* No ship has been hit, and is afloat, for nothing.
Fair(w) == \A s \in DOMAIN ship : w.ship[s].effic \in {ship[s].effic, 0} \/ Charged(w, s)

\* A command that ends with such rows.
Quietly == \E w \in Quiet, again \in BOOLEAN : Done(w, again)
Fairly == \E w \in Fought, again \in BOOLEAN : Fair(w) /\ Done(w, again)

LEMMA WorldIsQuiet ==
    ASSUME Tables(World), HoldsFit(World)
    PROVE  World \in Quiet /\ World \in Fought
<1>1. World \in Now
  BY DEF Tables, World, Now
<1>2. ASSUME NEW s \in DOMAIN ship PROVE ship[s] \in HitRows(s)
  <2>1. ship[s] \in ShipRow
    BY <1>1, <1>2 DEF World, Now, Worlds
  <2>2. \A i \in Items : ship[s].items[i] <= ShipChr[ship[s].type].cap[i]
    BY <1>2 DEF HoldsFit, World
  <2> QED
    BY <2>1, <2>2 DEF HitRows, HullRow, Fits
<1>3. ASSUME NEW p \in DOMAIN plane PROVE plane[p] \in PlaneRows(p)
  BY <1>1, <1>3 DEF World, Now, Worlds, PlaneRows
<1>4. ASSUME NEW s \in Sectors PROVE sect[s] \in SectRows(s)
  BY <1>1, <1>4 DEF World, Now, Worlds, SectRows
<1>5. \A s \in DOMAIN ship : ship[s] \in ShipRows(s)
  BY <1>2 DEF ShipRows
<1> QED
  BY <1>1, <1>2, <1>3, <1>4, <1>5 DEF Fought, Quiet, World

LEMMA QuietIsFought == Quiet \subseteq Fought
  BY DEF Quiet

LEMMA QuietIsFair ==
    ASSUME NEW w \in Quiet
    PROVE  Fair(w)
  BY DEF Quiet, ShipRows, Fair

LEMMA QuietlyFairly ==
    ASSUME Quietly
    PROVE  Fairly
  BY QuietIsFought, QuietIsFair DEF Quietly, Fairly

LEMMA FoughtRows ==
    ASSUME NEW w \in Fought
    PROVE  /\ w \in Now
           /\ \A s \in DOMAIN ship : /\ w.ship[s] \in ShipRow /\ Fits(w.ship[s])
                                     /\ w.ship[s].at = ship[s].at /\ w.ship[s].type = ship[s].type
           /\ \A p \in DOMAIN plane : /\ w.plane[p] \in PlaneRow(DOMAIN ship)
                                      /\ w.plane[p].at = plane[p].at
                                      /\ w.plane[p].ship = plane[p].ship
                                      /\ w.plane[p].type = plane[p].type
           /\ \A s \in Sectors : w.sect[s] \in SectRow /\ (w.sect[s].type = "sea" => sect[s].type = "sea")
           /\ \A u \in DOMAIN land : w.land[u] \in LandRow(DOMAIN ship)
           /\ \A n \in Nations : w.nat[n] \in NatRow
           /\ w = [ship |-> w.ship, plane |-> w.plane, land |-> w.land, sect |-> w.sect, nat |-> w.nat]
           /\ DOMAIN w.ship = DOMAIN ship /\ DOMAIN w.plane = DOMAIN plane
           /\ DOMAIN w.land = DOMAIN land /\ DOMAIN w.sect = Sectors /\ DOMAIN w.nat = Nations
<1>1. w \in Now
  BY DEF Fought
<1>2. \A s \in DOMAIN ship : w.ship[s] \in HitRows(s)
  BY DEF Fought
<1>3. \A p \in DOMAIN plane : w.plane[p] \in PlaneRows(p)
  BY DEF Fought
<1>4. \A s \in Sectors : w.sect[s] \in SectRows(s)
  BY DEF Fought
<1>5. /\ \A u \in DOMAIN land : w.land[u] \in LandRow(DOMAIN ship)
      /\ \A n \in Nations : w.nat[n] \in NatRow
      /\ w = [ship |-> w.ship, plane |-> w.plane, land |-> w.land, sect |-> w.sect, nat |-> w.nat]
      /\ DOMAIN w.ship = DOMAIN ship /\ DOMAIN w.plane = DOMAIN plane
      /\ DOMAIN w.land = DOMAIN land /\ DOMAIN w.sect = Sectors /\ DOMAIN w.nat = Nations
  BY <1>1 DEF Now, Worlds
<1>6. \A s \in DOMAIN ship : /\ w.ship[s] \in ShipRow /\ Fits(w.ship[s])
                             /\ w.ship[s].at = ship[s].at /\ w.ship[s].type = ship[s].type
  BY <1>2 DEF HitRows, HullRow
<1>7. \A p \in DOMAIN plane : /\ w.plane[p] \in PlaneRow(DOMAIN ship)
                              /\ w.plane[p].at = plane[p].at
                              /\ w.plane[p].ship = plane[p].ship
                              /\ w.plane[p].type = plane[p].type
  BY <1>3 DEF PlaneRows
<1>8. \A s \in Sectors : w.sect[s] \in SectRow /\ (w.sect[s].type = "sea" => sect[s].type = "sea")
  BY <1>4 DEF SectRows
<1> QED
  BY <1>1, <1>5, <1>6, <1>7, <1>8

\* The same planes aboard, in a ship of the same type.
SameHangar(v, w, s) ==
    /\ w.ship[s].type = v.ship[s].type
    /\ PlanesOn(w, s) = PlanesOn(v, s)
    /\ \A p \in PlanesOn(v, s) : w.plane[p].type = v.plane[p].type

LEMMA HousedAlike ==
    ASSUME NEW v, NEW w, NEW s, Housed(v, s), SameHangar(v, w, s)
    PROVE  Housed(w, s)
<1> DEFINE P == PlanesOn(v, s)
           chr == ShipChr[v.ship[s].type]
           room == Berth(chr)
<1>1. PICK berth \in [P -> {"chopper", "xlight", "deck"}] :
            /\ \A p \in DOMAIN berth : MayLie(chr.flags, Bucket(v, p), berth[p])
            /\ \A b \in DOMAIN room : Cardinality({p \in DOMAIN berth : berth[p] = b}) <= room[b]
  BY DEF Housed
<1>2. P = PlanesOn(w, s) /\ chr = ShipChr[w.ship[s].type]
      /\ \A p \in P : Bucket(w, p) = Bucket(v, p)
  BY DEF SameHangar, Bucket
<1> HIDE DEF P, chr
<1>3. \A p \in DOMAIN berth : MayLie(chr.flags, Bucket(w, p), berth[p])
  BY <1>1, <1>2
<1>4. \E b_ \in [P -> {"chopper", "xlight", "deck"}] :
            /\ \A p \in DOMAIN b_ : MayLie(chr.flags, Bucket(w, p), b_[p])
            /\ \A b \in DOMAIN room : Cardinality({p \in DOMAIN b_ : b_[p] = b}) <= room[b]
  BY <1>1, <1>3
<1> QED
  BY <1>2, <1>4 DEF Housed

LEMMA FoughtKeeps ==
    ASSUME WorldInv(World), NEW w \in Fought
    PROVE  WorldInv(w)
<1>1. /\ w \in Worlds(DOMAIN w.ship, DOMAIN w.plane, DOMAIN w.land)
      /\ DOMAIN w.ship = DOMAIN ship /\ DOMAIN w.plane = DOMAIN plane /\ DOMAIN w.land = DOMAIN land
  BY FoughtRows DEF Now
<1>2. Tables(w)
  BY <1>1 DEF WorldInv, Tables, World
<1>3. HoldsFit(w)
  BY <1>1, FoughtRows DEF HoldsFit, Fits
<1>4. Moored(w)
  <2> SUFFICES ASSUME NEW p \in DOMAIN plane, w.plane[p].ship # None
               PROVE  \/ w.plane[p].at = w.ship[w.plane[p].ship].at
                      \/ w.sect[w.plane[p].at].type # "sea"
    BY <1>1 DEF Moored
  <2>1. w.plane[p].at = plane[p].at /\ w.plane[p].ship = plane[p].ship
        /\ w.plane[p] \in PlaneRow(DOMAIN ship)
    BY FoughtRows
  <2>2. plane[p].at \in Sectors /\ plane[p].ship \in DOMAIN ship
    BY <2>1 DEF PlaneRow
  <2>3. plane[p].at = ship[plane[p].ship].at \/ sect[plane[p].at].type # "sea"
    BY <2>1 DEF WorldInv, Moored, World
  <2>4. w.ship[plane[p].ship].at = ship[plane[p].ship].at
        /\ (w.sect[plane[p].at].type = "sea" => sect[plane[p].at].type = "sea")
    BY <2>2, FoughtRows
  <2> QED
    BY <2>1, <2>3, <2>4
<1>5. HangarFits(w)
  <2>1. ASSUME NEW s \in DOMAIN ship PROVE PlanesOn(w, s) = PlanesOn(World, s)
    BY <1>1, FoughtRows DEF PlanesOn, World
  <2>2. ASSUME NEW s \in DOMAIN ship PROVE PlanesOn(World, s) \subseteq DOMAIN plane
    BY DEF PlanesOn, World
  <2>3. ASSUME NEW s \in DOMAIN ship PROVE SameHangar(World, w, s)
    <3>1. w.ship[s].type = World.ship[s].type
      BY <2>3, FoughtRows DEF World
    <3>2. \A p \in PlanesOn(World, s) : w.plane[p].type = World.plane[p].type
      BY <2>2, <2>3, FoughtRows DEF World
    <3> QED
      BY <2>1, <2>3, <3>1, <3>2 DEF SameHangar
  <2>4. World.ship = ship
    BY DEF World
  <2>5. \A s \in DOMAIN ship : Housed(World, s)
    BY <2>4 DEF HangarFits, WorldInv
  <2>6. ASSUME NEW s \in DOMAIN ship PROVE Housed(w, s)
    BY <2>3, <2>5, <2>6, HousedAlike
  <2> QED
    BY <1>1, <2>6 DEF HangarFits
<1> QED
  BY <1>2, <1>3, <1>4, <1>5 DEF WorldInv

-----------------------------------------------------------------------------
(* Putting such rows. *)

\* The row as PutShip leaves it.
Sunk(row) == IF row.effic < SHIP_MINEFF THEN [row EXCEPT !.own = 0, !.effic = 0] ELSE row

LEMMA SunkIsHull ==
    ASSUME NEW row \in HullRow
    PROVE  /\ Sunk(row) \in HullRow /\ Sunk(row).at = row.at /\ Sunk(row).type = row.type
           /\ Sunk(row).items = row.items /\ Sunk(row).effic \in {row.effic, 0}
<1>1. row \in ShipRow /\ Fits(row)
  BY DEF HullRow
<1>2. Sunk(row) \in ShipRow
  <2>1. [row EXCEPT !.own = 0, !.effic = 0] \in ShipRow
    <3>1. 0 \in Nations /\ 0 \in 0..100
      BY ForcesAssumption
    <3> QED
      BY <1>1, <3>1 DEF ShipRow
  <2> QED
    BY <1>1, <2>1 DEF Sunk
<1>3. /\ Sunk(row).at = row.at /\ Sunk(row).type = row.type /\ Sunk(row).items = row.items
      /\ Sunk(row).effic \in {row.effic, 0}
  <2>1. CASE row.effic < SHIP_MINEFF
    BY <1>1, <2>1 DEF Sunk, ShipRow
  <2>2. CASE ~(row.effic < SHIP_MINEFF)
    BY <2>2 DEF Sunk
  <2> QED
    BY <2>1, <2>2
<1>4. Fits(Sunk(row))
  BY <1>1, <1>3 DEF Fits
<1> QED
  BY <1>2, <1>3, <1>4 DEF HullRow

LEMMA PutShipFought ==
    ASSUME NEW w \in Fought, NEW u \in DOMAIN ship, NEW row \in HitRows(u)
    PROVE  PutShip(w, u, row) \in Fought
<1> DEFINE new == PutShip(w, u, row)
<1>0. row \in HullRow /\ row.at = ship[u].at /\ row.type = ship[u].type
  BY DEF HitRows
<1>1. Sunk(row) \in HitRows(u) /\ Sunk(row) \in ShipRow
  BY <1>0, SunkIsHull DEF HitRows, HullRow
<1>2. w \in Now /\ \A s \in DOMAIN ship : w.ship[s] \in HitRows(s)
  BY DEF Fought
<1>3. /\ new.plane = w.plane /\ new.sect = w.sect
      /\ new.ship = [w.ship EXCEPT ![u] = Sunk(row)]
  BY <1>2 DEF PutShip, Sunk, Now, Worlds
<1>4. new \in Now
  BY <1>1, <1>2 DEF PutShip, Sunk, Now, Worlds
<1>5. \A s \in DOMAIN ship : new.ship[s] \in HitRows(s)
  BY <1>1, <1>2, <1>3 DEF Now, Worlds
<1> HIDE DEF new
<1>6. new \in Fought
  BY <1>3, <1>4, <1>5 DEF Fought
<1> QED
  BY <1>6 DEF new

LEMMA PutPlaneFought ==
    ASSUME NEW w \in Fought, NEW u \in DOMAIN plane, NEW row \in PlaneRows(u)
    PROVE  PutPlane(w, u, row) \in Fought
<1> DEFINE new == PutPlane(w, u, row)
<1>1. row \in PlaneRow(DOMAIN ship)
  BY DEF PlaneRows
<1>2. w \in Now /\ \A p \in DOMAIN plane : w.plane[p] \in PlaneRows(p)
  BY DEF Fought
<1>3. new.ship = w.ship /\ new.sect = w.sect /\ new.plane = [w.plane EXCEPT ![u] = row]
  BY <1>2 DEF PutPlane, Now, Worlds
<1>4. new \in Now
  BY <1>1, <1>2 DEF PutPlane, Now, Worlds
<1>5. \A p \in DOMAIN plane : new.plane[p] \in PlaneRows(p)
  BY <1>2, <1>3 DEF Now, Worlds
<1> HIDE DEF new
<1>6. new \in Fought
  BY <1>3, <1>4, <1>5 DEF Fought
<1> QED
  BY <1>6 DEF new

LEMMA PutLandFought ==
    ASSUME NEW w \in Fought, NEW u \in DOMAIN land, NEW row \in LandRow(DOMAIN ship)
    PROVE  PutLand(w, u, row) \in Fought
<1> DEFINE new == PutLand(w, u, row)
<1>2. w \in Now
  BY DEF Fought
<1>3. new.ship = w.ship /\ new.sect = w.sect /\ new.plane = w.plane
  BY <1>2 DEF PutLand, Now, Worlds
<1>4. new \in Now
  BY <1>2 DEF PutLand, Now, Worlds
<1> HIDE DEF new
<1>6. new \in Fought
  BY <1>3, <1>4 DEF Fought
<1> QED
  BY <1>6 DEF new

LEMMA PutSectFought ==
    ASSUME NEW w \in Fought, NEW u \in Sectors, NEW row \in SectRows(u)
    PROVE  PutSect(w, u, row) \in Fought
<1> DEFINE new == PutSect(w, u, row)
<1>1. row \in SectRow
  BY DEF SectRows
<1>2. w \in Now /\ \A s \in Sectors : w.sect[s] \in SectRows(s)
  BY DEF Fought
<1>3. new.ship = w.ship /\ new.plane = w.plane /\ new.sect = [w.sect EXCEPT ![u] = row]
  BY <1>2 DEF PutSect, Now, Worlds
<1>4. new \in Now
  BY <1>1, <1>2 DEF PutSect, Now, Worlds
<1>5. \A s \in Sectors : new.sect[s] \in SectRows(s)
  BY <1>2, <1>3 DEF Now, Worlds
<1> HIDE DEF new
<1>6. new \in Fought
  BY <1>3, <1>4, <1>5 DEF Fought
<1> QED
  BY <1>6 DEF new

LEMMA PutNatFought ==
    ASSUME NEW w \in Fought, NEW n \in Nations, NEW row \in NatRow
    PROVE  PutNat(w, n, row) \in Fought
<1> DEFINE new == PutNat(w, n, row)
<1>2. w \in Now
  BY DEF Fought
<1>3. new.ship = w.ship /\ new.sect = w.sect /\ new.plane = w.plane
  BY <1>2 DEF PutNat, Now, Worlds
<1>4. new \in Now
  BY <1>2 DEF PutNat, Now, Worlds
<1> HIDE DEF new
<1>6. new \in Fought
  BY <1>3, <1>4 DEF Fought
<1> QED
  BY <1>6 DEF new

LEMMA PutPlanesFought ==
    ASSUME NEW w \in Fought, NEW new, DOMAIN new \subseteq DOMAIN plane,
           \A p \in DOMAIN new : new[p] \in PlaneRows(p)
    PROVE  PutPlanes(w, new) \in Fought
<1> DEFINE all == Over(w.plane, new)
           to == PutPlanes(w, new)
<1>1. w \in Now /\ \A p \in DOMAIN plane : w.plane[p] \in PlaneRows(p)
  BY DEF Fought
<1>2. DOMAIN w.plane = DOMAIN plane
  BY <1>1 DEF Now, Worlds
<1>3. \A p \in DOMAIN plane : all[p] \in PlaneRows(p)
  BY <1>1, <1>2 DEF Over
<1>4. all \in [DOMAIN plane -> PlaneRow(DOMAIN ship)]
  BY <1>2, <1>3 DEF Over, PlaneRows
<1>5. to = [w EXCEPT !.plane = all]
  BY <1>1 DEF PutPlanes, Now, Worlds
<1> HIDE DEF all
<1>6. to \in Now /\ to.plane = all /\ to.ship = w.ship /\ to.sect = w.sect
  BY <1>1, <1>4, <1>5 DEF Now, Worlds
<1> HIDE DEF to
<1>7. to \in Fought
  BY <1>3, <1>6 DEF Fought
<1> QED
  BY <1>7 DEF to

LEMMA PutLandsFought ==
    ASSUME NEW w \in Fought, NEW new, \A u \in DOMAIN new : new[u] \in LandRow(DOMAIN ship)
    PROVE  PutLands(w, new) \in Fought
<1> DEFINE all == Over(w.land, new)
           to == PutLands(w, new)
<1>1. w \in Now
  BY DEF Fought
<1>2. w.land \in [DOMAIN land -> LandRow(DOMAIN ship)]
  BY <1>1 DEF Now, Worlds
<1>4. all \in [DOMAIN land -> LandRow(DOMAIN ship)]
  BY <1>2 DEF Over
<1>5. to = [w EXCEPT !.land = all]
  BY <1>1 DEF PutLands, Now, Worlds
<1> HIDE DEF all
<1>6. to \in Now /\ to.plane = w.plane /\ to.ship = w.ship /\ to.sect = w.sect
  BY <1>1, <1>4, <1>5 DEF Now, Worlds
<1> HIDE DEF to
<1>7. to \in Fought
  BY <1>6 DEF Fought
<1> QED
  BY <1>7 DEF to

LEMMA PutSectsFought ==
    ASSUME NEW w \in Fought, NEW new, \A s \in DOMAIN new : s \in Sectors => new[s] \in SectRows(s)
    PROVE  PutSects(w, new) \in Fought
<1> DEFINE all == Over(w.sect, new)
           to == PutSects(w, new)
<1>1. w \in Now /\ \A p \in Sectors : w.sect[p] \in SectRows(p)
  BY DEF Fought
<1>2. DOMAIN w.sect = Sectors
  BY <1>1 DEF Now, Worlds
<1>3. \A p \in Sectors : all[p] \in SectRows(p)
  BY <1>1, <1>2 DEF Over
<1>4. all \in [Sectors -> SectRow]
  BY <1>2, <1>3 DEF Over, SectRows
<1>5. to = [w EXCEPT !.sect = all]
  BY <1>1 DEF PutSects, Now, Worlds
<1> HIDE DEF all
<1>6. to \in Now /\ to.plane = w.plane /\ to.ship = w.ship /\ to.sect = all
  BY <1>1, <1>4, <1>5 DEF Now, Worlds
<1> HIDE DEF to
<1>7. to \in Fought
  BY <1>3, <1>6 DEF Fought
<1> QED
  BY <1>7 DEF to

LEMMA SavedFought ==
    ASSUME NEW w \in Fought, NEW spec
    PROVE  Saved(w, spec) \in Fought
<1> DEFINE all == [s \in DOMAIN w.ship |-> IF s \in spec THEN Sunk(w.ship[s]) ELSE w.ship[s]]
           to == Saved(w, spec)
<1>1. w \in Now /\ \A s \in DOMAIN ship : w.ship[s] \in HitRows(s)
  BY DEF Fought
<1>2. DOMAIN w.ship = DOMAIN ship
  BY <1>1 DEF Now, Worlds
<1>3. \A s \in DOMAIN ship : all[s] \in HitRows(s)
  <2> SUFFICES ASSUME NEW s \in DOMAIN ship PROVE all[s] \in HitRows(s)
    OBVIOUS
  <2>1. w.ship[s] \in HitRows(s)
    BY <1>1
  <2>2. Sunk(w.ship[s]) \in HitRows(s)
    BY <2>1, SunkIsHull DEF HitRows
  <2> QED
    BY <1>2, <2>1, <2>2
<1>4. all \in [DOMAIN ship -> ShipRow]
  BY <1>2, <1>3 DEF HitRows, HullRow
<1>5. to = [w EXCEPT !.ship = all]
  BY <1>1, <1>2 DEF Saved, Sunk, Now, Worlds
<1> HIDE DEF all
<1>6. to \in Now /\ to.plane = w.plane /\ to.ship = all /\ to.sect = w.sect
  BY <1>1, <1>4, <1>5 DEF Now, Worlds
<1> HIDE DEF to
<1>7. to \in Fought
  BY <1>3, <1>6 DEF Fought
<1> QED
  BY <1>7 DEF to

\* The same of rows of ships that have not been hit.
LEMMA SunkRows ==
    ASSUME NEW s, NEW row \in ShipRows(s)
    PROVE  Sunk(row) \in ShipRows(s)
<1>1. row \in HullRow /\ row.at = ship[s].at /\ row.type = ship[s].type
      /\ row.effic \in {ship[s].effic, 0}
  BY DEF ShipRows, HitRows
<1>2. /\ Sunk(row) \in HullRow /\ Sunk(row).at = row.at /\ Sunk(row).type = row.type
      /\ Sunk(row).effic \in {row.effic, 0}
  BY <1>1, SunkIsHull
<1> QED
  BY <1>1, <1>2 DEF ShipRows, HitRows

LEMMA QuietAgain ==
    ASSUME NEW w \in Quiet, NEW new \in Fought, new.ship = w.ship
    PROVE  new \in Quiet
  BY DEF Quiet

LEMMA PutShipQuiet ==
    ASSUME NEW w \in Quiet, NEW u \in DOMAIN ship, NEW row \in ShipRows(u)
    PROVE  PutShip(w, u, row) \in Quiet
<1> DEFINE new == PutShip(w, u, row)
<1>1. w \in Fought /\ w \in Now /\ \A s \in DOMAIN ship : w.ship[s] \in ShipRows(s)
  BY DEF Quiet, Fought
<1>2. new \in Fought
  BY <1>1, PutShipFought DEF ShipRows
<1>3. new.ship = [w.ship EXCEPT ![u] = Sunk(row)] /\ DOMAIN w.ship = DOMAIN ship
  BY <1>1 DEF PutShip, Sunk, Now, Worlds
<1>4. Sunk(row) \in ShipRows(u)
  BY SunkRows
<1> HIDE DEF new
<1>5. new \in Quiet
  BY <1>1, <1>2, <1>3, <1>4 DEF Quiet
<1> QED
  BY <1>5 DEF new

LEMMA PutPlaneQuiet ==
    ASSUME NEW w \in Quiet, NEW u \in DOMAIN plane, NEW row \in PlaneRows(u)
    PROVE  PutPlane(w, u, row) \in Quiet
<1>1. w \in Fought /\ w \in Now
  BY DEF Quiet, Fought
<1>2. PutPlane(w, u, row) \in Fought
  BY <1>1, PutPlaneFought
<1>3. PutPlane(w, u, row).ship = w.ship
  BY <1>1 DEF PutPlane, Now, Worlds
<1> QED
  BY <1>2, <1>3, QuietAgain

LEMMA PutLandQuiet ==
    ASSUME NEW w \in Quiet, NEW u \in DOMAIN land, NEW row \in LandRow(DOMAIN ship)
    PROVE  PutLand(w, u, row) \in Quiet
<1>1. w \in Fought /\ w \in Now
  BY DEF Quiet, Fought
<1>2. PutLand(w, u, row) \in Fought
  BY <1>1, PutLandFought
<1>3. PutLand(w, u, row).ship = w.ship
  BY <1>1 DEF PutLand, Now, Worlds
<1> QED
  BY <1>2, <1>3, QuietAgain

LEMMA PutSectQuiet ==
    ASSUME NEW w \in Quiet, NEW u \in Sectors, NEW row \in SectRows(u)
    PROVE  PutSect(w, u, row) \in Quiet
<1>1. w \in Fought /\ w \in Now
  BY DEF Quiet, Fought
<1>2. PutSect(w, u, row) \in Fought
  BY <1>1, PutSectFought
<1>3. PutSect(w, u, row).ship = w.ship
  BY <1>1 DEF PutSect, Now, Worlds
<1> QED
  BY <1>2, <1>3, QuietAgain

LEMMA PutNatQuiet ==
    ASSUME NEW w \in Quiet, NEW n \in Nations, NEW row \in NatRow
    PROVE  PutNat(w, n, row) \in Quiet
<1>1. w \in Fought /\ w \in Now
  BY DEF Quiet, Fought
<1>2. PutNat(w, n, row) \in Fought
  BY <1>1, PutNatFought
<1>3. PutNat(w, n, row).ship = w.ship
  BY <1>1 DEF PutNat, Now, Worlds
<1> QED
  BY <1>2, <1>3, QuietAgain

LEMMA PutPlanesQuiet ==
    ASSUME NEW w \in Quiet, NEW new, DOMAIN new \subseteq DOMAIN plane,
           \A p \in DOMAIN new : new[p] \in PlaneRows(p)
    PROVE  PutPlanes(w, new) \in Quiet
<1>1. w \in Fought /\ w \in Now
  BY DEF Quiet, Fought
<1>2. PutPlanes(w, new) \in Fought
  BY <1>1, PutPlanesFought
<1>3. PutPlanes(w, new).ship = w.ship
  BY <1>1 DEF PutPlanes, Now, Worlds
<1> QED
  BY <1>2, <1>3, QuietAgain

LEMMA PutLandsQuiet ==
    ASSUME NEW w \in Quiet, NEW new, \A u \in DOMAIN new : new[u] \in LandRow(DOMAIN ship)
    PROVE  PutLands(w, new) \in Quiet
<1>1. w \in Fought /\ w \in Now
  BY DEF Quiet, Fought
<1>2. PutLands(w, new) \in Fought
  BY <1>1, PutLandsFought
<1>3. PutLands(w, new).ship = w.ship
  BY <1>1 DEF PutLands, Now, Worlds
<1> QED
  BY <1>2, <1>3, QuietAgain

LEMMA PutSectsQuiet ==
    ASSUME NEW w \in Quiet, NEW new, \A s \in DOMAIN new : s \in Sectors => new[s] \in SectRows(s)
    PROVE  PutSects(w, new) \in Quiet
<1>1. w \in Fought /\ w \in Now
  BY DEF Quiet, Fought
<1>2. PutSects(w, new) \in Fought
  BY <1>1, PutSectsFought
<1>3. PutSects(w, new).ship = w.ship
  BY <1>1 DEF PutSects, Now, Worlds
<1> QED
  BY <1>2, <1>3, QuietAgain

LEMMA SavedQuiet ==
    ASSUME NEW w \in Quiet, NEW spec
    PROVE  Saved(w, spec) \in Quiet
<1> DEFINE all == [s \in DOMAIN w.ship |-> IF s \in spec THEN Sunk(w.ship[s]) ELSE w.ship[s]]
           to == Saved(w, spec)
<1>1. w \in Fought /\ w \in Now /\ \A s \in DOMAIN ship : w.ship[s] \in ShipRows(s)
  BY DEF Quiet, Fought
<1>2. DOMAIN w.ship = DOMAIN ship
  BY <1>1 DEF Now, Worlds
<1>3. \A s \in DOMAIN ship : all[s] \in ShipRows(s)
  BY <1>1, <1>2, SunkRows
<1>4. to \in Fought
  BY <1>1, SavedFought
<1>5. to = [w EXCEPT !.ship = all]
  BY <1>1, <1>2 DEF Saved, Sunk, Now, Worlds
<1> HIDE DEF all
<1>6. to.ship = all
  BY <1>1, <1>5 DEF Now, Worlds
<1> HIDE DEF to
<1>7. to \in Quiet
  BY <1>3, <1>4, <1>6 DEF Quiet
<1> QED
  BY <1>7 DEF to

-----------------------------------------------------------------------------
(* Sectors and stocks. *)

LEMMA SectorsFinite == IsFiniteSet(Sectors)
<1>1. IsFiniteSet(0..WorldX - 1) /\ IsFiniteSet(0..WorldY - 1)
  <2>1. WorldX - 1 \in Int /\ WorldY - 1 \in Int
    BY ForcesAssumption
  <2> QED
    BY <2>1, FS_Interval
<1>2. IsFiniteSet((0..WorldX - 1) \X (0..WorldY - 1))
  BY <1>1, FS_Product
<1>3. Sectors \in SUBSET ((0..WorldX - 1) \X (0..WorldY - 1))
  BY DEF Sectors
<1> QED
  BY <1>2, <1>3, FS_Subset

\* A step of at most two around a circle of even length: the parity stays.
LEMMA Around2 ==
    ASSUME NEW n \in Nat \ {0}, n % 2 = 0, NEW a \in 0..n - 1, NEW d \in -2..2
    PROVE  /\ (a + d) % n \in 0..n - 1
           /\ \E q \in Int : (a + d) % n = a + d + 2 * q
<1>0. PICK m \in Nat : n = 2 * m
  <2>1. n = 2 * (n \div 2) /\ (n \div 2) \in Nat
    OBVIOUS
  <2> QED
    BY <2>1
<1>1. n >= 2
  OBVIOUS
<1>2. CASE a + d < 0
  <2>1. a + d + n \in 0..n - 1 /\ -1 \in Int /\ n * (-1) + (a + d + n) = a + d
    BY <1>1, <1>2
  <2>2. (n * (-1) + (a + d + n)) % n = a + d + n
    BY <2>1, Division
  <2>3. a + d + n = a + d + 2 * m
    BY <1>0
  <2> QED
    BY <1>0, <2>1, <2>2, <2>3
<1>3. CASE a + d \in 0..n - 1
  <2>1. 0 \in Int /\ n * 0 + (a + d) = a + d
    BY <1>3
  <2>2. (n * 0 + (a + d)) % n = a + d
    BY <1>3, <2>1, Division
  <2>3. (a + d) % n = a + d
    BY <2>1, <2>2
  <2>4. a + d = a + d + 2 * 0
    OBVIOUS
  <2> QED
    BY <1>3, <2>1, <2>3, <2>4
<1>4. CASE a + d >= n
  <2>1. a + d - n \in 0..n - 1 /\ 1 \in Int /\ n * 1 + (a + d - n) = a + d
    BY <1>1, <1>4
  <2>2. (n * 1 + (a + d - n)) % n = a + d - n
    BY <2>1, Division
  <2>3. a + d - n = a + d + 2 * (-m) /\ -m \in Int
    BY <1>0
  <2> QED
    BY <1>0, <2>1, <2>2, <2>3
<1> QED
  BY <1>2, <1>3, <1>4

LEMMA StepIsSector ==
    ASSUME NEW s \in Sectors, NEW d \in Directions
    PROVE  Step(s, d) \in Sectors
<1>1. /\ WorldX \in Nat \ {0} /\ WorldX % 2 = 0 /\ WorldY \in Nat \ {0} /\ WorldY % 2 = 0
  BY ForcesAssumption
<1>2. s[1] \in 0..WorldX - 1 /\ s[2] \in 0..WorldY - 1 /\ (s[1] + s[2]) % 2 = 0
  BY DEF Sectors
<1>3. DIROFF[d][1] \in -2..2 /\ DIROFF[d][2] \in -2..2 /\ (DIROFF[d][1] + DIROFF[d][2]) % 2 = 0
  <2>1. d = 1 \/ d = 2 \/ d = 3 \/ d = 4 \/ d = 5 \/ d = 6
    BY DEF Directions
  <2> QED
    BY <2>1 DEF DIROFF
<1> DEFINE x == (s[1] + DIROFF[d][1]) % WorldX
           y == (s[2] + DIROFF[d][2]) % WorldY
<1>4. x \in 0..WorldX - 1 /\ \E q \in Int : x = s[1] + DIROFF[d][1] + 2 * q
  BY <1>1, <1>2, <1>3, Around2
<1>5. y \in 0..WorldY - 1 /\ \E q \in Int : y = s[2] + DIROFF[d][2] + 2 * q
  BY <1>1, <1>2, <1>3, Around2
<1>6. Step(s, d) = <<x, y>>
  BY DEF Step
<1> HIDE DEF x, y
<1>7. (x + y) % 2 = 0
  <2>1. PICK p \in Int : x = s[1] + DIROFF[d][1] + 2 * p
    BY <1>4
  <2>2. PICK q \in Int : y = s[2] + DIROFF[d][2] + 2 * q
    BY <1>5
  <2> DEFINE a == s[1] + s[2]
             b == DIROFF[d][1] + DIROFF[d][2]
  <2>3. a \in Int /\ b \in Int /\ x + y = a + b + 2 * (p + q)
    <3>1. s[1] \in Int /\ s[2] \in Int /\ DIROFF[d][1] \in Int /\ DIROFF[d][2] \in Int
      BY <1>1, <1>2, <1>3
    <3> QED
      BY <3>1, <2>1, <2>2
  <2>4. a % 2 = 0 /\ b % 2 = 0
    BY <1>2, <1>3
  <2> HIDE DEF a, b
  <2>5. x \in Int /\ y \in Int /\ (a + b) % 2 = 0
    BY <1>4, <1>5, <2>3, <2>4
  <2> DEFINE t == p + q
             c == a + b
  <2>6. x + y = c + 2 * t /\ c % 2 = 0 /\ c \in Int /\ t \in Int
    BY <2>3, <2>5
  <2> HIDE DEF t, c
  <2> QED
    BY <2>5, <2>6
<1> QED
  BY <1>4, <1>5, <1>6, <1>7 DEF Sectors

LEMMA TypedRows ==
    ASSUME Tables(World)
    PROVE  /\ ship \in [DOMAIN ship -> ShipRow] /\ plane \in [DOMAIN plane -> PlaneRow(DOMAIN ship)]
           /\ land \in [DOMAIN land -> LandRow(DOMAIN ship)]
           /\ sect \in [Sectors -> SectRow] /\ nat \in [Nations -> NatRow]
           /\ IsFiniteSet(DOMAIN ship) /\ IsFiniteSet(DOMAIN plane) /\ IsFiniteSet(DOMAIN land)
           /\ DOMAIN ship \subseteq Int /\ DOMAIN plane \subseteq Int /\ DOMAIN land \subseteq Int
  BY DEF Tables, World, Worlds

\* A stock to which something is added or from which something that is there is taken.
LEMMA ShiftStock ==
    ASSUME NEW items \in Stock, NEW i \in Items, NEW n \in Int, items[i] + n >= 0
    PROVE  /\ Shift(items, i, n) \in Stock
           /\ Shift(items, i, n)[i] = items[i] + n
           /\ \A j \in Items \ {i} : Shift(items, i, n)[j] = items[j]
  BY DEF Shift, Stock

\* A sector of another type, or of another owner.
Retyped(row, type, effic) == [row EXCEPT !.effic = effic, !.type = type]
Owned(row, own, old) == [row EXCEPT !.own = own, !.old_own = old]

LEMMA SectRetyped ==
    ASSUME NEW row \in SectRow, NEW type \in DOMAIN SectChr, NEW effic \in 0..100
    PROVE  /\ Retyped(row, type, effic) \in SectRow
           /\ Retyped(row, type, effic).type = type
<1> DEFINE one == [row EXCEPT !.effic = effic]
<1>1. one \in SectRow
  BY DEF SectRow
<1>2. Retyped(row, type, effic) = [one EXCEPT !.type = type]
  BY DEF SectRow, Retyped
<1> HIDE DEF one
<1> QED
  BY <1>1, <1>2 DEF SectRow

LEMMA SectOwned ==
    ASSUME NEW row \in SectRow, NEW own \in Nations, NEW old \in Nations
    PROVE  /\ Owned(row, own, old) \in SectRow
           /\ Owned(row, own, old).type = row.type
  BY DEF SectRow, Owned

\* The row of a sector with other goods, owner and so on.
LEMMA SectItems ==
    ASSUME NEW row \in SectRow, NEW items \in Stock
    PROVE  /\ [row EXCEPT !.items = items] \in SectRow
           /\ [row EXCEPT !.items = items].type = row.type
           /\ [row EXCEPT !.items = items].items = items
  BY DEF SectRow

-----------------------------------------------------------------------------
(* move, explore, enlist. *)

LEMMA FourFinite ==
    ASSUME NEW a, NEW b, NEW c, NEW d
    PROVE  IsFiniteSet({a, b, c, d})
<1>1. IsFiniteSet({a})
  BY FS_Singleton
<1>2. IsFiniteSet({a} \cup {b})
  BY <1>1, FS_AddElement
<1>3. IsFiniteSet(({a} \cup {b}) \cup {c})
  BY <1>2, FS_AddElement
<1>4. IsFiniteSet((({a} \cup {b}) \cup {c}) \cup {d})
  BY <1>3, FS_AddElement
<1>5. {a, b, c, d} = (({a} \cup {b}) \cup {c}) \cup {d}
  OBVIOUS
<1> QED
  BY <1>4, <1>5

LEMMA CostIsInt ==
    ASSUME NEW row \in SectRow
    PROVE  MCost(row) \in Int
<1>1. row.type \in DOMAIN SectChr /\ row.effic \in 0..100
  BY DEF SectRow
<1> DEFINE a == SectChr[row.type].mob0
           b == SectChr[row.type].mob1
           e == Most(row.effic, 0)
<1>2. a \in Int /\ b \in Int
  BY <1>1, TablesAssumption
<1>3. e \in Int
  BY <1>1 DEF Most
<1>4. MCost(row) = Most((a * 100) + ((b - a) * e), 1)
  BY DEF MCost
<1> HIDE DEF a, b, e
<1>5. (b - a) * e \in Int
  BY <1>2, <1>3
<1> QED
  BY <1>2, <1>4, <1>5 DEF Most

LEMMA CarriedQuiet ==
    ASSUME Tables(World), HoldsFit(World), NEW me \in Nations, NEW from \in Sectors, NEW owners,
           NEW n \in Nat, NEW route \in [1..n -> Directions]
    PROVE  Carried(me, from, route, owners)
              \in [w : Quiet, at : Sectors, left : Int, halt : BOOLEAN, steps : Int]
<1> DEFINE V == [w : Quiet, at : Sectors, left : Int, halt : BOOLEAN, steps : Int]
           base == [w |-> World, at |-> from, left |-> sect[from].mobil * 1000, halt |-> FALSE,
                    steps |-> 0]
<1>1. base \in V
  <2>1. sect[from].mobil \in Int
    BY TypedRows DEF SectRow
  <2> QED
    BY <2>1, WorldIsQuiet
<1>2. ASSUME NEW st \in V, NEW d \in Directions PROVE Carry(st, d, me, owners) \in V
  <2> DEFINE to == Step(st.at, d)
             row == st.w.sect[to]
             new == [row EXCEPT !.own = me, !.old_own = me]
  <2>1. to \in Sectors
    BY StepIsSector
  <2>2. row \in SectRow /\ (row.type = "sea" => sect[to].type = "sea")
    BY <2>1, FoughtRows, QuietIsFought
  <2>3. MCost(row) \in Int
    BY <2>2, CostIsInt
  <2>4. new \in SectRows(to)
    BY <2>2 DEF SectRow, SectRows
  <2> HIDE DEF new
  <2>5. PutSect(st.w, to, new) \in Quiet
    BY <2>1, <2>4, PutSectQuiet
  <2>6. [st EXCEPT !.halt = TRUE] \in V
    OBVIOUS
  <2>7. [w |-> IF row.own = 0 THEN PutSect(st.w, to, new) ELSE st.w,
         at |-> to, left |-> st.left - MCost(row), halt |-> FALSE, steps |-> st.steps + 1] \in V
    <3> HIDE DEF row, to
    <3> QED
      BY <2>1, <2>3, <2>5
  <2> QED
    BY <2>6, <2>7 DEF Carry, new
<1> HIDE DEF V
<1>3. Carried(me, from, route, owners) \in V
  BY <1>1, <1>2, CarriedIn
<1> QED
  BY <1>3 DEF V

LEMMA TransportQuiet ==
    ASSUME Tables(World), HoldsFit(World), NEW me \in Nations, NEW from \in Sectors, NEW owners,
           NEW n \in Nat, NEW route \in [1..n -> Directions], NEW i \in Items, NEW amount \in Int,
           Transport(me, from, i, amount, route, owners)
    PROVE  Quietly
<1> DEFINE src == sect[from]
           st == Carried(me, from, route, owners)
           left == (2 * st.left + 999) \div 2000
           paid == [src EXCEPT !.items = Shift(@, i, -amount), !.mobil = left]
           sent == PutSect(st.w, from, paid)
           row == sent.sect[st.at]
           got == [row EXCEPT !.items = Shift(@, i, amount)]
<1>1. st \in [w : Quiet, at : Sectors, left : Int, halt : BOOLEAN, steps : Int]
  BY CarriedQuiet
<1>2. /\ amount > 0 /\ src.items[i] >= amount
      /\ Done(PutSect(sent, st.at, got), FALSE)
  BY DEF Transport
<1> HIDE DEF st
<1>3. left \in Int
  BY <1>1
<1> HIDE DEF left
<1>4. src \in SectRow /\ src.items \in Stock
  BY TypedRows DEF SectRow
<1>5. Shift(src.items, i, -amount) \in Stock
  <2>1. src.items[i] + (-amount) >= 0 /\ -amount \in Int
    BY <1>2, <1>4 DEF Stock
  <2> QED
    BY <1>4, <2>1, ShiftStock
<1>6. paid \in SectRows(from)
  BY <1>3, <1>4, <1>5 DEF SectRow, SectRows
<1> HIDE DEF paid
<1>7. sent \in Quiet
  BY <1>1, <1>6, PutSectQuiet
<1> HIDE DEF sent
<1>8. row \in SectRow /\ (row.type = "sea" => sect[st.at].type = "sea")
  BY <1>1, <1>7, FoughtRows, QuietIsFought
<1>9. row.items \in Stock
  BY <1>8 DEF SectRow
<1>10. Shift(row.items, i, amount) \in Stock
  <2>1. row.items[i] + amount >= 0
    BY <1>2, <1>9 DEF Stock
  <2> QED
    BY <1>9, <2>1, ShiftStock
<1> HIDE DEF row
<1>11. got \in SectRows(st.at)
  BY <1>8, <1>10 DEF SectRow, SectRows
<1> HIDE DEF got
<1>12. PutSect(sent, st.at, got) \in Quiet
  BY <1>1, <1>7, <1>11, PutSectQuiet
<1> QED
  BY <1>2, <1>12 DEF Quietly

LEMMA OwnIsFinite ==
    ASSUME NEW me, NEW spec, spec \subseteq Sectors
    PROVE  IsFiniteSet(Own(me, spec)) /\ Own(me, spec) \subseteq Sectors
<1>1. Own(me, spec) \in SUBSET Sectors
  BY DEF Own
<1> QED
  BY <1>1, SectorsFinite, FS_Subset

LEMMA EnlistQuiet ==
    ASSUME Tables(World), HoldsFit(World), NEW me \in Nations, NEW spec, spec \subseteq Sectors,
           NEW wanted \in Int, Enlist(me, spec, wanted)
    PROVE  Quietly
<1> DEFINE V == [w : Quiet, total : Int]
<1>1. [w |-> World, total |-> 0] \in V
  BY WorldIsQuiet
<1>2. ASSUME NEW st \in V, NEW s \in Own(me, spec) PROVE EnlistOne(st, s, me, wanted) \in V
  <2> DEFINE row == sect[s]
             civ == row.items["civ"]
             mil == row.items["mil"]
             half == civ \div 2
             room == Most(999 - mil, 0)
             four == {wanted, half, 500, room}
             k == Min(four)
             new == [row EXCEPT !.items = Shift(Shift(@, "civ", -k), "mil", k)]
  <2>1. s \in Sectors /\ row \in SectRow /\ row.items \in Stock
    BY OwnIsFinite, TypedRows DEF SectRow
  <2>2. "civ" \in Items /\ "mil" \in Items
    BY ForcesAssumption DEF Special
  <2>3. civ \in Nat /\ mil \in Nat
    BY <2>1, <2>2 DEF Stock
  <2>4. k \in Int /\ k <= civ \div 2
    <3>1. IsFiniteSet(four)
      <4> HIDE DEF half, room
      <4> QED
        BY FourFinite
    <3>2. four \subseteq Int /\ four # {} /\ civ \div 2 \in four
      BY <2>3 DEF Most
    <3> HIDE DEF four
    <3>3. k \in four /\ \A x \in four : k <= x
      BY <3>1, <3>2, LeastOfFinite DEF Min
    <3> QED
      BY <3>2, <3>3
  <2>5. EnlistOne(st, s, me, wanted)
           = IF st.total >= 10000 \/ (row.loyal > 70 /\ ~IsDeity(me)) \/ k <= 0 THEN st
             ELSE [w |-> PutSect(st.w, s, new), total |-> st.total + k]
    BY DEF EnlistOne
  <2> HIDE DEF k, four
  <2>6. CASE k <= 0
    BY <2>5, <2>6
  <2>7. CASE ~(k <= 0)
    <3>1. Shift(row.items, "civ", -k) \in Stock
      <4>1. row.items["civ"] + (-k) >= 0 /\ -k \in Int
        BY <2>3, <2>4, <2>7
      <4> QED
        BY <2>1, <2>2, <4>1, ShiftStock
    <3> DEFINE its == Shift(row.items, "civ", -k)
    <3>2. Shift(its, "mil", k) \in Stock
      <4>1. its["mil"] + k >= 0
        BY <2>2, <2>4, <2>7, <3>1 DEF Stock
      <4> QED
        BY <2>2, <2>4, <3>1, <4>1, ShiftStock
    <3>3. new \in SectRows(s)
      <4> DEFINE both == Shift(its, "mil", k)
      <4>1. new = [row EXCEPT !.items = both]
        BY <2>1 DEF SectRow
      <4>2. both \in Stock
        BY <3>2
      <4> HIDE DEF both
      <4> QED
        BY <2>1, <4>1, <4>2 DEF SectRow, SectRows
    <3> HIDE DEF new
    <3>4. PutSect(st.w, s, new) \in Quiet
      BY <2>1, <3>3, PutSectQuiet
    <3>5. st.total + k \in Int
      BY <2>4
    <3> HIDE DEF row
    <3> QED
      BY <2>5, <3>4, <3>5
  <2> QED
    BY <2>6, <2>7
<1> HIDE DEF V
<1>3. Enlisted(me, spec, wanted) \in V
  BY <1>1, <1>2, OwnIsFinite, EnlistedIn
<1>4. Done(Enlisted(me, spec, wanted).w, FALSE)
  BY DEF Enlist
<1> QED
  BY <1>3, <1>4 DEF V, Quietly

-----------------------------------------------------------------------------
(* demobilize, designate and the bridges. *)

LEMMA DemobilizeQuiet ==
    ASSUME Tables(World), HoldsFit(World), NEW me \in Nations, NEW spec, spec \subseteq Sectors,
           NEW amount \in Int, NEW reserve \in BOOLEAN, Demobilize(me, spec, amount, reserve)
    PROVE  Quietly
<1> DEFINE V == {st \in [w : Quiet, total : Nat, broke : BOOLEAN] : 5 * st.total <= nat[me].money}
           st0 == [w |-> World, total |-> 0, broke |-> FALSE]
<1>0. nat[me] \in NatRow /\ nat[me].money \in Nat /\ nat[me].reserve \in Nat
  BY TypedRows DEF NatRow
<1>1. st0 \in V
  <2>1. st0 \in [w : Quiet, total : Nat, broke : BOOLEAN]
    BY WorldIsQuiet
  <2>2. 5 * st0.total <= nat[me].money
    BY <1>0
  <2> QED
    BY <2>1, <2>2
<1>2. ASSUME NEW st \in V, NEW s \in Own(me, spec) PROVE DemobilizeOne(st, s, me, amount) \in V
  <2> DEFINE row == sect[s]
             civ == row.items["civ"]
             mil == row.items["mil"]
             k == Least(IF amount < 0 THEN mil - Least(-amount, mil) ELSE Least(amount, mil),
                        ITEM_MAX - civ)
             new == [row EXCEPT !.items = Shift(Shift(@, "mil", -k), "civ", k)]
  <2>0. st \in [w : Quiet, total : Nat, broke : BOOLEAN] /\ 5 * st.total <= nat[me].money
    OBVIOUS
  <2>1. s \in Sectors /\ row \in SectRow /\ row.items \in Stock
    BY OwnIsFinite, TypedRows DEF SectRow
  <2>2. "civ" \in Items /\ "mil" \in Items
    BY ForcesAssumption DEF Special
  <2>3. civ \in Nat /\ mil \in Nat
    BY <2>1, <2>2 DEF Stock
  <2>4. k \in Int /\ k <= mil
    BY <2>3 DEF Least, ITEM_MAX
  <2>5. DemobilizeOne(st, s, me, amount)
           = IF st.broke \/ (~IsDeity(me) /\ (row.effic < 60 \/ row.old_own # row.own)) \/ k <= 0 THEN st
             ELSE IF nat[me].money - 5 * (st.total + k) < 0 THEN [st EXCEPT !.broke = TRUE]
             ELSE [w |-> PutSect(st.w, s, new), total |-> st.total + k, broke |-> FALSE]
    BY DEF DemobilizeOne
  <2>6. [st EXCEPT !.broke = TRUE] \in V
    BY <2>0
  <2> HIDE DEF k
  <2>7. CASE ~(k <= 0) /\ ~(nat[me].money - 5 * (st.total + k) < 0)
    <3> DEFINE its == Shift(row.items, "mil", -k)
               both == Shift(its, "civ", k)
    <3>1. its \in Stock
      <4>1. row.items["mil"] + (-k) >= 0 /\ -k \in Int
        BY <2>3, <2>4, <2>7
      <4> QED
        BY <2>1, <2>2, <4>1, ShiftStock
    <3>2. both \in Stock
      <4> HIDE DEF its
      <4>1. its["civ"] + k >= 0
        BY <2>2, <2>4, <2>7, <3>1 DEF Stock
      <4> QED
        BY <2>2, <2>4, <3>1, <4>1, ShiftStock
    <3>3. new \in SectRows(s)
      <4>1. new = [row EXCEPT !.items = both]
        BY <2>1 DEF SectRow
      <4> HIDE DEF both
      <4> QED
        BY <2>1, <3>2, <4>1 DEF SectRow, SectRows
    <3> HIDE DEF new
    <3>4. PutSect(st.w, s, new) \in Quiet
      BY <2>0, <2>1, <3>3, PutSectQuiet
    <3>5. st.total + k \in Nat /\ 5 * (st.total + k) <= nat[me].money
      BY <1>0, <2>0, <2>4, <2>7
    <3> DEFINE st1 == [w |-> PutSect(st.w, s, new), total |-> st.total + k, broke |-> FALSE]
    <3>6. st1 \in V
      <4>1. st1 \in [w : Quiet, total : Nat, broke : BOOLEAN] /\ st1.total = st.total + k
        BY <3>4, <3>5
      <4> HIDE DEF st1
      <4> QED
        BY <3>5, <4>1
    <3> HIDE DEF V
    <3> QED
      BY <2>5, <2>6, <3>6
  <2> HIDE DEF V, row, new, civ, mil
  <2>8. CASE st.broke \/ (~IsDeity(me) /\ (row.effic < 60 \/ row.old_own # row.own)) \/ k <= 0
    BY <2>5, <2>8
  <2>9. CASE ~(st.broke \/ (~IsDeity(me) /\ (row.effic < 60 \/ row.old_own # row.own)) \/ k <= 0)
             /\ nat[me].money - 5 * (st.total + k) < 0
    BY <2>5, <2>6, <2>9
  <2> QED
    BY <2>7, <2>8, <2>9
<1> DEFINE st == Demobilized(me, spec, amount)
           new == [nat[me] EXCEPT !.money = @ - 5 * st.total,
                                  !.reserve = IF reserve THEN @ + st.total ELSE @]
<1>3. st \in V
  <2> HIDE DEF V
  <2> QED
    BY <1>1, <1>2, OwnIsFinite, DemobilizedIn
<1>4. Done(PutNat(st.w, me, new), FALSE)
  BY DEF Demobilize
<1> DEFINE total == st.total
<1>5. new \in NatRow
  <2>1. total \in Nat /\ 5 * total <= nat[me].money
    BY <1>3
  <2> HIDE DEF total, st
  <2>2. nat[me].money - 5 * total \in Nat /\ nat[me].reserve + total \in Nat
    BY <1>0, <2>1
  <2> QED
    BY <1>0, <2>2 DEF NatRow, total
<1> HIDE DEF st
<1> HIDE DEF new
<1>6. PutNat(st.w, me, new) \in Quiet
  BY <1>3, <1>5, PutNatQuiet
<1> QED
  BY <1>4, <1>6 DEF Quietly

LEMMA DesignateQuiet ==
    ASSUME Tables(World), HoldsFit(World), NEW me, NEW spec, spec \subseteq Sectors,
           NEW type \in DOMAIN SectChr, Designate(me, spec, type)
    PROVE  Quietly
<1> DEFINE new == [s \in {t \in Own(me, spec) : Designable(me, t, type)} |->
                       [sect[s] EXCEPT !.effic = 0, !.type = type]]
<1>1. type # "sea"
  BY TablesAssumption DEF Designate
<1>2. \A s \in DOMAIN new : s \in Sectors => new[s] \in SectRows(s)
  <2> SUFFICES ASSUME NEW s \in DOMAIN new, s \in Sectors PROVE new[s] \in SectRows(s)
    OBVIOUS
  <2>1. sect[s] \in SectRow /\ new[s] = Retyped(sect[s], type, 0)
    BY TypedRows DEF Retyped
  <2> HIDE DEF new
  <2>2. new[s] \in SectRow /\ new[s].type = type
    <3>1. 0 \in 0..100
      OBVIOUS
    <3>2. Retyped(sect[s], type, 0) \in SectRow /\ Retyped(sect[s], type, 0).type = type
      BY <2>1, <3>1, SectRetyped
    <3> QED
      BY <2>1, <3>2
  <2> QED
    BY <1>1, <2>2 DEF SectRows
<1>3. Done(PutSects(World, new), FALSE)
  BY DEF Designate
<1> HIDE DEF new
<1> QED
  BY <1>2, <1>3, WorldIsQuiet, PutSectsQuiet DEF Quietly

LEMMA BridgeQuiet ==
    ASSUME Tables(World), HoldsFit(World), NEW me \in Nations, NEW spec, spec \subseteq Sectors,
           NEW d \in Directions, NEW hcm \in Nat, NEW price \in Nat, NEW type \in {"span", "tower"},
           nat[me].money >= price,
           NEW sources \in SUBSET Own(me, spec), \A s \in sources : sect[s].items["hcm"] >= hcm
    PROVE  PutNat(Bridged(sources, d, hcm, type), me, [nat[me] EXCEPT !.money = @ - price]) \in Quiet
<1> DEFINE w1 == Bridged(sources, d, hcm, type)
           paid == [nat[me] EXCEPT !.money = @ - price]
<1>2. type \in DOMAIN SectChr /\ type # "sea"
  BY TablesAssumption
<1>3. "hcm" \in Items
  BY ForcesAssumption DEF Special
<1>4. ASSUME NEW w \in Quiet, NEW s \in sources PROVE BridgeOne(w, s, d, hcm, type) \in Quiet
  <2> DEFINE to == Step(s, d)
             new == [sect[to] EXCEPT !.type = type, !.effic = 10, !.mobil = 0,
                                     !.own = sect[s].own, !.old_own = sect[s].own]
             its == Shift(sect[s].items, "hcm", -hcm)
             less == [sect[s] EXCEPT !.items = Shift(@, "hcm", -hcm)]
  <2>1. s \in Sectors /\ sect[s].items["hcm"] >= hcm
    BY OwnIsFinite
  <2>2. to \in Sectors
    BY <2>1, StepIsSector
  <2>3. sect[s] \in SectRow /\ sect[s].items \in Stock /\ sect[to] \in SectRow
    BY <2>1, <2>2, TypedRows DEF SectRow
  <2> HIDE DEF to
  <2>4. new \in SectRows(to)
    <3> DEFINE owner == sect[s].own
               one == Retyped(sect[to], type, 10)
               two == Owned(one, owner, owner)
    <3>1. owner \in Nations
      BY <2>3 DEF SectRow
    <3>2. one \in SectRow /\ one.type = type
      <4>1. 10 \in 0..100
        OBVIOUS
      <4> QED
        BY <1>2, <2>3, <4>1, SectRetyped
    <3>3. new = [two EXCEPT !.mobil = 0]
      BY <2>3 DEF SectRow, Retyped, Owned
    <3> HIDE DEF one, owner, new
    <3>4. two \in SectRow /\ two.type = type
      BY <3>1, <3>2, SectOwned
    <3> HIDE DEF two
    <3>5. new \in SectRow /\ new.type = type
      BY <3>3, <3>4 DEF SectRow
    <3> QED
      BY <1>2, <3>5 DEF SectRows
  <2> HIDE DEF new
  <2>5. its \in Stock
    <3>1. sect[s].items["hcm"] + (-hcm) >= 0 /\ -hcm \in Int
      BY <1>3, <2>1, <2>3 DEF Stock
    <3> QED
      BY <1>3, <2>3, <3>1, ShiftStock
  <2>6. less \in SectRows(s)
    BY <2>3, <2>5 DEF SectRow, SectRows
  <2> HIDE DEF less
  <2>7. PutSect(w, to, new) \in Quiet
    BY <2>2, <2>4, PutSectQuiet
  <2>8. PutSect(PutSect(w, to, new), s, less) \in Quiet
    BY <2>1, <2>6, <2>7, PutSectQuiet
  <2> QED
    BY <2>8 DEF BridgeOne, to, new, less
<1>5. IsFiniteSet(sources) /\ sources \subseteq Sectors
  <2>1. sources \in SUBSET Sectors
    BY OwnIsFinite
  <2> QED
    BY <2>1, SectorsFinite, FS_Subset
<1>6. w1 \in Quiet
  BY <1>4, <1>5, WorldIsQuiet, BridgedIn
<1>7. paid \in NatRow
  BY TypedRows DEF NatRow
<1> HIDE DEF w1, paid
<1>8. PutNat(w1, me, paid) \in Quiet
  BY <1>6, <1>7, PutNatQuiet
<1> QED
  BY <1>8 DEF w1, paid

LEMMA SpanQuiet ==
    ASSUME Tables(World), HoldsFit(World), NEW me \in Nations, NEW spec, spec \subseteq Sectors,
           NEW d \in Directions, BuildBridgeSpan(me, spec, d)
    PROVE  Quietly
<1>1. PICK hcm \in Nat, price \in Nat : hcm = 100 /\ price = 1000
  OBVIOUS
<1> DEFINE from == {"bridge head", "tower"}
           fitting == {t \in Sectors : HasBridgeSupport(t)}
           sources == {s \in Own(me, spec) : /\ sect[s].type \in from \/ IsDeity(me)
                                             /\ sect[s].items["hcm"] >= hcm
                                             /\ sect[Step(s, d)].type = "sea"
                                             /\ Step(s, d) \in fitting \/ IsDeity(me)}
           w == PutNat(Bridged(sources, d, hcm, "span"), me, [nat[me] EXCEPT !.money = @ - price])
<1>2. Bridge(me, spec, d, hcm, price, "span", from, fitting)
  BY <1>1 DEF BuildBridgeSpan
<1> HIDE DEF from, fitting
<1>3. nat[me].money >= price /\ Done(w, FALSE)
  BY <1>2 DEF Bridge
<1>4. sources \in SUBSET Own(me, spec) /\ \A s \in sources : sect[s].items["hcm"] >= hcm
  OBVIOUS
<1> HIDE DEF sources
<1>5. w \in Quiet
  BY <1>3, <1>4, BridgeQuiet
<1> HIDE DEF w
<1> QED
  BY <1>3, <1>5 DEF Quietly

LEMMA TowerQuiet ==
    ASSUME Tables(World), HoldsFit(World), NEW me \in Nations, NEW spec, spec \subseteq Sectors,
           NEW d \in Directions, BuildBridgeTower(me, spec, d)
    PROVE  Quietly
<1>1. PICK hcm \in Nat, price \in Nat : hcm = 300 /\ price = 3000
  OBVIOUS
<1> DEFINE from == {"span"}
           fitting == {t \in Sectors : ~NextToLand(t)}
           sources == {s \in Own(me, spec) : /\ sect[s].type \in from \/ IsDeity(me)
                                             /\ sect[s].items["hcm"] >= hcm
                                             /\ sect[Step(s, d)].type = "sea"
                                             /\ Step(s, d) \in fitting \/ IsDeity(me)}
           w == PutNat(Bridged(sources, d, hcm, "tower"), me, [nat[me] EXCEPT !.money = @ - price])
<1>2. Bridge(me, spec, d, hcm, price, "tower", from, fitting)
  BY <1>1 DEF BuildBridgeTower
<1> HIDE DEF from, fitting
<1>3. nat[me].money >= price /\ Done(w, FALSE)
  BY <1>2 DEF Bridge
<1>4. sources \in SUBSET Own(me, spec) /\ \A s \in sources : sect[s].items["hcm"] >= hcm
  OBVIOUS
<1> HIDE DEF sources
<1>5. w \in Quiet
  BY <1>3, <1>4, BridgeQuiet
<1> HIDE DEF w
<1> QED
  BY <1>3, <1>5 DEF Quietly

-----------------------------------------------------------------------------
(* load and unload. *)

\* A ship with other goods.
Laded(row, items) == [row EXCEPT !.items = items]

LEMMA LadedHull ==
    ASSUME NEW row \in HullRow, NEW items \in Stock,
           \A i \in Items : items[i] <= ShipChr[row.type].cap[i]
    PROVE  /\ Laded(row, items) \in HullRow
           /\ Laded(row, items).at = row.at /\ Laded(row, items).type = row.type
           /\ Laded(row, items).items = items /\ Laded(row, items).effic = row.effic
<1>1. row \in ShipRow
  BY DEF HullRow
<1>2. /\ Laded(row, items) \in ShipRow
      /\ Laded(row, items).at = row.at /\ Laded(row, items).type = row.type
      /\ Laded(row, items).items = items /\ Laded(row, items).effic = row.effic
  BY <1>1 DEF Laded, ShipRow
<1> QED
  BY <1>2 DEF HullRow, Fits

LEMMA HullFits ==
    ASSUME NEW row \in HullRow
    PROVE  /\ row.type \in DOMAIN ShipChr /\ row.items \in Stock /\ row.effic \in 0..100
           /\ row.own \in Nations /\ row.at \in Sectors /\ row.mobil \in -100..127 /\ row.tech \in Nat
           /\ \A i \in Items : /\ row.items[i] \in Nat
                               /\ ShipChr[row.type].cap[i] \in Nat
                               /\ row.items[i] <= ShipChr[row.type].cap[i]
<1>1. row \in ShipRow /\ Fits(row)
  BY DEF HullRow
<1>2. /\ row.type \in DOMAIN ShipChr /\ row.items \in Stock /\ row.effic \in 0..100
      /\ row.own \in Nations /\ row.at \in Sectors /\ row.mobil \in -100..127 /\ row.tech \in Nat
  BY <1>1 DEF ShipRow
<1>3. ShipChr[row.type].cap \in [Items -> Nat]
  BY <1>2, TablesAssumption
<1> QED
  BY <1>1, <1>2, <1>3 DEF Fits, Stock

\* One kind of goods more, or less, as there is room.
LEMMA ShiftedHull ==
    ASSUME NEW row \in HullRow, NEW i \in Items, NEW n \in Int,
           row.items[i] + n >= 0, row.items[i] + n <= ShipChr[row.type].cap[i]
    PROVE  /\ Laded(row, Shift(row.items, i, n)) \in HullRow
           /\ Laded(row, Shift(row.items, i, n)).at = row.at
           /\ Laded(row, Shift(row.items, i, n)).type = row.type
           /\ Laded(row, Shift(row.items, i, n)).effic = row.effic
<1> DEFINE its == Shift(row.items, i, n)
<1>1. its \in Stock /\ its[i] = row.items[i] + n /\ \A j \in Items \ {i} : its[j] = row.items[j]
  BY HullFits, ShiftStock
<1> HIDE DEF its
<1>2. \A j \in Items : its[j] <= ShipChr[row.type].cap[j]
  BY <1>1, HullFits
<1>3. /\ Laded(row, its) \in HullRow
      /\ Laded(row, its).at = row.at /\ Laded(row, its).type = row.type
      /\ Laded(row, its).effic = row.effic
  BY <1>1, <1>2, LadedHull
<1> QED
  BY <1>3 DEF its

\* The ship that a number belongs to.
LEMMA ShipIsHull ==
    ASSUME Tables(World), HoldsFit(World), NEW s \in DOMAIN ship
    PROVE  ship[s] \in HullRow /\ ship[s] \in ShipRows(s)
<1>1. World \in Quiet
  BY WorldIsQuiet
<1>2. World.ship[s] \in ShipRows(s)
  BY <1>1 DEF Quiet
<1>3. World.ship[s] = ship[s]
  BY DEF World
<1> QED
  BY <1>2, <1>3 DEF ShipRows, HitRows

LEMMA MatchingFinite ==
    ASSUME NEW row, IsFiniteSet(DOMAIN row), DOMAIN row \subseteq Int, NEW me,
           NEW spec, spec \subseteq DOMAIN row
    PROVE  /\ IsFiniteSet(Matching(row, me, spec))
           /\ Matching(row, me, spec) \subseteq Int
           /\ Matching(row, me, spec) \subseteq DOMAIN row
<1>1. Matching(row, me, spec) \in SUBSET (DOMAIN row)
  BY DEF Matching
<1> QED
  BY <1>1, FS_Subset

LEMMA LoadQuiet ==
    ASSUME Tables(World), HoldsFit(World), NEW me \in Nations, NEW i \in Items, NEW amount \in Int,
           NEW spec, spec \subseteq DOMAIN ship, Load(me, i, amount, spec)
    PROVE  Quietly
<1> DEFINE docked == {s \in Matching(ship, me, spec) : InHarbor(me, s)}
           moving == {s \in docked : Cargo(s, i, amount) # 0}
           again == \E s, t \in moving : (amount > 0 /\ s # t /\ ship[s].at = ship[t].at)
                                         \/ ship[s].effic = 0
<1>1. Done(LoadAll(docked, i, amount), again)
  BY DEF Load
<1>2. again \in BOOLEAN
  OBVIOUS
<1>3. IsFiniteSet(docked) /\ docked \subseteq Int /\ docked \subseteq DOMAIN ship
  <2>1. /\ IsFiniteSet(Matching(ship, me, spec)) /\ Matching(ship, me, spec) \subseteq Int
        /\ Matching(ship, me, spec) \subseteq DOMAIN ship
    BY TypedRows, MatchingFinite
  <2>2. docked \in SUBSET Matching(ship, me, spec)
    OBVIOUS
  <2> HIDE DEF docked
  <2> QED
    BY <2>1, <2>2, FS_Subset
<1> HIDE DEF again, moving, docked
<1>4. ASSUME NEW w \in Quiet, NEW s \in docked PROVE LoadOne(w, s, i, amount) \in Quiet
  <2> DEFINE at == ship[s].at
             n == Cargo(s, i, amount)
             have == ship[s].items[i]
             stock == sect[at].items[i]
             cap == ShipChr[ship[s].type].cap[i]
             hull == [ship[s] EXCEPT !.items = Shift(@, i, n)]
             row == [sect[at] EXCEPT !.items = Shift(@, i, -n)]
  <2>1. ship[s] \in HullRow /\ s \in DOMAIN ship
    BY <1>3, ShipIsHull
  <2>2. have \in Nat /\ cap \in Nat /\ have <= cap /\ at \in Sectors
    BY <2>1, HullFits
  <2>3. sect[at] \in SectRow /\ sect[at].items \in Stock
    BY <2>2, TypedRows DEF SectRow
  <2>4. stock \in Nat
    BY <2>3 DEF Stock
  <2>5. n \in Int /\ have + n >= 0 /\ have + n <= cap /\ stock + (-n) >= 0
    BY <2>2, <2>4 DEF Cargo, Least, Most
  <2> HIDE DEF n
  <2>6. hull \in ShipRows(s)
    <3>1. hull = Laded(ship[s], Shift(ship[s].items, i, n))
      BY DEF Laded
    <3> HIDE DEF hull
    <3> QED
      BY <2>1, <2>5, <3>1, ShiftedHull DEF ShipRows, HitRows
  <2>7. row \in SectRows(at)
    <3> DEFINE its == Shift(sect[at].items, i, -n)
    <3>1. its \in Stock
      <4>1. -n \in Int
        BY <2>5
      <4> QED
        BY <2>3, <2>5, <4>1, ShiftStock
    <3>2. row = [sect[at] EXCEPT !.items = its]
      OBVIOUS
    <3> HIDE DEF its, row
    <3> QED
      BY <2>3, <3>1, <3>2 DEF SectRow, SectRows
  <2>8. LoadOne(w, s, i, amount) = IF n = 0 THEN w ELSE PutSect(PutShip(w, s, hull), at, row)
    BY DEF LoadOne, n
  <2> HIDE DEF hull, row
  <2>9. PutShip(w, s, hull) \in Quiet
    BY <2>1, <2>6, PutShipQuiet
  <2> HIDE DEF at
  <2>10. PutSect(PutShip(w, s, hull), at, row) \in Quiet
    BY <2>2, <2>7, <2>9, PutSectQuiet
  <2> QED
    BY <2>8, <2>10
<1>5. LoadAll(docked, i, amount) \in Quiet
  BY <1>3, <1>4, WorldIsQuiet, LoadAllIn
<1> QED
  BY <1>1, <1>2, <1>5 DEF Quietly

\* A ship's row of the right kind, wherever it is put.
LEMMA WithShipFought ==
    ASSUME NEW w \in Fought, NEW s \in DOMAIN ship, NEW row \in HitRows(s)
    PROVE  [w EXCEPT !.ship[s] = row] \in Fought
<1> DEFINE new == [w EXCEPT !.ship[s] = row]
<1>1. w \in Now /\ \A t \in DOMAIN ship : w.ship[t] \in HitRows(t)
  BY DEF Fought
<1>2. row \in ShipRow
  BY DEF HitRows, HullRow
<1>3. /\ new.plane = w.plane /\ new.sect = w.sect
      /\ new.ship = [w.ship EXCEPT ![s] = row]
  BY <1>1 DEF Now, Worlds
<1>4. new \in Now
  BY <1>1, <1>2 DEF Now, Worlds
<1>5. \A t \in DOMAIN ship : new.ship[t] \in HitRows(t)
  BY <1>1, <1>3 DEF Now, Worlds
<1> HIDE DEF new
<1>6. new \in Fought
  BY <1>3, <1>4, <1>5 DEF Fought
<1> QED
  BY <1>6 DEF new

LEMMA WithShipQuiet ==
    ASSUME NEW w \in Quiet, NEW s \in DOMAIN ship, NEW row \in ShipRows(s)
    PROVE  [w EXCEPT !.ship[s] = row] \in Quiet
<1> DEFINE new == [w EXCEPT !.ship[s] = row]
<1>1. w \in Fought /\ w \in Now /\ \A t \in DOMAIN ship : w.ship[t] \in ShipRows(t)
  BY DEF Quiet, Fought
<1>2. new \in Fought
  BY <1>1, WithShipFought DEF ShipRows
<1>3. new.ship = [w.ship EXCEPT ![s] = row]
  BY <1>1 DEF Now, Worlds
<1>4. \A t \in DOMAIN ship : new.ship[t] \in ShipRows(t)
  BY <1>1, <1>3 DEF Now, Worlds
<1> HIDE DEF new
<1>5. new \in Quiet
  BY <1>2, <1>4 DEF Quiet
<1> QED
  BY <1>5 DEF new

LEMMA QuietShip ==
    ASSUME NEW w \in Quiet, NEW s \in DOMAIN ship
    PROVE  w.ship[s] \in ShipRows(s) /\ w.ship[s] \in HullRow
  BY DEF Quiet, ShipRows, HitRows

-----------------------------------------------------------------------------
(* tend. *)

LEMMA TendedQuiet ==
    ASSUME NEW w \in Quiet, NEW me \in Nations, NEW i \in Items, NEW amount \in Int,
           NEW tender \in DOMAIN ship, NEW target \in DOMAIN ship
    PROVE  Tended(w, me, i, amount, tender, target) \in Quiet
<1> DEFINE giver == IF amount > 0 THEN tender ELSE target
           receiver == IF amount > 0 THEN target ELSE tender
           from == w.ship[giver]
           to == w.ship[receiver]
           room == Most(ShipChr[to.type].cap[i] - to.items[i], 0)
           n == Least(Least(from.items[i], IF amount > 0 THEN amount ELSE -amount), room)
           both == [w EXCEPT !.ship[giver].items[i] = @ - n, !.ship[receiver].items[i] = @ + n]
           poor == Laded(from, Shift(from.items, i, -n))
           rich == Laded(to, Shift(to.items, i, n))
           one == [w EXCEPT !.ship[giver] = poor]
           two == [one EXCEPT !.ship[receiver] = rich]
<1>1. Tended(w, me, i, amount, tender, target) \in {w, both}
      /\ (Tended(w, me, i, amount, tender, target) = both \/ Tended(w, me, i, amount, tender, target) = w)
      /\ (Tended(w, me, i, amount, tender, target) # w => n > 0 /\ target # tender)
  BY DEF Tended
<1>2. CASE Tended(w, me, i, amount, tender, target) = w
  BY <1>2
<1>3. CASE Tended(w, me, i, amount, tender, target) # w
  <2>1. n > 0 /\ giver # receiver /\ Tended(w, me, i, amount, tender, target) = both
    BY <1>1, <1>3
  <2>2. giver \in DOMAIN ship /\ receiver \in DOMAIN ship
    OBVIOUS
  <2> HIDE DEF giver, receiver
  <2>3. /\ from \in ShipRows(giver) /\ from \in HullRow
        /\ to \in ShipRows(receiver) /\ to \in HullRow
    BY <2>2, QuietShip
  <2>4. /\ from.items[i] \in Nat /\ from.items[i] <= ShipChr[from.type].cap[i]
        /\ to.items[i] \in Nat /\ ShipChr[to.type].cap[i] \in Nat /\ ShipChr[from.type].cap[i] \in Nat
        /\ to.items[i] <= ShipChr[to.type].cap[i]
    BY <2>3, HullFits
  <2>5. n \in Int /\ n <= from.items[i] /\ to.items[i] + n <= ShipChr[to.type].cap[i]
    BY <2>4 DEF Least, Most
  <2>6. both = two
    <3>1. w \in Now
      BY DEF Quiet, Fought
    <3> HIDE DEF n
    <3> QED
      BY <2>1, <2>2, <3>1 DEF Now, Worlds, Laded, Shift
  <2> HIDE DEF n
  <2>7. poor \in ShipRows(giver)
    <3>1. from.items[i] + (-n) >= 0 /\ from.items[i] + (-n) <= ShipChr[from.type].cap[i] /\ -n \in Int
      BY <2>1, <2>4, <2>5
    <3>2. from.at = ship[giver].at /\ from.type = ship[giver].type
          /\ from.effic \in {ship[giver].effic, 0}
      BY <2>3 DEF ShipRows, HitRows
    <3> HIDE DEF from
    <3> QED
      BY <2>3, <3>1, <3>2, ShiftedHull DEF ShipRows, HitRows
  <2>8. rich \in ShipRows(receiver)
    <3>1. to.items[i] + n >= 0 /\ to.items[i] + n <= ShipChr[to.type].cap[i]
      BY <2>1, <2>4, <2>5
    <3>2. to.at = ship[receiver].at /\ to.type = ship[receiver].type
          /\ to.effic \in {ship[receiver].effic, 0}
      BY <2>3 DEF ShipRows, HitRows
    <3> HIDE DEF to
    <3> QED
      BY <2>3, <2>5, <3>1, <3>2, ShiftedHull DEF ShipRows, HitRows
  <2> HIDE DEF poor, rich
  <2>9. one \in Quiet
    BY <2>2, <2>7, WithShipQuiet
  <2> HIDE DEF one
  <2>10. two \in Quiet
    BY <2>2, <2>8, <2>9, WithShipQuiet
  <2> HIDE DEF two, both
  <2> QED
    BY <2>1, <2>6, <2>10
<1> QED
  BY <1>2, <1>3

LEMMA TendQuiet ==
    ASSUME Tables(World), HoldsFit(World), NEW me \in Nations, NEW i \in Items, NEW amount \in Int,
           NEW tenders, tenders \subseteq DOMAIN ship, NEW targets, targets \subseteq DOMAIN ship,
           Tend(me, i, tenders, amount, targets)
    PROVE  Quietly
<1> DEFINE mine == Matching(ship, me, tenders)
           again == \E s \in mine : ship[s].effic = 0
           w == AllTend(me, i, mine, amount, targets)
<1>1. Done(Saved(w, mine \cup targets), again)
  BY DEF Tend
<1>2. again \in BOOLEAN
  OBVIOUS
<1>3. /\ IsFiniteSet(mine) /\ mine \subseteq Int /\ mine \subseteq DOMAIN ship
      /\ IsFiniteSet(targets) /\ targets \subseteq Int
  BY TypedRows, MatchingFinite, FS_Subset
<1> HIDE DEF again, mine
<1>4. ASSUME NEW v \in Quiet, NEW t \in mine PROVE TendAll(v, me, i, amount, t, targets) \in Quiet
  <2>1. t \in DOMAIN ship
    BY <1>3
  <2>2. \A x \in Quiet : \A y \in targets : Tended(x, me, i, amount, t, y) \in Quiet
    BY <2>1, TendedQuiet
  <2> QED
    BY <1>3, <2>2, TendAllIn
<1>5. w \in Quiet
  BY <1>3, <1>4, WorldIsQuiet, AllTendIn
<1> HIDE DEF w
<1>6. Saved(w, mine \cup targets) \in Quiet
  BY <1>5, SavedQuiet
<1> QED
  BY <1>1, <1>2, <1>6 DEF Quietly

\* Strengths and losses are numbers.
LEMMA LossesNat ==
    ASSUME NEW mil \in Nat, NEW tech \in Nat, NEW effic \in Nat, NEW luck \in 0..99
    PROVE  /\ Strength(mil, tech, effic) \in Nat
           /\ Losses(Strength(mil, tech, effic), luck) \in Nat
<1> DEFINE a == mil * (100 + tech)
<1>1. a \in Nat
  OBVIOUS
<1>2. a * effic \in Nat
  <2> HIDE DEF a
  <2> QED
    BY <1>1
<1>3. Strength(mil, tech, effic) = a * effic
  BY DEF Strength
<1> DEFINE str == Strength(mil, tech, effic)
           r == Rolled(luck)
<1>4. str \in Nat
  BY <1>2, <1>3
<1>5. r \in Nat
  BY DEF Rolled, Draw
<1> HIDE DEF str, r, a
<1>6. str * r \in Nat
  BY <1>4, <1>5
<1> DEFINE p == str * r
           m == 1000000
<1>7. Losses(str, luck) = p \div m
  BY SMT DEF Losses, r
<1>8. m \in Nat \ {0}
  BY SMT
<1> HIDE DEF p, m
<1>9. p \div m \in Nat
  BY <1>6, <1>8, DivNat DEF p
<1> QED
  BY <1>4, <1>7, <1>9 DEF str

-----------------------------------------------------------------------------
(* board; what scuttle and scrap leave. *)

\* The row of another owner.
Taken(row, own) == [row EXCEPT !.own = own]

LEMMA TakenHull ==
    ASSUME NEW row \in HullRow, NEW own \in Nations
    PROVE  /\ Taken(row, own) \in HullRow
           /\ Taken(row, own).at = row.at /\ Taken(row, own).type = row.type
           /\ Taken(row, own).items = row.items /\ Taken(row, own).effic = row.effic
<1>1. row \in ShipRow /\ Fits(row)
  BY DEF HullRow
<1>2. /\ Taken(row, own) \in ShipRow
      /\ Taken(row, own).at = row.at /\ Taken(row, own).type = row.type
      /\ Taken(row, own).items = row.items /\ Taken(row, own).effic = row.effic
  BY <1>1 DEF Taken, ShipRow
<1> QED
  BY <1>1, <1>2 DEF HullRow, Fits

LEMMA BoardQuiet ==
    ASSUME Tables(World), HoldsFit(World), NEW me \in Nations, NEW victim \in DOMAIN ship,
           NEW boarder \in DOMAIN ship, NEW asked \in Int, NEW luck \in 0..99, NEW back \in 0..99,
           Board(me, victim, boarder, asked, luck, back)
    PROVE  Quietly
<1> DEFINE v == ship[victim]
           b == ship[boarder]
           vmil == v.items["mil"]
           bmil == b.items["mil"]
           vcap == ShipChr[v.type].cap["mil"]
           bcap == ShipChr[b.type].cap["mil"]
           mil == Most(Least(asked, bmil), 0)
           att == Strength(mil, Tech[me], b.effic)
           def == Strength(vmil, IF v.own = 0 THEN 0 ELSE Tech[v.own], v.effic)
           attLost == IF vmil <= 0 THEN 0 ELSE Losses(def, luck)
           defLost == IF vmil <= 0 THEN 0 ELSE Losses(att, back)
           wins == vmil <= 0 \/ Prevails(att, attLost, def, defLost)
           dead == Least(attLost, mil)
           crew == IF wins THEN Least(mil - dead, 1) ELSE 0
           lost == -dead - crew
           fell == -Least(defLost, vmil)
           b1 == [b EXCEPT !.items = Shift(@, "mil", lost)]
           won == [v EXCEPT !.items["mil"] = crew, !.own = me]
           held == [v EXCEPT !.items = Shift(@, "mil", fell)]
           v1 == IF wins THEN won ELSE held
<1>1. Done(PutShip(PutShip(World, boarder, b1), victim, v1), FALSE)
  BY DEF Board
<1>2. "mil" \in Items
  BY ForcesAssumption DEF Special
<1>3. v \in HullRow /\ b \in HullRow
  BY ShipIsHull
<1>4. /\ vmil \in Nat /\ bmil \in Nat /\ vcap \in Nat /\ bcap \in Nat
      /\ vmil <= vcap /\ bmil <= bcap /\ v.effic \in Nat /\ b.effic \in Nat /\ v.own \in Nations
      /\ v.type \in DOMAIN ShipChr
  BY <1>2, <1>3, HullFits
<1>5. vcap >= 1
  BY <1>4, TablesAssumption
<1>6. mil \in Nat /\ mil <= bmil
  BY <1>4 DEF Most, Least
<1>7. Tech \in [Nations -> Nat]
  BY ForcesAssumption
<1>8. attLost \in Nat /\ defLost \in Nat
  <2> DEFINE tech == IF v.own = 0 THEN 0 ELSE Tech[v.own]
  <2>1. tech \in Nat /\ Tech[me] \in Nat
    BY <1>4, <1>7
  <2> HIDE DEF tech, mil, v, b, vmil
  <2>2. Losses(Strength(vmil, tech, v.effic), luck) \in Nat
    BY <1>4, <2>1, LossesNat
  <2>3. Losses(Strength(mil, Tech[me], b.effic), back) \in Nat
    BY <1>4, <1>6, <2>1, LossesNat
  <2> QED
    BY <2>2, <2>3 DEF tech
<1> HIDE DEF attLost, defLost, att, def, wins
<1>9. dead \in Nat /\ dead <= mil
  BY <1>6, <1>8 DEF Least
<1> HIDE DEF dead, mil
<1>10. crew \in 0..1 /\ dead + crew <= mil
  BY <1>6, <1>9 DEF Least
<1> HIDE DEF crew
<1>11. lost \in Int /\ bmil + lost >= 0 /\ bmil + lost <= bcap
  BY <1>4, <1>6, <1>9, <1>10
<1>12. fell \in Int /\ vmil + fell >= 0 /\ vmil + fell <= vcap
  BY <1>4, <1>8 DEF Least
<1> HIDE DEF lost, fell
<1>13. b1 \in ShipRows(boarder)
  <2>1. b1 = Laded(b, Shift(b.items, "mil", lost))
    BY DEF Laded
  <2>2. /\ Laded(b, Shift(b.items, "mil", lost)) \in HullRow
        /\ Laded(b, Shift(b.items, "mil", lost)).at = b.at
        /\ Laded(b, Shift(b.items, "mil", lost)).type = b.type
        /\ Laded(b, Shift(b.items, "mil", lost)).effic = b.effic
    BY <1>2, <1>3, <1>11, ShiftedHull
  <2> HIDE DEF b1
  <2> QED
    BY <2>1, <2>2 DEF ShipRows, HitRows
<1>14. held \in ShipRows(victim)
  <2>1. held = Laded(v, Shift(v.items, "mil", fell))
    BY DEF Laded
  <2>2. /\ Laded(v, Shift(v.items, "mil", fell)) \in HullRow
        /\ Laded(v, Shift(v.items, "mil", fell)).at = v.at
        /\ Laded(v, Shift(v.items, "mil", fell)).type = v.type
        /\ Laded(v, Shift(v.items, "mil", fell)).effic = v.effic
    BY <1>2, <1>3, <1>12, ShiftedHull
  <2> HIDE DEF held
  <2> QED
    BY <2>1, <2>2 DEF ShipRows, HitRows
<1>15. won \in ShipRows(victim)
  <2> DEFINE n == crew - vmil
             one == Laded(v, Shift(v.items, "mil", n))
  <2>1. n \in Int /\ vmil + n = crew /\ vmil + n >= 0 /\ vmil + n <= vcap
    BY <1>4, <1>5, <1>10
  <2>2. won = Taken(one, me)
    <3>1. v.items \in Stock /\ v \in ShipRow
      BY <1>3, HullFits DEF HullRow
    <3> HIDE DEF n
    <3> QED
      BY <1>2, <2>1, <3>1 DEF Laded, Shift, Taken, ShipRow, Stock
  <2> HIDE DEF n
  <2>3. one \in HullRow /\ one.at = v.at /\ one.type = v.type /\ one.effic = v.effic
    BY <1>2, <1>3, <2>1, ShiftedHull
  <2> HIDE DEF one, won
  <2>4. won \in HullRow /\ won.at = v.at /\ won.type = v.type /\ won.effic = v.effic
    BY <2>2, <2>3, TakenHull
  <2> QED
    BY <2>4 DEF ShipRows, HitRows
<1>16. v1 \in ShipRows(victim)
  BY <1>14, <1>15
<1> HIDE DEF v1, b1
<1>17. PutShip(World, boarder, b1) \in Quiet
  BY <1>13, WorldIsQuiet, PutShipQuiet
<1>18. PutShip(PutShip(World, boarder, b1), victim, v1) \in Quiet
  BY <1>16, <1>17, PutShipQuiet
<1> QED
  BY <1>1, <1>18 DEF Quietly

LEMMA DroppedStock ==
    ASSUME NEW items \in Stock, NEW cargo \in Stock
    PROVE  Drop(items, cargo) \in Stock
<1>1. \A i \in Items : items[i] \in Nat /\ cargo[i] \in Nat
  BY DEF Stock
<1> QED
  BY <1>1 DEF Drop, Most, Stock

LEMMA SpillQuiet ==
    ASSUME NEW w \in Quiet, NEW row, row.at \in Sectors, row.items \in Stock
    PROVE  Spill(w, row) \in Quiet /\ Spilled(w, row) \in Quiet
<1> DEFINE at == w.sect[row.at]
           new == [at EXCEPT !.items = Drop(@, row.items)]
           its == Drop(at.items, row.items)
<1>1. at \in SectRow /\ (at.type = "sea" => sect[row.at].type = "sea")
  BY FoughtRows, QuietIsFought
<1>2. its \in Stock
  <2>1. at.items \in Stock
    BY <1>1 DEF SectRow
  <2> HIDE DEF at
  <2> QED
    BY <2>1, DroppedStock
<1>3. new = [at EXCEPT !.items = its]
  OBVIOUS
<1>4. Spill(w, row) = (IF at.own = row.own THEN PutSect(w, row.at, new) ELSE w)
      /\ Spilled(w, row) = PutSect(w, row.at, new)
  BY DEF Spill, Spilled
<1> HIDE DEF its, new, at
<1>5. new \in SectRows(row.at)
  BY <1>1, <1>2, <1>3 DEF SectRow, SectRows
<1>6. PutSect(w, row.at, new) \in Quiet
  BY <1>5, PutSectQuiet
<1> QED
  BY <1>4, <1>6

LEMMA SalvagedQuiet ==
    ASSUME NEW w \in Quiet, NEW row, row.at \in Sectors, row.effic \in 0..100,
           NEW chr, chr.lcm \in Nat, chr.hcm \in Nat
    PROVE  Salvaged(w, row, chr) \in Quiet
<1> DEFINE at == w.sect[row.at]
           new == [at EXCEPT !.items = Materials(@, chr, row.effic)]
           its == Materials(at.items, chr, row.effic)
<1>1. at \in SectRow /\ (at.type = "sea" => sect[row.at].type = "sea")
  BY FoughtRows, QuietIsFought
<1>2. its \in Stock
  <2> DEFINE l == Recovered(chr.lcm, row.effic)
             h == Recovered(chr.hcm, row.effic)
             one == Shift(at.items, "lcm", l)
  <2>1. l \in Nat /\ h \in Nat
    <3>1. ASSUME NEW n \in Nat PROVE Recovered(n, row.effic) \in Nat
      <4> DEFINE p == 2 * n * row.effic
      <4>1. p \in Nat
        BY <3>1
      <4> HIDE DEF p
      <4>2. p \div 300 \in Nat
        BY <4>1
      <4> QED
        BY <4>2 DEF Recovered, p
    <3> QED
      BY <3>1
  <2>2. "lcm" \in Items /\ "hcm" \in Items
    BY ForcesAssumption DEF Special
  <2>3. at.items \in Stock
    BY <1>1 DEF SectRow
  <2> HIDE DEF l, h, at
  <2>4. one \in Stock
    <3>1. at.items["lcm"] + l >= 0 /\ l \in Int
      BY <2>1, <2>2, <2>3 DEF Stock
    <3> QED
      BY <2>2, <2>3, <3>1, ShiftStock
  <2> HIDE DEF one
  <2>5. Shift(one, "hcm", h) \in Stock
    <3>1. one["hcm"] + h >= 0 /\ h \in Int
      BY <2>1, <2>2, <2>4 DEF Stock
    <3> QED
      BY <2>2, <2>4, <3>1, ShiftStock
  <2> QED
    BY <2>5 DEF Materials, one, l, h
<1>3. new = [at EXCEPT !.items = its]
  OBVIOUS
<1>4. Salvaged(w, row, chr) = PutSect(w, row.at, new)
  BY DEF Salvaged
<1> HIDE DEF its, new, at
<1>5. new \in SectRows(row.at)
  BY <1>1, <1>2, <1>3 DEF SectRow, SectRows
<1>6. PutSect(w, row.at, new) \in Quiet
  BY <1>5, PutSectQuiet
<1> QED
  BY <1>4, <1>6

-----------------------------------------------------------------------------
(* scuttle, scrap. *)

LEMMA WreckHull ==
    ASSUME NEW row \in HullRow
    PROVE  /\ Wreck(row) \in HullRow /\ Wreck(row).at = row.at /\ Wreck(row).type = row.type
           /\ Wreck(row).effic = 0
<1>1. row \in ShipRow /\ Fits(row)
  BY DEF HullRow
<1>2. /\ Wreck(row) \in ShipRow
      /\ Wreck(row).at = row.at /\ Wreck(row).type = row.type /\ Wreck(row).items = row.items
      /\ Wreck(row).effic = 0
  BY <1>1 DEF Wreck, ShipRow
<1> QED
  BY <1>1, <1>2 DEF HullRow, Fits

LEMMA WreckPlane ==
    ASSUME NEW p \in DOMAIN plane, plane[p] \in PlaneRow(DOMAIN ship)
    PROVE  Wreck(plane[p]) \in PlaneRows(p)
  BY DEF Wreck, PlaneRow, PlaneRows

LEMMA WreckLand ==
    ASSUME NEW row \in LandRow(DOMAIN ship)
    PROVE  Wreck(row) \in LandRow(DOMAIN ship)
  BY DEF Wreck, LandRow

LEMMA LandFields ==
    ASSUME NEW row \in LandRow(DOMAIN ship)
    PROVE  /\ row.own \in Nations /\ row.at \in Sectors /\ row.type \in DOMAIN LandChr
           /\ row.effic \in 0..100 /\ row.mobil \in -128..127 /\ row.tech \in Nat
           /\ row.ship \in DOMAIN ship \cup {None} /\ row.items \in Stock
  BY DEF LandRow

LEMMA PlaneFields ==
    ASSUME NEW row \in PlaneRow(DOMAIN ship)
    PROVE  /\ row.own \in Nations /\ row.at \in Sectors /\ row.type \in DOMAIN PlaneChr
           /\ row.effic \in 0..100 /\ row.mobil \in -128..127 /\ row.range \in Nat
           /\ row.ship \in DOMAIN ship \cup {None} /\ row.launched \in BOOLEAN
  BY DEF PlaneRow

LEMMA ScuttleShipsQuiet ==
    ASSUME Tables(World), HoldsFit(World), NEW me \in Nations,
           NEW spec, spec \subseteq DOMAIN ship, ScuttleShips(me, spec)
    PROVE  Quietly
<1> DEFINE mine == Matching(ship, me, spec)
           again == \E s \in mine : ship[s].effic = 0
           w == ShipsSunk(mine)
<1>1. Done(w, again)
  BY DEF ScuttleShips
<1>2. again \in BOOLEAN
  OBVIOUS
<1>3. IsFiniteSet(mine) /\ mine \subseteq Int /\ mine \subseteq DOMAIN ship
  <2>1. /\ IsFiniteSet(Matching(ship, me, spec)) /\ Matching(ship, me, spec) \subseteq Int
        /\ Matching(ship, me, spec) \subseteq DOMAIN ship
    BY TypedRows, MatchingFinite
  <2>2. mine \in SUBSET Matching(ship, me, spec)
    OBVIOUS
  <2> HIDE DEF mine
  <2> QED
    BY <2>1, <2>2, FS_Subset
<1> HIDE DEF again, mine
<1>4. \A v \in Quiet : \A s \in mine :
         PutShip(Spill(v, ship[s]), s, Wreck(ship[s])) \in Quiet
  <2> SUFFICES ASSUME NEW v \in Quiet, NEW s \in mine
               PROVE  PutShip(Spill(v, ship[s]), s, Wreck(ship[s])) \in Quiet
    OBVIOUS
  <2> DEFINE row == ship[s]
  <2>1. s \in DOMAIN ship /\ row \in HullRow
    BY <1>3, ShipIsHull
  <2>2. row.at \in Sectors /\ row.items \in Stock /\ row.type \in DOMAIN ShipChr /\ row.effic \in 0..100
    BY <2>1, HullFits
  <2>3. Wreck(row) \in ShipRows(s)
    BY <2>1, WreckHull DEF ShipRows, HitRows
  <2> HIDE DEF row
  <2>4. Spill(v, row) \in Quiet
    BY <2>2, SpillQuiet
  <2>5. PutShip(Spill(v, row), s, Wreck(row)) \in Quiet
    BY <2>1, <2>3, <2>4, PutShipQuiet
  <2> QED
    BY <2>5 DEF row
<1>5. w \in Quiet
  BY <1>3, <1>4, WorldIsQuiet, ShipsSunkIn
<1> HIDE DEF w
<1> QED
  BY <1>1, <1>2, <1>5 DEF Quietly

LEMMA ScuttleLandQuiet ==
    ASSUME Tables(World), HoldsFit(World), NEW me \in Nations,
           NEW spec, spec \subseteq DOMAIN land, ScuttleLand(me, spec)
    PROVE  Quietly
<1> DEFINE mine == {u \in Matching(land, me, spec) : land[u].ship = None}
           again == \E u \in mine : land[u].effic = 0
           w == LandSunk(mine)
<1>1. Done(w, again)
  BY DEF ScuttleLand
<1>2. again \in BOOLEAN
  OBVIOUS
<1>3. IsFiniteSet(mine) /\ mine \subseteq Int /\ mine \subseteq DOMAIN land
  <2>1. /\ IsFiniteSet(Matching(land, me, spec)) /\ Matching(land, me, spec) \subseteq Int
        /\ Matching(land, me, spec) \subseteq DOMAIN land
    BY TypedRows, MatchingFinite
  <2>2. mine \in SUBSET Matching(land, me, spec)
    OBVIOUS
  <2> HIDE DEF mine
  <2> QED
    BY <2>1, <2>2, FS_Subset
<1> HIDE DEF again, mine
<1>4. \A v \in Quiet : \A u \in mine :
         PutLand(Spill(v, land[u]), u, Wreck(land[u])) \in Quiet
  <2> SUFFICES ASSUME NEW v \in Quiet, NEW u \in mine
               PROVE  PutLand(Spill(v, land[u]), u, Wreck(land[u])) \in Quiet
    OBVIOUS
  <2> DEFINE row == land[u]
  <2>1. u \in DOMAIN land /\ row \in LandRow(DOMAIN ship)
    BY <1>3, TypedRows
  <2>2. row.at \in Sectors /\ row.items \in Stock /\ row.type \in DOMAIN LandChr /\ row.effic \in 0..100
    BY <2>1, LandFields
  <2>3. Wreck(row) \in LandRow(DOMAIN ship)
    BY <2>1, WreckLand
  <2> HIDE DEF row
  <2>4. Spill(v, row) \in Quiet
    BY <2>2, SpillQuiet
  <2>5. PutLand(Spill(v, row), u, Wreck(row)) \in Quiet
    BY <2>1, <2>3, <2>4, PutLandQuiet
  <2> QED
    BY <2>5 DEF row
<1>5. w \in Quiet
  BY <1>3, <1>4, WorldIsQuiet, LandSunkIn
<1> HIDE DEF w
<1> QED
  BY <1>1, <1>2, <1>5 DEF Quietly

LEMMA ScrapShipsQuiet ==
    ASSUME Tables(World), HoldsFit(World), NEW me \in Nations,
           NEW spec, spec \subseteq DOMAIN ship, ScrapShips(me, spec)
    PROVE  Quietly
<1> DEFINE mine == {s \in Matching(ship, me, spec) : InYard(me, ship[s], "harbor")}
           again == \E s \in mine : ship[s].effic = 0
           w == ShipsScrapped(mine)
<1>1. Done(w, again)
  BY DEF ScrapShips
<1>2. again \in BOOLEAN
  OBVIOUS
<1>3. IsFiniteSet(mine) /\ mine \subseteq Int /\ mine \subseteq DOMAIN ship
  <2>1. /\ IsFiniteSet(Matching(ship, me, spec)) /\ Matching(ship, me, spec) \subseteq Int
        /\ Matching(ship, me, spec) \subseteq DOMAIN ship
    BY TypedRows, MatchingFinite
  <2>2. mine \in SUBSET Matching(ship, me, spec)
    OBVIOUS
  <2> HIDE DEF mine
  <2> QED
    BY <2>1, <2>2, FS_Subset
<1> HIDE DEF again, mine
<1>4. \A v \in Quiet : \A s \in mine :
         PutShip(Salvaged(Spilled(v, ship[s]), ship[s], ShipChr[ship[s].type]), s, Wreck(ship[s])) \in Quiet
  <2> SUFFICES ASSUME NEW v \in Quiet, NEW s \in mine
               PROVE  PutShip(Salvaged(Spilled(v, ship[s]), ship[s], ShipChr[ship[s].type]), s, Wreck(ship[s])) \in Quiet
    OBVIOUS
  <2> DEFINE row == ship[s]
  <2>1. s \in DOMAIN ship /\ row \in HullRow
    BY <1>3, ShipIsHull
  <2>2. row.at \in Sectors /\ row.items \in Stock /\ row.type \in DOMAIN ShipChr /\ row.effic \in 0..100
    BY <2>1, HullFits
  <2>3. Wreck(row) \in ShipRows(s)
    BY <2>1, WreckHull DEF ShipRows, HitRows
  <2> DEFINE chr == ShipChr[row.type]
  <2>4. chr.lcm \in Nat /\ chr.hcm \in Nat
    BY <2>2, TablesAssumption
  <2> HIDE DEF row, chr
  <2>5. Spilled(v, row) \in Quiet
    BY <2>2, SpillQuiet
  <2>6. Salvaged(Spilled(v, row), row, chr) \in Quiet
    BY <2>2, <2>4, <2>5, SalvagedQuiet
  <2>7. PutShip(Salvaged(Spilled(v, row), row, chr), s, Wreck(row)) \in Quiet
    BY <2>1, <2>3, <2>6, PutShipQuiet
  <2> QED
    BY <2>7 DEF row, chr
<1>5. w \in Quiet
  BY <1>3, <1>4, WorldIsQuiet, ShipsScrappedIn
<1> HIDE DEF w
<1> QED
  BY <1>1, <1>2, <1>5 DEF Quietly

LEMMA ScrapLandQuiet ==
    ASSUME Tables(World), HoldsFit(World), NEW me \in Nations,
           NEW spec, spec \subseteq DOMAIN land, ScrapLand(me, spec)
    PROVE  Quietly
<1> DEFINE mine == {u \in Matching(land, me, spec) : MayUse(me, land[u].at)}
           again == \E u \in mine : land[u].effic = 0
           w == LandScrapped(mine)
<1>1. Done(w, again)
  BY DEF ScrapLand
<1>2. again \in BOOLEAN
  OBVIOUS
<1>3. IsFiniteSet(mine) /\ mine \subseteq Int /\ mine \subseteq DOMAIN land
  <2>1. /\ IsFiniteSet(Matching(land, me, spec)) /\ Matching(land, me, spec) \subseteq Int
        /\ Matching(land, me, spec) \subseteq DOMAIN land
    BY TypedRows, MatchingFinite
  <2>2. mine \in SUBSET Matching(land, me, spec)
    OBVIOUS
  <2> HIDE DEF mine
  <2> QED
    BY <2>1, <2>2, FS_Subset
<1> HIDE DEF again, mine
<1>4. \A v \in Quiet : \A u \in mine :
         PutLand(Salvaged(Spilled(v, land[u]), land[u], LandChr[land[u].type]), u, Wreck(land[u])) \in Quiet
  <2> SUFFICES ASSUME NEW v \in Quiet, NEW u \in mine
               PROVE  PutLand(Salvaged(Spilled(v, land[u]), land[u], LandChr[land[u].type]), u, Wreck(land[u])) \in Quiet
    OBVIOUS
  <2> DEFINE row == land[u]
  <2>1. u \in DOMAIN land /\ row \in LandRow(DOMAIN ship)
    BY <1>3, TypedRows
  <2>2. row.at \in Sectors /\ row.items \in Stock /\ row.type \in DOMAIN LandChr /\ row.effic \in 0..100
    BY <2>1, LandFields
  <2>3. Wreck(row) \in LandRow(DOMAIN ship)
    BY <2>1, WreckLand
  <2> DEFINE chr == LandChr[row.type]
  <2>4. chr.lcm \in Nat /\ chr.hcm \in Nat
    BY <2>2, TablesAssumption
  <2> HIDE DEF row, chr
  <2>5. Spilled(v, row) \in Quiet
    BY <2>2, SpillQuiet
  <2>6. Salvaged(Spilled(v, row), row, chr) \in Quiet
    BY <2>2, <2>4, <2>5, SalvagedQuiet
  <2>7. PutLand(Salvaged(Spilled(v, row), row, chr), u, Wreck(row)) \in Quiet
    BY <2>1, <2>3, <2>6, PutLandQuiet
  <2> QED
    BY <2>7 DEF row, chr
<1>5. w \in Quiet
  BY <1>3, <1>4, WorldIsQuiet, LandScrappedIn
<1> HIDE DEF w
<1> QED
  BY <1>1, <1>2, <1>5 DEF Quietly

LEMMA ScrapPlanesQuiet ==
    ASSUME Tables(World), HoldsFit(World), NEW me \in Nations,
           NEW spec, spec \subseteq DOMAIN plane, ScrapPlanes(me, spec)
    PROVE  Quietly
<1> DEFINE mine == {p \in Matching(plane, me, spec) : InYard(me, plane[p], "airfield")}
           again == FALSE
           w == PlanesScrapped(mine)
<1>1. Done(w, again)
  BY DEF ScrapPlanes
<1>2. again \in BOOLEAN
  OBVIOUS
<1>3. IsFiniteSet(mine) /\ mine \subseteq Int /\ mine \subseteq DOMAIN plane
  <2>1. /\ IsFiniteSet(Matching(plane, me, spec)) /\ Matching(plane, me, spec) \subseteq Int
        /\ Matching(plane, me, spec) \subseteq DOMAIN plane
    BY TypedRows, MatchingFinite
  <2>2. mine \in SUBSET Matching(plane, me, spec)
    OBVIOUS
  <2> HIDE DEF mine
  <2> QED
    BY <2>1, <2>2, FS_Subset
<1> HIDE DEF again, mine
<1>4. \A v \in Quiet : \A p \in mine :
         PutPlane(Salvaged(v, plane[p], PlaneChr[plane[p].type]), p, Wreck(plane[p])) \in Quiet
  <2> SUFFICES ASSUME NEW v \in Quiet, NEW p \in mine
               PROVE  PutPlane(Salvaged(v, plane[p], PlaneChr[plane[p].type]), p, Wreck(plane[p])) \in Quiet
    OBVIOUS
  <2> DEFINE row == plane[p]
  <2>1. p \in DOMAIN plane /\ row \in PlaneRow(DOMAIN ship)
    BY <1>3, TypedRows
  <2>2. row.at \in Sectors /\ row.type \in DOMAIN PlaneChr /\ row.effic \in 0..100
    BY <2>1, PlaneFields
  <2>3. Wreck(row) \in PlaneRows(p)
    BY <2>1, WreckPlane
  <2> DEFINE chr == PlaneChr[row.type]
  <2>4. chr.lcm \in Nat /\ chr.hcm \in Nat
    BY <2>2, TablesAssumption
  <2> HIDE DEF row, chr
  <2>5. Salvaged(v, row, chr) \in Quiet
    BY <2>2, <2>4, SalvagedQuiet
  <2>6. PutPlane(Salvaged(v, row, chr), p, Wreck(row)) \in Quiet
    BY <2>1, <2>3, <2>5, PutPlaneQuiet
  <2> QED
    BY <2>6 DEF row, chr
<1>5. w \in Quiet
  BY <1>3, <1>4, WorldIsQuiet, PlanesScrappedIn
<1> HIDE DEF w
<1> QED
  BY <1>1, <1>2, <1>5 DEF Quietly

LEMMA ScuttlePlanesQuiet ==
    ASSUME Tables(World), HoldsFit(World), NEW me \in Nations,
           NEW spec, spec \subseteq DOMAIN plane, ScuttlePlanes(me, spec)
    PROVE  Quietly
<1> DEFINE new == [p \in Matching(plane, me, spec) |-> Wreck(plane[p])]
<1>1. Done(PutPlanes(World, new), FALSE)
  BY DEF ScuttlePlanes
<1>2. \A p \in DOMAIN new : new[p] \in PlaneRows(p)
  <2> SUFFICES ASSUME NEW p \in Matching(plane, me, spec) PROVE Wreck(plane[p]) \in PlaneRows(p)
    OBVIOUS
  <2>1. p \in DOMAIN plane /\ plane[p] \in PlaneRow(DOMAIN ship)
    BY TypedRows DEF Matching
  <2> QED
    BY <2>1, WreckPlane
<1>3. DOMAIN new \subseteq DOMAIN plane
  BY DEF Matching
<1> HIDE DEF new
<1>4. PutPlanes(World, new) \in Quiet
  BY <1>2, <1>3, WorldIsQuiet, PutPlanesQuiet
<1> QED
  BY <1>1, <1>4 DEF Quietly

-----------------------------------------------------------------------------
(* Guns and shells. *)

\* A ship with other goods, less mobile.
Slowed(row, mobil) == [row EXCEPT !.mobil = mobil]

LEMMA SlowedHull ==
    ASSUME NEW row \in HullRow, NEW mobil \in -100..127
    PROVE  /\ Slowed(row, mobil) \in HullRow
           /\ Slowed(row, mobil).at = row.at /\ Slowed(row, mobil).type = row.type
           /\ Slowed(row, mobil).items = row.items /\ Slowed(row, mobil).effic = row.effic
<1>1. row \in ShipRow /\ Fits(row)
  BY DEF HullRow
<1>2. /\ Slowed(row, mobil) \in ShipRow
      /\ Slowed(row, mobil).at = row.at /\ Slowed(row, mobil).type = row.type
      /\ Slowed(row, mobil).items = row.items /\ Slowed(row, mobil).effic = row.effic
  BY <1>1 DEF Slowed, ShipRow
<1> QED
  BY <1>1, <1>2 DEF HullRow, Fits

\* A ship that has fired so many shells.
Fired(row, n, mobil) == [row EXCEPT !.items = Shift(@, "shell", -n), !.mobil = mobil]

LEMMA FiredHull ==
    ASSUME NEW row \in HullRow, NEW n \in Nat, n <= row.items["shell"], NEW mobil \in -100..127
    PROVE  /\ Fired(row, n, mobil) \in HullRow
           /\ Fired(row, n, mobil).at = row.at /\ Fired(row, n, mobil).type = row.type
           /\ Fired(row, n, mobil).effic = row.effic
           /\ Fired(row, n, mobil).items["shell"] = row.items["shell"] - n
<1> DEFINE new == Fired(row, n, mobil)
           its == Shift(row.items, "shell", -n)
           one == Laded(row, its)
<1>1. "shell" \in Items
  BY ForcesAssumption DEF Special
<1>2. /\ row.items["shell"] \in Nat /\ row.items["shell"] <= ShipChr[row.type].cap["shell"]
      /\ ShipChr[row.type].cap["shell"] \in Nat /\ row.items \in Stock
  BY <1>1, HullFits
<1>3. /\ -n \in Int /\ row.items["shell"] + (-n) >= 0
      /\ row.items["shell"] + (-n) <= ShipChr[row.type].cap["shell"]
  BY <1>2
<1>4. its["shell"] = row.items["shell"] - n
  <2>1. its["shell"] = row.items["shell"] + (-n)
    BY <1>1, <1>2, <1>3, ShiftStock
  <2> HIDE DEF its
  <2> QED
    BY <1>2, <2>1
<1>5. one \in HullRow /\ one.at = row.at /\ one.type = row.type
  BY <1>1, <1>3, ShiftedHull
<1>6. one.items = its /\ one.effic = row.effic
  <2>1. row \in ShipRow
    BY DEF HullRow
  <2> HIDE DEF its
  <2> QED
    BY <2>1 DEF Laded, ShipRow
<1>7. new = Slowed(one, mobil)
  <2>1. row \in ShipRow
    BY DEF HullRow
  <2> HIDE DEF its
  <2>2. new = [row EXCEPT !.items = its, !.mobil = mobil]
    BY DEF its, Fired
  <2> QED
    BY <2>1, <2>2 DEF Laded, Slowed, ShipRow
<1> HIDE DEF one, its
<1>8. /\ Slowed(one, mobil) \in HullRow
      /\ Slowed(one, mobil).at = one.at /\ Slowed(one, mobil).type = one.type
      /\ Slowed(one, mobil).items = one.items /\ Slowed(one, mobil).effic = one.effic
  BY <1>5, SlowedHull
<1> HIDE DEF new
<1>9. /\ new \in HullRow /\ new.at = row.at /\ new.type = row.type /\ new.effic = row.effic
      /\ new.items["shell"] = row.items["shell"] - n
  BY <1>4, <1>5, <1>6, <1>7, <1>8
<1> QED
  BY <1>9 DEF new

LEMMA AfterFiringHull ==
    ASSUME NEW row \in HullRow
    PROVE  /\ AfterFiring(row) \in HullRow
           /\ AfterFiring(row).at = row.at /\ AfterFiring(row).type = row.type
           /\ AfterFiring(row).effic = row.effic
           /\ AfterFiring(row).items["shell"] <= row.items["shell"]
           /\ CanFire(row) => AfterFiring(row).items["shell"] < row.items["shell"]
<1> DEFINE glim == ShipChr[row.type].glim
           gun == row.items["gun"]
           mil == row.items["mil"]
           shell == row.items["shell"]
           guns == Guns(row)
           n == ShellsNeeded(guns)
           mobil == IF guns > 0 THEN Most(row.mobil - 15, -100) ELSE row.mobil
           new == Fired(row, n, mobil)
<1>1. "shell" \in Items /\ "gun" \in Items /\ "mil" \in Items
  BY ForcesAssumption DEF Special
<1>2. gun \in Nat /\ mil \in Nat /\ shell \in Nat /\ row.mobil \in -100..127 /\ row.type \in DOMAIN ShipChr
  BY <1>1, HullFits
<1>3. glim \in Nat
  BY <1>2, TablesAssumption
<1>4. /\ guns \in Nat /\ guns <= 2 * shell
      /\ CanFire(row) => guns >= 1
  <2>1. guns = Most(Least(Least(Least(glim, gun), (mil + 1) \div 2), 2 * shell), 0)
    BY DEF Guns
  <2>2. CanFire(row) => glim # 0 /\ gun > 0 /\ shell > 0 /\ mil >= 1
    BY DEF CanFire
  <2> HIDE DEF guns, glim, gun, mil, shell
  <2> DEFINE half == (mil + 1) \div 2
  <2>3. half \in Nat /\ (mil >= 1 => half >= 1)
    BY <1>2
  <2> HIDE DEF half
  <2>4. guns = Most(Least(Least(Least(glim, gun), half), 2 * shell), 0)
    BY <2>1 DEF half
  <2> QED
    BY <1>2, <1>3, <2>2, <2>3, <2>4 DEF Most, Least
<1> HIDE DEF guns
<1>5. n \in Nat /\ n <= shell /\ (CanFire(row) => n >= 1)
  BY <1>2, <1>4 DEF ShellsNeeded
<1>6. mobil \in -100..127
  BY <1>2 DEF Most
<1>7. AfterFiring(row) = new
  BY DEF AfterFiring, guns, Fired
<1> HIDE DEF mobil, n
<1>8. /\ new \in HullRow /\ new.at = row.at /\ new.type = row.type /\ new.effic = row.effic
      /\ new.items["shell"] = shell - n
  BY <1>5, <1>6, FiredHull
<1> HIDE DEF new
<1> QED
  BY <1>2, <1>5, <1>7, <1>8

LEMMA AfterTorpHull ==
    ASSUME NEW row \in HullRow, row.items["shell"] >= 3
    PROVE  /\ AfterTorp(row) \in HullRow
           /\ AfterTorp(row).at = row.at /\ AfterTorp(row).type = row.type
           /\ AfterTorp(row).effic = row.effic
           /\ AfterTorp(row).items["shell"] < row.items["shell"]
<1> DEFINE mobil == Most(row.mobil - 10, -100)
           new == Fired(row, 3, mobil)
<1>1. "shell" \in Items
  BY ForcesAssumption DEF Special
<1>2. row.items["shell"] \in Nat /\ row.mobil \in -100..127
  BY <1>1, HullFits
<1>3. mobil \in -100..127
  BY <1>2 DEF Most
<1>4. AfterTorp(row) = new
  BY DEF AfterTorp, Fired
<1> HIDE DEF mobil
<1>5. PICK n \in Nat : n = 3
  OBVIOUS
<1>6. /\ new \in HullRow /\ new.at = row.at /\ new.type = row.type /\ new.effic = row.effic
      /\ new.items["shell"] = row.items["shell"] - n
  <2>1. new = Fired(row, n, mobil)
    BY <1>5
  <2> HIDE DEF new
  <2>2. n <= row.items["shell"]
    BY <1>5
  <2> QED
    BY <1>3, <2>1, <2>2, FiredHull
<1> HIDE DEF new
<1> QED
  BY <1>2, <1>4, <1>5, <1>6

LEMMA ShelledSect ==
    ASSUME NEW s, NEW row \in SectRows(s), NEW dam \in Int
    PROVE  Shelled(row, dam) \in SectRows(s)
<1> DEFINE pct == Least(Most(dam, 0), 100)
           eff == Damage(row.effic, pct)
<1>1. row \in SectRow
  BY DEF SectRows
<1>2. pct \in Nat
  BY DEF Least, Most
<1> HIDE DEF pct
<1>3. eff \in 0..100
  <2>1. row.effic \in 0..100
    BY <1>1 DEF SectRow
  <2>2. row.effic \in Int /\ row.effic >= 0
    BY <2>1
  <2>3. Damage(row.effic, pct) \in Nat /\ Damage(row.effic, pct) <= row.effic
    BY <1>2, <2>2, DamageLeaves
  <2> QED
    BY <2>1, <2>3
<1>4. Shelled(row, dam) = [row EXCEPT !.effic = eff]
  BY DEF Shelled, pct
<1> HIDE DEF eff
<1> QED
  BY <1>1, <1>3, <1>4 DEF SectRow, SectRows

-----------------------------------------------------------------------------
(* fire and torpedo from ships. *)

LEMMA ProductInt == ASSUME NEW a \in Int, NEW b \in Int PROVE a * b \in Int
  OBVIOUS

LEMMA DrawInt ==
    ASSUME NEW lo \in Int, NEW hi \in Int, NEW luck \in Int
    PROVE  Draw(lo, hi, luck) \in Int
<1> DEFINE p == (hi - lo) * luck
<1>1. p \in Int
  BY ProductInt
<1> HIDE DEF p
<1>2. p \div 99 \in Int
  BY <1>1
<1> QED
  BY <1>2 DEF Draw, p

LEMMA BroadsideInt ==
    ASSUME NEW row \in HullRow, NEW luck \in Int
    PROVE  Broadside(row, luck) \in Int
<1> DEFINE g == Guns(row)
           d == Draw(9 * g, 14 * g, luck)
           p == d * row.effic
<1>1. g \in Int
  <2> DEFINE a == ShipChr[row.type].glim
             b == row.items["gun"]
             c == (row.items["mil"] + 1) \div 2
             e == 2 * row.items["shell"]
  <2>1. "shell" \in Items /\ "gun" \in Items /\ "mil" \in Items
    BY ForcesAssumption DEF Special
  <2>2. row.items["gun"] \in Nat /\ row.items["mil"] \in Nat /\ row.items["shell"] \in Nat
        /\ row.type \in DOMAIN ShipChr
    BY <2>1, HullFits
  <2>3. a \in Int /\ b \in Int /\ c \in Int /\ e \in Int
    BY <2>2, TablesAssumption
  <2>4. g = Most(Least(Least(Least(a, b), c), e), 0)
    BY DEF Guns
  <2> HIDE DEF a, b, c, e
  <2> QED
    BY <2>3, <2>4 DEF Most, Least
<1>2. row.effic \in Int
  BY HullFits
<1> HIDE DEF g
<1>3. d \in Int
  <2>1. 9 * g \in Int /\ 14 * g \in Int
    BY <1>1
  <2> QED
    BY <2>1, DrawInt
<1> HIDE DEF d
<1>4. p \in Int
  BY <1>2, <1>3, ProductInt
<1> HIDE DEF p
<1>5. p \div 100 \in Int
  BY <1>4
<1> QED
  BY <1>5 DEF Broadside, p, d, g

\* Damage and firing leave a ship where it is, and of its type.
LEMMA DamagedRows ==
    ASSUME NEW s, NEW row \in HitRows(s), NEW dam \in Int
    PROVE  /\ ShipDamage(row, dam) \in HitRows(s)
           /\ ShipDamage(row, dam).items["shell"] <= row.items["shell"]
<1>1. "shell" \in Items
  BY ForcesAssumption DEF Special
<1> QED
  BY <1>1, ShipDamageLeaves DEF HitRows

LEMMA FiredRows ==
    ASSUME NEW s, NEW row \in HitRows(s), CanFire(row)
    PROVE  /\ AfterFiring(row) \in HitRows(s) /\ AfterFiring(row).effic = row.effic
           /\ AfterFiring(row).items["shell"] < row.items["shell"]
  BY AfterFiringHull DEF HitRows

LEMMA TorpRows ==
    ASSUME NEW s, NEW row \in HitRows(s), CanTorp(row)
    PROVE  /\ AfterTorp(row) \in HitRows(s) /\ AfterTorp(row).effic = row.effic
           /\ AfterTorp(row).items["shell"] < row.items["shell"]
  BY AfterTorpHull DEF HitRows, CanTorp

LEMMA ShellsNat ==
    ASSUME NEW s, NEW row \in HitRows(s)
    PROVE  row.items["shell"] \in Nat
<1>1. "shell" \in Items
  BY ForcesAssumption DEF Special
<1> QED
  BY <1>1, HullFits DEF HitRows

LEMMA FoughtShip ==
    ASSUME NEW w \in Fought, NEW s \in DOMAIN ship
    PROVE  w.ship[s] \in HitRows(s) /\ w.ship[s] \in HullRow
  BY DEF Fought, HitRows

(* Ships fire at ship t, which answers.  A ship that is hit by the answer    *)
(* has cost t shells, and if t is hit it has cost one of the others shells. *)
Exchange(t) ==
    {st \in [w : Fought, target : HitRows(t)] :
        /\ \A s \in DOMAIN ship : st.w.ship[s].items["shell"] <= ship[s].items["shell"]
        /\ st.target.items["shell"] <= ship[t].items["shell"]
        /\ \A s \in DOMAIN ship \ {t} : \/ st.w.ship[s].effic = ship[s].effic
                                        \/ st.target.items["shell"] < ship[t].items["shell"]
        /\ \/ st.target.effic = ship[t].effic
           \/ \E s \in DOMAIN ship \ {t} : st.w.ship[s].items["shell"] < ship[s].items["shell"]}

LEMMA ExchangeBegins ==
    ASSUME Tables(World), HoldsFit(World), NEW t \in DOMAIN ship
    PROVE  [w |-> World, target |-> ship[t]] \in Exchange(t)
<1>1. \A s \in DOMAIN ship : ship[s] \in HitRows(s) /\ ship[s].items["shell"] \in Nat
  BY ShipIsHull, ShellsNat DEF ShipRows
<1>2. World \in Fought /\ World.ship = ship
  BY WorldIsQuiet DEF World
<1> DEFINE w == World
<1> HIDE DEF w
<1>3. [w |-> w, target |-> ship[t]] \in Exchange(t)
  BY <1>1, <1>2 DEF Exchange, w
<1> QED
  BY <1>3 DEF w

LEMMA ExchangeGoesOn ==
    ASSUME Tables(World), HoldsFit(World), NEW t \in DOMAIN ship, NEW st \in Exchange(t),
           NEW s \in DOMAIN ship \ {t}, NEW row \in HitRows(s), NEW left \in HitRows(t),
           row.items["shell"] < st.w.ship[s].items["shell"],
           left.items["shell"] <= st.target.items["shell"],
           row.effic = st.w.ship[s].effic \/ left.items["shell"] < st.target.items["shell"]
    PROVE  [w |-> [st.w EXCEPT !.ship[s] = row], target |-> left] \in Exchange(t)
<1> DEFINE new == [st.w EXCEPT !.ship[s] = row]
<1>1. /\ st.w \in Fought /\ st.target \in HitRows(t)
      /\ \A x \in DOMAIN ship : st.w.ship[x].items["shell"] <= ship[x].items["shell"]
      /\ st.target.items["shell"] <= ship[t].items["shell"]
      /\ \A x \in DOMAIN ship \ {t} : \/ st.w.ship[x].effic = ship[x].effic
                                      \/ st.target.items["shell"] < ship[t].items["shell"]
  BY DEF Exchange
<1>2. new \in Fought
  BY <1>1, WithShipFought
<1>3. new.ship = [st.w.ship EXCEPT ![s] = row] /\ DOMAIN st.w.ship = DOMAIN ship
  BY <1>1 DEF Fought, Now, Worlds
<1> HIDE DEF new
<1>4. /\ row.items["shell"] \in Nat /\ left.items["shell"] \in Nat /\ st.target.items["shell"] \in Nat
      /\ \A x \in DOMAIN ship : st.w.ship[x].items["shell"] \in Nat /\ ship[x].items["shell"] \in Nat
  BY <1>1, FoughtShip, ShipIsHull, ShellsNat DEF ShipRows
<1>5. new.ship[s] = row /\ \A x \in DOMAIN ship : x = s \/ new.ship[x] = st.w.ship[x]
  BY <1>3
<1>6. new.ship[s].items["shell"] < ship[s].items["shell"]
  BY <1>1, <1>4, <1>5
<1>7. \A x \in DOMAIN ship : new.ship[x].items["shell"] <= ship[x].items["shell"]
  BY <1>1, <1>4, <1>5, <1>6
<1>8. left.items["shell"] <= ship[t].items["shell"]
  BY <1>1, <1>4
<1>9. \A x \in DOMAIN ship \ {t} : \/ new.ship[x].effic = ship[x].effic
                                   \/ left.items["shell"] < ship[t].items["shell"]
  BY <1>1, <1>4, <1>5
<1> DEFINE to == [w |-> new, target |-> left]
<1>10. to.w = new /\ to.target = left /\ to \in [w : Fought, target : HitRows(t)]
  BY <1>2
<1> HIDE DEF to
<1>11. to \in Exchange(t)
  BY <1>6, <1>7, <1>8, <1>9, <1>10 DEF Exchange
<1> QED
  BY <1>11 DEF to, new

LEMMA ExchangeEnds ==
    ASSUME Tables(World), HoldsFit(World), NEW t \in DOMAIN ship, NEW st \in Exchange(t), NEW spec
    PROVE  /\ PutShip(Saved(st.w, spec), t, st.target) \in Fought
           /\ Fair(PutShip(Saved(st.w, spec), t, st.target))
<1> DEFINE v == Saved(st.w, spec)
           to == PutShip(v, t, st.target)
<1>1. /\ st.w \in Fought /\ st.target \in HitRows(t)
      /\ st.target.items["shell"] <= ship[t].items["shell"]
      /\ \A s \in DOMAIN ship \ {t} : \/ st.w.ship[s].effic = ship[s].effic
                                      \/ st.target.items["shell"] < ship[t].items["shell"]
      /\ \/ st.target.effic = ship[t].effic
         \/ \E s \in DOMAIN ship \ {t} : st.w.ship[s].items["shell"] < ship[s].items["shell"]
  BY DEF Exchange
<1>2. v \in Fought /\ to \in Fought
  BY <1>1, SavedFought, PutShipFought
<1>3. \A s \in DOMAIN ship : v.ship[s] = IF s \in spec THEN Sunk(st.w.ship[s]) ELSE st.w.ship[s]
  BY <1>1 DEF Saved, Sunk, Fought, Now, Worlds
<1> HIDE DEF v
<1>4. to.ship = [v.ship EXCEPT ![t] = Sunk(st.target)] /\ DOMAIN v.ship = DOMAIN ship
  BY <1>2 DEF PutShip, Sunk, Fought, Now, Worlds
<1> HIDE DEF to
<1>5. \A s \in DOMAIN ship : /\ Sunk(st.w.ship[s]).items = st.w.ship[s].items
                             /\ Sunk(st.w.ship[s]).effic \in {st.w.ship[s].effic, 0}
  BY <1>1, FoughtShip, SunkIsHull
<1>6. Sunk(st.target).items = st.target.items /\ Sunk(st.target).effic \in {st.target.effic, 0}
  BY <1>1, SunkIsHull DEF HitRows
<1>7. \A s \in DOMAIN ship \ {t} : /\ to.ship[s].items = st.w.ship[s].items
                                   /\ to.ship[s].effic \in {st.w.ship[s].effic, 0}
  BY <1>3, <1>4, <1>5
<1>8. to.ship[t].items = st.target.items /\ to.ship[t].effic \in {st.target.effic, 0}
  BY <1>4, <1>6
<1>9. ASSUME NEW s \in DOMAIN ship PROVE to.ship[s].effic \in {ship[s].effic, 0} \/ Charged(to, s)
  <2>1. CASE s = t
    BY <1>1, <1>7, <1>8, <2>1 DEF Charged
  <2>2. CASE s # t
    BY <1>1, <1>7, <1>8, <2>2 DEF Charged
  <2> QED
    BY <2>1, <2>2
<1>10. Fair(to)
  BY <1>9 DEF Fair
<1> QED
  BY <1>2, <1>10 DEF to, v

LEMMA FireAtShipGoesOn ==
    ASSUME Tables(World), HoldsFit(World), NEW t \in DOMAIN ship, NEW st \in Exchange(t),
           NEW s \in DOMAIN ship \ {t}, NEW luck \in Int, NEW back \in Int
    PROVE  FireAtShip(st, s, luck, back) \in Exchange(t)
<1> DEFINE me == st.w.ship[s]
           target == st.target
           hit == ShipDamage(target, Broadside(me, luck))
           answers == hit.effic > 0 /\ CanFire(hit)
           row == IF answers THEN ShipDamage(AfterFiring(me), Broadside(hit, back)) ELSE AfterFiring(me)
           left == IF answers THEN AfterFiring(hit) ELSE hit
<1>1. \/ FireAtShip(st, s, luck, back) = st
      \/ CanFire(me) /\ FireAtShip(st, s, luck, back)
                          = [w |-> [st.w EXCEPT !.ship[s] = row], target |-> left]
  BY DEF FireAtShip
<1>2. me \in HitRows(s) /\ me \in HullRow /\ target \in HitRows(t)
  BY FoughtShip DEF Exchange
<1> HIDE DEF me, target
<1>3. Broadside(me, luck) \in Int
  BY <1>2, BroadsideInt
<1>4. hit \in HitRows(t) /\ hit \in HullRow /\ hit.items["shell"] <= target.items["shell"]
  BY <1>2, <1>3, DamagedRows DEF HitRows
<1> HIDE DEF hit
<1>5. Broadside(hit, back) \in Int
  BY <1>4, BroadsideInt
<1>6. CASE CanFire(me)
  <2>1. /\ AfterFiring(me) \in HitRows(s) /\ AfterFiring(me).effic = me.effic
        /\ AfterFiring(me).items["shell"] < me.items["shell"]
    BY <1>2, <1>6, FiredRows
  <2>2. /\ ShipDamage(AfterFiring(me), Broadside(hit, back)) \in HitRows(s)
        /\ ShipDamage(AfterFiring(me), Broadside(hit, back)).items["shell"]
              <= AfterFiring(me).items["shell"]
    BY <1>5, <2>1, DamagedRows
  <2>3. row \in HitRows(s) /\ row.items["shell"] < me.items["shell"]
    BY <1>2, <2>1, <2>2, ShellsNat
  <2>4. answers => left \in HitRows(t) /\ left.items["shell"] < target.items["shell"]
    <3> SUFFICES ASSUME answers
                 PROVE  left \in HitRows(t) /\ left.items["shell"] < target.items["shell"]
      OBVIOUS
    <3>1. AfterFiring(hit) \in HitRows(t) /\ AfterFiring(hit).items["shell"] < hit.items["shell"]
      BY <1>4, FiredRows
    <3> QED
      BY <1>2, <1>4, <3>1, ShellsNat
  <2>5. ~answers => left = hit /\ row.effic = me.effic
    BY <2>1
  <2> HIDE DEF row, left, answers
  <2>6. left \in HitRows(t) /\ left.items["shell"] <= target.items["shell"]
    BY <1>2, <1>4, <2>4, <2>5, ShellsNat
  <2>7. row.effic = me.effic \/ left.items["shell"] < target.items["shell"]
    BY <2>4, <2>5
  <2>8. [w |-> [st.w EXCEPT !.ship[s] = row], target |-> left] \in Exchange(t)
    BY <2>3, <2>6, <2>7, ExchangeGoesOn DEF me, target
  <2> QED
    BY <1>1, <2>8
<1> QED
  BY <1>1, <1>6

LEMMA ShipsFireAtShipFair ==
    ASSUME Tables(World), HoldsFit(World), NEW me \in Nations, NEW spec, spec \subseteq DOMAIN ship,
           NEW t \in DOMAIN ship, NEW luck \in Int, NEW back \in Int,
           ShipsFireAtShip(me, spec, t, luck, back)
    PROVE  Fairly
<1> DEFINE firers == Matching(ship, me, spec)
           S == firers \ {t}
           V == Exchange(t)
           st == AllFireAtShip(S, t, luck, back)
           to == PutShip(Saved(st.w, firers), t, st.target)
<1>1. Done(to, FALSE)
  BY DEF ShipsFireAtShip
<1>2. IsFiniteSet(S) /\ S \subseteq Int /\ S \subseteq DOMAIN ship \ {t}
  <2>1. /\ IsFiniteSet(firers) /\ firers \subseteq Int /\ firers \subseteq DOMAIN ship
    BY TypedRows, MatchingFinite
  <2>2. S \in SUBSET firers /\ t \notin S
    OBVIOUS
  <2> HIDE DEF firers, S
  <2> QED
    BY <2>1, <2>2, FS_Subset
<1> HIDE DEF S, firers
<1>3. [w |-> World, target |-> ship[t]] \in V
  BY ExchangeBegins
<1>4. \A v \in V : \A s \in S : FireAtShip(v, s, luck, back) \in V
  BY <1>2, FireAtShipGoesOn
<1>5. st \in V
  <2> HIDE DEF V
  <2> QED
    BY <1>2, <1>3, <1>4, AllFireAtShipIn
<1> HIDE DEF st
<1>6. to \in Fought /\ Fair(to)
  BY <1>5, ExchangeEnds
<1> HIDE DEF to
<1> QED
  BY <1>1, <1>6 DEF Fairly

LEMMA FireAtSectQuiet ==
    ASSUME NEW w \in Quiet, NEW at, NEW target \in SectRows(at), NEW s \in DOMAIN ship,
           NEW luck \in Int, NEW st, st = [w |-> w, target |-> target, at |-> at]
    PROVE  FireAtSect(st, s, luck) \in [w : Quiet, target : SectRows(at), at : {at}]
<1> DEFINE me == w.ship[s]
           left == Shelled(target, Broadside(me, luck))
           new == [w EXCEPT !.ship[s] = AfterFiring(me)]
<1>1. FireAtSect(st, s, luck)
         = IF CanFire(me) /\ InRange(me, at) THEN [w |-> new, target |-> left, at |-> at] ELSE st
  BY DEF FireAtSect
<1>2. me \in ShipRows(s) /\ me \in HullRow
  BY QuietShip
<1> HIDE DEF me
<1>3. Broadside(me, luck) \in Int
  BY <1>2, BroadsideInt
<1>4. left \in SectRows(at)
  BY <1>3, ShelledSect
<1>5. CanFire(me) => AfterFiring(me) \in ShipRows(s)
  BY <1>2, FiredRows DEF ShipRows
<1> HIDE DEF left
<1>6. CanFire(me) => new \in Quiet
  BY <1>5, WithShipQuiet
<1> HIDE DEF new
<1> QED
  BY <1>1, <1>4, <1>6

LEMMA ShipsFireAtSectQuiet ==
    ASSUME Tables(World), HoldsFit(World), NEW me \in Nations, NEW spec, spec \subseteq DOMAIN ship,
           NEW at \in Sectors, NEW luck \in Int, ShipsFireAtSect(me, spec, at, luck)
    PROVE  Quietly
<1> DEFINE S == Matching(ship, me, spec)
           V == [w : Quiet, target : SectRows(at), at : {at}]
           st == AllFireAtSect(S, at, luck)
<1>1. Done(PutSect(Saved(st.w, S), at, st.target), FALSE)
  BY DEF ShipsFireAtSect
<1>2. IsFiniteSet(S) /\ S \subseteq Int /\ S \subseteq DOMAIN ship
  BY TypedRows, MatchingFinite
<1> HIDE DEF S
<1>3. [w |-> World, target |-> sect[at], at |-> at] \in V
  <2>1. sect[at] \in SectRows(at)
    BY TypedRows DEF SectRows
  <2> QED
    BY <2>1, WorldIsQuiet
<1>4. \A v \in V : \A s \in S : FireAtSect(v, s, luck) \in V
  <2> SUFFICES ASSUME NEW v \in V, NEW s \in S PROVE FireAtSect(v, s, luck) \in V
    OBVIOUS
  <2>1. v = [w |-> v.w, target |-> v.target, at |-> at] /\ v.w \in Quiet /\ v.target \in SectRows(at)
    OBVIOUS
  <2> QED
    BY <1>2, <2>1, FireAtSectQuiet
<1>5. st \in V
  <2> HIDE DEF V
  <2> QED
    BY <1>2, <1>3, <1>4, AllFireAtSectIn
<1> HIDE DEF st
<1>6. st.w \in Quiet /\ st.target \in SectRows(at)
  BY <1>5
<1>7. Saved(st.w, S) \in Quiet
  BY <1>6, SavedQuiet
<1>8. PutSect(Saved(st.w, S), at, st.target) \in Quiet
  BY <1>6, <1>7, PutSectQuiet
<1> QED
  BY <1>1, <1>8 DEF Quietly

LEMMA TorpAtShipGoesOn ==
    ASSUME Tables(World), HoldsFit(World), NEW t \in DOMAIN ship, NEW st \in Exchange(t),
           NEW s \in DOMAIN ship \ {t}, NEW hits \in BOOLEAN, NEW answered \in BOOLEAN, NEW luck \in Int
    PROVE  TorpAtShip(st, s, hits, answered, luck) \in Exchange(t)
<1> DEFINE me == st.w.ship[s]
           target == st.target
           dam == Draw(40, 118, luck)
           hit == IF hits THEN ShipDamage(target, dam) ELSE target
           answers == hits /\ hit.effic > 0 /\ CanTorp(hit)
           row == IF answers /\ answered THEN ShipDamage(AfterTorp(me), dam) ELSE AfterTorp(me)
           left == IF answers THEN AfterTorp(hit) ELSE hit
<1>1. \/ TorpAtShip(st, s, hits, answered, luck) = st
      \/ CanTorp(me) /\ TorpAtShip(st, s, hits, answered, luck)
                          = [w |-> [st.w EXCEPT !.ship[s] = row], target |-> left]
  BY DEF TorpAtShip
<1>2. me \in HitRows(s) /\ target \in HitRows(t)
  BY FoughtShip DEF Exchange
<1>3. dam \in Int
  BY DrawInt
<1> HIDE DEF me, target, dam
<1>4. hit \in HitRows(t) /\ hit.items["shell"] <= target.items["shell"]
  <2>1. target.items["shell"] \in Nat
    BY <1>2, ShellsNat
  <2>2. ShipDamage(target, dam) \in HitRows(t)
        /\ ShipDamage(target, dam).items["shell"] <= target.items["shell"]
    BY <1>2, <1>3, DamagedRows
  <2> QED
    BY <1>2, <2>1, <2>2
<1> HIDE DEF hit
<1>5. CASE CanTorp(me)
  <2>1. /\ AfterTorp(me) \in HitRows(s) /\ AfterTorp(me).effic = me.effic
        /\ AfterTorp(me).items["shell"] < me.items["shell"]
    BY <1>2, <1>5, TorpRows
  <2>2. /\ ShipDamage(AfterTorp(me), dam) \in HitRows(s)
        /\ ShipDamage(AfterTorp(me), dam).items["shell"] <= AfterTorp(me).items["shell"]
    BY <1>3, <2>1, DamagedRows
  <2>3. row \in HitRows(s) /\ row.items["shell"] < me.items["shell"]
    BY <1>2, <2>1, <2>2, ShellsNat
  <2>4. answers => left \in HitRows(t) /\ left.items["shell"] < target.items["shell"]
    <3> SUFFICES ASSUME answers
                 PROVE  left \in HitRows(t) /\ left.items["shell"] < target.items["shell"]
      OBVIOUS
    <3>1. AfterTorp(hit) \in HitRows(t) /\ AfterTorp(hit).items["shell"] < hit.items["shell"]
      BY <1>4, TorpRows
    <3> QED
      BY <1>2, <1>4, <3>1, ShellsNat
  <2>5. ~answers => left = hit /\ row.effic = me.effic
    BY <2>1
  <2> HIDE DEF row, left, answers
  <2>6. left \in HitRows(t) /\ left.items["shell"] <= target.items["shell"]
    BY <1>2, <1>4, <2>4, <2>5, ShellsNat
  <2>7. row.effic = me.effic \/ left.items["shell"] < target.items["shell"]
    BY <2>4, <2>5
  <2>8. [w |-> [st.w EXCEPT !.ship[s] = row], target |-> left] \in Exchange(t)
    BY <2>3, <2>6, <2>7, ExchangeGoesOn DEF me, target
  <2> QED
    BY <1>1, <2>8
<1> QED
  BY <1>1, <1>5

LEMMA TorpedoFair ==
    ASSUME Tables(World), HoldsFit(World), NEW me \in Nations, NEW spec, spec \subseteq DOMAIN ship,
           NEW t \in DOMAIN ship, NEW hits \in BOOLEAN, NEW answered \in BOOLEAN, NEW luck \in Int,
           Torpedo(me, spec, t, hits, answered, luck)
    PROVE  Fairly
<1> DEFINE S == Matching(ship, me, spec)
           V == Exchange(t)
           st == AllTorp(S, t, hits, answered, luck)
           to == PutShip(Saved(st.w, S), t, st.target)
<1>1. Done(to, FALSE) /\ t \notin S
  BY DEF Torpedo
<1>2. IsFiniteSet(S) /\ S \subseteq Int /\ S \subseteq DOMAIN ship \ {t}
  <2>1. /\ IsFiniteSet(S) /\ S \subseteq Int /\ S \subseteq DOMAIN ship
    BY TypedRows, MatchingFinite
  <2> HIDE DEF S
  <2> QED
    BY <1>1, <2>1
<1> HIDE DEF S
<1>3. [w |-> World, target |-> ship[t]] \in V
  BY ExchangeBegins
<1>4. \A v \in V : \A s \in S : TorpAtShip(v, s, hits, answered, luck) \in V
  BY <1>2, TorpAtShipGoesOn
<1>5. st \in V
  <2> HIDE DEF V
  <2> QED
    BY <1>2, <1>3, <1>4, AllTorpIn
<1> HIDE DEF st
<1>6. to \in Fought /\ Fair(to)
  BY <1>5, ExchangeEnds
<1> HIDE DEF to
<1> QED
  BY <1>1, <1>6 DEF Fairly

-----------------------------------------------------------------------------
(* fire from forts and land units. *)

LEMMA FortDamageInt ==
    ASSUME NEW row \in SectRow, NEW luck \in Int
    PROVE  FortDamage(row, luck) \in Int
<1> DEFINE a == Draw(19, 48, luck)
           b == Least(row.items["gun"], 7)
           p == a * b
           q == p * row.effic
<1>1. a \in Int
  BY DrawInt
<1>2. row.items["gun"] \in Nat /\ row.effic \in Int
  <2>1. "gun" \in Items
    BY ForcesAssumption DEF Special
  <2> QED
    BY <2>1 DEF SectRow, Stock
<1>3. b \in Int
  BY <1>2 DEF Least
<1> HIDE DEF a, b
<1>4. p \in Int
  BY <1>1, <1>3, ProductInt
<1> HIDE DEF p
<1>5. q \in Int
  BY <1>2, <1>4, ProductInt
<1> HIDE DEF q
<1>6. q \div 700 \in Int
  BY <1>5
<1> QED
  BY <1>6 DEF FortDamage, a, b, p, q

LEMMA SpentSect ==
    ASSUME NEW s, NEW row \in SectRows(s), row.items["shell"] > 0
    PROVE  Spent(row) \in SectRows(s) /\ Spent(row).items["shell"] < row.items["shell"]
<1> DEFINE its == Shift(row.items, "shell", -1)
<1>1. row \in SectRow /\ row.items \in Stock
  BY DEF SectRows, SectRow
<1>2. "shell" \in Items
  BY ForcesAssumption DEF Special
<1>3. its \in Stock /\ its["shell"] < row.items["shell"]
  <2>1. row.items["shell"] + (-1) >= 0 /\ -1 \in Int
    BY <1>1, <1>2 DEF Stock
  <2>2. its["shell"] = row.items["shell"] + (-1)
    BY <1>1, <1>2 DEF Stock, Shift
  <2>3. row.items["shell"] \in Int
    BY <1>1, <1>2 DEF Stock
  <2> QED
    BY <1>1, <1>2, <2>1, <2>2, <2>3, ShiftStock
<1>4. Spent(row) = [row EXCEPT !.items = its]
  BY DEF Spent
<1> HIDE DEF its
<1> QED
  BY <1>1, <1>3, <1>4 DEF SectRow, SectRows

LEMMA ThisSect ==
    ASSUME Tables(World), NEW s \in Sectors
    PROVE  sect[s] \in SectRows(s) /\ sect[s] \in SectRow
  BY TypedRows DEF SectRows

LEMMA FortFiresAtShipFair ==
    ASSUME Tables(World), HoldsFit(World), NEW me \in Nations, NEW f \in Sectors,
           NEW t \in DOMAIN ship, NEW luck \in Int, FortFiresAtShip(me, f, t, luck)
    PROVE  Fairly
<1> DEFINE hit == ShipDamage(ship[t], FortDamage(sect[f], luck))
           row == Spent(sect[f])
           v == PutShip(World, t, hit)
           w == PutSect(v, f, row)
<1>1. Done(w, FALSE) /\ sect[f].items["shell"] > 0
  BY DEF FortFiresAtShip, Ready, FortCanFire
<1>2. sect[f] \in SectRows(f) /\ sect[f] \in SectRow
  BY ThisSect
<1>3. FortDamage(sect[f], luck) \in Int
  BY <1>2, FortDamageInt
<1>4. hit \in HitRows(t)
  BY <1>3, ShipIsHull, DamagedRows DEF ShipRows
<1>5. row \in SectRows(f) /\ row.items["shell"] < sect[f].items["shell"]
  BY <1>1, <1>2, SpentSect
<1> HIDE DEF hit, row
<1>6. v \in Fought
  BY <1>4, WorldIsQuiet, PutShipFought
<1> HIDE DEF v
<1>7. w \in Fought /\ w.sect[f] = row
  <2>1. DOMAIN v.sect = Sectors /\ v = [ship |-> v.ship, plane |-> v.plane, land |-> v.land,
                                        sect |-> v.sect, nat |-> v.nat]
    BY <1>6, FoughtRows
  <2> QED
    BY <1>5, <1>6, <2>1, PutSectFought DEF PutSect
<1> HIDE DEF w
<1>8. Fair(w)
  BY <1>5, <1>7 DEF Fair, Charged
<1> QED
  BY <1>1, <1>7, <1>8 DEF Fairly

LEMMA FortFiresAtSectQuiet ==
    ASSUME Tables(World), HoldsFit(World), NEW me \in Nations, NEW f \in Sectors,
           NEW at \in Sectors, NEW luck \in Int, FortFiresAtSect(me, f, at, luck)
    PROVE  Quietly
<1> DEFINE hit == Shelled(sect[at], FortDamage(sect[f], luck))
           row == Spent(sect[f])
           w == PutSect(PutSect(World, at, hit), f, row)
<1>1. Done(w, FALSE) /\ sect[f].items["shell"] > 0
  BY DEF FortFiresAtSect, Ready, FortCanFire
<1>2. sect[f] \in SectRows(f) /\ sect[f] \in SectRow /\ sect[at] \in SectRows(at)
  BY ThisSect
<1>3. FortDamage(sect[f], luck) \in Int
  BY <1>2, FortDamageInt
<1>4. hit \in SectRows(at)
  BY <1>2, <1>3, ShelledSect
<1>5. row \in SectRows(f)
  BY <1>1, <1>2, SpentSect
<1> HIDE DEF hit, row
<1>6. PutSect(World, at, hit) \in Quiet
  BY <1>4, WorldIsQuiet, PutSectQuiet
<1>7. w \in Quiet
  BY <1>5, <1>6, PutSectQuiet
<1> QED
  BY <1>1, <1>7 DEF Quietly

LEMMA AfterShotLand ==
    ASSUME NEW row \in LandRow(DOMAIN ship)
    PROVE  /\ AfterShot(row) \in LandRow(DOMAIN ship)
           /\ row.items["shell"] > 0 => AfterShot(row).items["shell"] < row.items["shell"]
<1> DEFINE n == Least(row.items["shell"], LandAmmo(row))
           its == Shift(row.items, "shell", -n)
<1>1. "shell" \in Items
  BY ForcesAssumption DEF Special
<1>2. row.type \in DOMAIN LandChr /\ row.items \in Stock
  BY LandFields
<1>3. LandAmmo(row) \in Nat \ {0}
  <2>1. LandChr[row.type].ammo \in Nat
    BY <1>2, TablesAssumption
  <2> QED
    BY <2>1 DEF LandAmmo, Most
<1>4. /\ n \in Nat /\ row.items["shell"] + (-n) >= 0 /\ -n \in Int
      /\ row.items["shell"] > 0 => n > 0
      /\ row.items["shell"] \in Int
  <2>1. row.items["shell"] \in Nat
    BY <1>1, <1>2 DEF Stock
  <2> QED
    BY <1>3, <2>1 DEF Least
<1> HIDE DEF n
<1>5. its \in Stock
  BY <1>1, <1>2, <1>4, ShiftStock
<1>6. its["shell"] = row.items["shell"] + (-n)
  BY <1>1, <1>2 DEF Stock, Shift
<1>7. AfterShot(row) = [row EXCEPT !.items = its]
  BY DEF AfterShot, n
<1>8. row.items["shell"] > 0 => its["shell"] < row.items["shell"]
  BY <1>4, <1>6
<1> HIDE DEF its
<1> QED
  BY <1>5, <1>7, <1>8 DEF LandRow

LEMMA LandShotInt ==
    ASSUME NEW row \in LandRow(DOMAIN ship), NEW luck \in Int
    PROVE  LandShot(row, luck) \in Int
<1> DEFINE guns == Least(LandChr[row.type].dam, row.items["gun"])
           d == Draw(4 * guns, 9 * guns, luck)
           p == d * row.effic
           full == p \div 100
           ammo == LandAmmo(row)
           shells == Least(row.items["shell"], ammo)
           q == 2 * full
           r == q * shells
           s == r + ammo
           a == 2 * ammo
<1>1. "shell" \in Items /\ "gun" \in Items
  BY ForcesAssumption DEF Special
<1>2. row.type \in DOMAIN LandChr /\ row.items \in Stock /\ row.effic \in Int
  BY LandFields
<1>3. ammo \in Nat /\ ammo >= 1 /\ LandChr[row.type].dam \in Nat
  <2>1. LandChr[row.type].ammo \in Nat /\ LandChr[row.type].dam \in Nat
    BY <1>2, TablesAssumption
  <2> QED
    BY <2>1 DEF LandAmmo, Most
<1>4. guns \in Int /\ shells \in Int
  <2>1. row.items["shell"] \in Nat /\ row.items["gun"] \in Nat
    BY <1>1, <1>2 DEF Stock
  <2> HIDE DEF ammo
  <2> QED
    BY <1>3, <2>1 DEF Least
<1> HIDE DEF guns, shells, ammo
<1>5. d \in Int
  <2>1. 4 * guns \in Int /\ 9 * guns \in Int
    BY <1>4
  <2> QED
    BY <2>1, DrawInt
<1> HIDE DEF d
<1>6. p \in Int
  BY <1>2, <1>5, ProductInt
<1> HIDE DEF p
<1>7. full \in Int
  BY <1>6
<1> HIDE DEF full
<1>8. q \in Int
  BY <1>7
<1> HIDE DEF q
<1>9. r \in Int
  BY <1>4, <1>8, ProductInt
<1> HIDE DEF r
<1>10. s \in Int /\ a \in Nat \ {0}
  BY <1>3, <1>9
<1> HIDE DEF s, a
<1>11. s \div a \in Int
  BY <1>10
<1> QED
  BY <1>11 DEF LandShot, s, a, r, q, full, p, d, guns, shells, ammo

LEMMA BatteryFinite ==
    ASSUME Tables(World), NEW me, NEW spec, spec \subseteq DOMAIN land, NEW at
    PROVE  /\ IsFiniteSet(Battery(me, spec, at)) /\ Battery(me, spec, at) \subseteq Int
           /\ Battery(me, spec, at) \subseteq DOMAIN land
           /\ \A u \in Battery(me, spec, at) : land[u].items["shell"] > 0
<1>1. /\ IsFiniteSet(Matching(land, me, spec)) /\ Matching(land, me, spec) \subseteq Int
      /\ Matching(land, me, spec) \subseteq DOMAIN land
  BY TypedRows, MatchingFinite
<1>2. Battery(me, spec, at) \in SUBSET Matching(land, me, spec)
  BY DEF Battery
<1>3. \A u \in Battery(me, spec, at) : land[u].items["shell"] > 0
  BY DEF Battery, LandCanFire
<1> QED
  BY <1>1, <1>2, <1>3, FS_Subset

LEMMA BarrageQuiet ==
    ASSUME Tables(World), HoldsFit(World), NEW units, units \subseteq DOMAIN land
    PROVE  /\ Barrage(units) \in Quiet
           /\ \A u \in units : Barrage(units).land[u] = AfterShot(land[u])
<1> DEFINE new == [u \in units |-> AfterShot(land[u])]
<1>1. \A u \in DOMAIN new : new[u] \in LandRow(DOMAIN ship)
  BY TypedRows, AfterShotLand
<1>2. Barrage(units) = PutLands(World, new)
  BY DEF Barrage
<1>3. Barrage(units).land = Over(land, new)
  BY <1>2 DEF PutLands, World
<1>4. \A u \in units : Over(land, new)[u] = AfterShot(land[u])
  BY DEF Over
<1> HIDE DEF new
<1> QED
  BY <1>1, <1>2, <1>3, <1>4, WorldIsQuiet, PutLandsQuiet

LEMMA LandFiresAtShipFair ==
    ASSUME Tables(World), HoldsFit(World), NEW me \in Nations, NEW spec, spec \subseteq DOMAIN land,
           NEW t \in DOMAIN ship, NEW luck \in Int, LandFiresAtShip(me, spec, t, luck)
    PROVE  Fairly
<1> DEFINE S == Battery(me, spec, ship[t].at)
           V == {row \in HitRows(t) : S = {} => row = ship[t]}
           row == ShipShelled(t, S, luck)
           v == Barrage(S)
           w == PutShip(v, t, row)
<1>1. Done(w, FALSE)
  BY DEF LandFiresAtShip
<1>2. /\ IsFiniteSet(S) /\ S \subseteq Int /\ S \subseteq DOMAIN land
      /\ \A u \in S : land[u].items["shell"] > 0
  BY BatteryFinite
<1> HIDE DEF S
<1>3. \A x \in V : \A u \in S : ShipHit(x, LandShot(land[u], luck)) \in V
  <2> SUFFICES ASSUME NEW x \in V, NEW u \in S PROVE ShipHit(x, LandShot(land[u], luck)) \in V
    OBVIOUS
  <2>1. LandShot(land[u], luck) \in Int
    BY <1>2, TypedRows, LandShotInt
  <2> QED
    BY <2>1, DamagedRows DEF ShipHit
<1>4. ship[t] \in V
  BY ShipIsHull DEF ShipRows
<1>5. row \in V
  <2> HIDE DEF V
  <2> QED
    BY <1>2, <1>3, <1>4, ShipShelledIn
<1>6. v \in Quiet /\ \A u \in S : v.land[u] = AfterShot(land[u])
  BY <1>2, BarrageQuiet
<1> HIDE DEF row, v
<1>7. w \in Fought /\ w.land = v.land
  <2>1. v \in Fought /\ row \in HitRows(t)
    BY <1>5, <1>6, QuietIsFought
  <2>2. w \in Fought
    BY <2>1, PutShipFought
  <2>3. w.land = v.land
    BY <2>1 DEF PutShip, Fought, Now, Worlds
  <2> QED
    BY <2>2, <2>3
<1>8. CASE S = {}
  <2>1. row \in ShipRows(t)
    BY <1>5, <1>8 DEF ShipRows
  <2>2. Fair(w)
    BY <1>6, <2>1, PutShipQuiet, QuietIsFair
  <2> HIDE DEF w
  <2> QED
    BY <1>1, <1>7, <2>2 DEF Fairly
<1>9. CASE S # {}
  <2> HIDE DEF w
  <2>1. PICK u \in S : TRUE
    BY <1>9
  <2>2. w.land[u].items["shell"] < land[u].items["shell"] /\ u \in DOMAIN land
    BY <1>2, <1>6, <1>7, <2>1, TypedRows, AfterShotLand
  <2>3. Fair(w)
    BY <2>2 DEF Fair, Charged
  <2> QED
    BY <1>1, <1>7, <2>3 DEF Fairly
<1> QED
  BY <1>8, <1>9

LEMMA LandFiresAtSectQuiet ==
    ASSUME Tables(World), HoldsFit(World), NEW me \in Nations, NEW spec, spec \subseteq DOMAIN land,
           NEW at \in Sectors, NEW luck \in Int, LandFiresAtSect(me, spec, at, luck)
    PROVE  Quietly
<1> DEFINE S == Battery(me, spec, at)
           V == SectRows(at)
           row == SectShelled(at, S, luck)
<1>1. Done(PutSect(Barrage(S), at, row), FALSE)
  BY DEF LandFiresAtSect
<1>2. IsFiniteSet(S) /\ S \subseteq Int /\ S \subseteq DOMAIN land
  BY BatteryFinite
<1> HIDE DEF S
<1>3. \A v \in V : \A u \in S : SectHit(v, LandShot(land[u], luck)) \in V
  <2> SUFFICES ASSUME NEW v \in V, NEW u \in S PROVE SectHit(v, LandShot(land[u], luck)) \in V
    OBVIOUS
  <2>1. LandShot(land[u], luck) \in Int
    BY <1>2, TypedRows, LandShotInt
  <2> QED
    BY <2>1, ShelledSect DEF SectHit
<1>4. sect[at] \in V
  BY ThisSect
<1>5. row \in V
  <2> HIDE DEF V
  <2> QED
    BY <1>2, <1>3, <1>4, SectShelledIn
<1> HIDE DEF row
<1>6. PutSect(Barrage(S), at, row) \in Quiet
  BY <1>2, <1>5, BarrageQuiet, PutSectQuiet
<1> QED
  BY <1>1, <1>6 DEF Quietly

-----------------------------------------------------------------------------
(* Routes, march and attack. *)

\* What a search finds is a route.
IsRoute(route) == \E n \in Nat : route \in [1..n -> Directions]

LEMMA WaysAreRoutes ==
    ASSUME NEW way \in Ways
    PROVE  IsRoute(way)
<1>1. way \in Seq(Directions)
  BY WarAssumption
<1>2. Len(way) \in Nat /\ way \in [1..Len(way) -> Directions]
  BY <1>1
<1> QED
  BY <1>2 DEF IsRoute

LEMMA FoundRoutes ==
    ASSUME NEW s, NEW t, NEW passable, NEW max \in Nat, NEW route \in FindPath(s, t, passable, max)
    PROVE  IsRoute(route)
<1> DEFINE through(r) == \A k \in 1..Len(r) : Walk(s, SubSeq(r, 1, k)) \in passable
           routes(n) == {r \in [1..n -> Directions] : Walk(s, r) = t /\ through(r)}
           lengths == {n \in 1..max : routes(n) # {}}
<1>1. lengths # {} /\ route \in routes(Min(lengths))
  BY DEF FindPath
<1>2. IsFiniteSet(1..max)
  BY FS_Interval
<1>3. lengths \in SUBSET (1..max) /\ lengths \subseteq Nat /\ lengths \subseteq Int
  OBVIOUS
<1> HIDE DEF lengths
<1>4. IsFiniteSet(lengths)
  BY <1>2, <1>3, FS_Subset
<1>5. Min(lengths) \in lengths
  BY <1>1, <1>3, <1>4, LeastOfFinite
<1>6. Min(lengths) \in Nat
  BY <1>3, <1>5
<1> DEFINE n == Min(lengths)
<1>7. route \in [1..n -> Directions]
  BY <1>1
<1> HIDE DEF n
<1>8. n \in Nat
  BY <1>6 DEF n
<1> QED
  BY <1>7, <1>8 DEF IsRoute

LEMMA MarchedLand ==
    ASSUME NEW me, NEW row \in LandRow(DOMAIN ship), NEW route, IsRoute(route)
    PROVE  Marched(me, row, route) \in LandRow(DOMAIN ship)
<1> DEFINE V == [at : Sectors, mobil : -128..127, halt : BOOLEAN]
           base == [at |-> row.at, mobil |-> row.mobil, halt |-> FALSE]
           st == Trodden(me, row, route)
<1>1. base \in V
  BY LandFields
<1>2. \A v \in V : \A d \in Directions : Tread(me, v, d) \in V
  <2> SUFFICES ASSUME NEW v \in V, NEW d \in Directions PROVE Tread(me, v, d) \in V
    OBVIOUS
  <2> DEFINE to == Step(v.at, d)
  <2>1. to \in Sectors
    BY StepIsSector
  <2> HIDE DEF to
  <2>2. [v EXCEPT !.halt = TRUE] \in V
    OBVIOUS
  <2>3. v.mobil > 0 => [at |-> to, mobil |-> v.mobil - 1, halt |-> FALSE] \in V
    BY <2>1
  <2>4. Tread(me, v, d) = [v EXCEPT !.halt = TRUE]
        \/ (v.mobil > 0 /\ Tread(me, v, d) = [at |-> to, mobil |-> v.mobil - 1, halt |-> FALSE])
    BY DEF Tread, to
  <2> HIDE DEF V
  <2> QED
    BY <2>2, <2>3, <2>4
<1>3. PICK n \in Nat : route \in [1..n -> Directions]
  BY DEF IsRoute
<1>4. st \in V
  <2> HIDE DEF V
  <2> QED
    BY <1>1, <1>2, <1>3, TroddenIn
<1> DEFINE a == st.at
           m == st.mobil
<1>5. Marched(me, row, route) = [row EXCEPT !.at = a, !.mobil = m]
  BY DEF Marched
<1> HIDE DEF st
<1>6. a \in Sectors /\ m \in -128..127
  BY <1>4
<1> HIDE DEF a, m, V, base
<1>7. [row EXCEPT !.at = a] \in LandRow(DOMAIN ship)
  BY <1>6 DEF LandRow
<1>8. [[row EXCEPT !.at = a] EXCEPT !.mobil = m] \in LandRow(DOMAIN ship)
  BY <1>6, <1>7 DEF LandRow
<1> QED
  BY <1>5, <1>8

LEMMA MarchQuiet ==
    ASSUME Tables(World), HoldsFit(World), NEW me \in Nations, NEW spec, spec \subseteq DOMAIN land,
           NEW way \in Ways, March(me, spec, way)
    PROVE  Quietly
<1> DEFINE new == [u \in Marching(me, spec) |-> Marched(me, land[u], way)]
<1>1. Done(PutLands(World, new), FALSE)
  BY DEF March
<1>2. \A u \in DOMAIN new : new[u] \in LandRow(DOMAIN ship)
  <2> SUFFICES ASSUME NEW u \in Marching(me, spec)
               PROVE  Marched(me, land[u], way) \in LandRow(DOMAIN ship)
    OBVIOUS
  <2>1. land[u] \in LandRow(DOMAIN ship)
    BY TypedRows DEF Marching, Matching
  <2> QED
    BY <2>1, WaysAreRoutes, MarchedLand
<1> HIDE DEF new
<1>3. PutLands(World, new) \in Quiet
  BY <1>2, WorldIsQuiet, PutLandsQuiet
<1> QED
  BY <1>1, <1>3 DEF Quietly

LEMMA MarchToQuiet ==
    ASSUME Tables(World), HoldsFit(World), NEW me \in Nations, NEW u \in DOMAIN land,
           NEW to \in Sectors, MarchTo(me, u, to)
    PROVE  Quietly
<1>1. PICK route \in FindPath(land[u].at, to, {s \in Sectors : sect[s].type # "sea"}, MaxMarch) :
          Done(PutLand(World, u, Marched(me, land[u], route)), FALSE)
  BY DEF MarchTo
<1>2. MaxMarch \in Nat
  BY WarAssumption
<1>3. IsRoute(route)
  BY <1>2, FoundRoutes
<1>4. land[u] \in LandRow(DOMAIN ship)
  BY TypedRows
<1> DEFINE row == Marched(me, land[u], route)
<1>5. row \in LandRow(DOMAIN ship)
  BY <1>3, <1>4, MarchedLand
<1> HIDE DEF row
<1>6. PutLand(World, u, row) \in Quiet
  BY <1>5, WorldIsQuiet, PutLandQuiet
<1>7. Done(PutLand(World, u, row), FALSE)
  BY <1>1 DEF row
<1> QED
  BY <1>6, <1>7 DEF Quietly

LEMMA RisenNat ==
    ASSUME NEW row \in SectRow, NEW n \in Int
    PROVE  Risen(row, n) \in Nat /\ Risen(row, n) <= row.items["civ"] /\ row.items["civ"] \in Nat
<1> DEFINE civ == row.items["civ"]
           p == civ * n
           few == (p \div 3000) + 5
           count == Least(IF 2 * few > civ THEN civ \div 2 ELSE few, CHE_MAX - row.che)
<1>1. civ \in Nat /\ row.che \in Nat
  <2>1. "civ" \in Items
    BY ForcesAssumption DEF Special
  <2> QED
    BY <2>1 DEF SectRow, Stock
<1>2. p \in Int
  BY <1>1, ProductInt
<1>3. Risen(row, n) = IF n > 0 /\ row.own = row.old_own THEN Most(count, 0) ELSE 0
  BY SMT DEF Risen
<1>4. p >= 0 => few \in Nat
  <2> DEFINE m == 3000
  <2>1. m \in Nat \ {0} /\ few = (p \div m) + 5
    BY SMT
  <2> HIDE DEF m, p
  <2>2. p >= 0 => p \div m \in Nat
    BY <1>2, <2>1, DivNat
  <2> HIDE DEF few
  <2> QED
    BY <2>1, <2>2
<1>5. n > 0 => p >= 0
  <2> SUFFICES ASSUME n > 0 PROVE p >= 0
    OBVIOUS
  <2>1. n \in Nat
    OBVIOUS
  <2> HIDE DEF civ
  <2> QED
    BY <1>1, <2>1
<1> HIDE DEF p
<1>6. n > 0 => few \in Nat
  BY <1>4, <1>5
<1> HIDE DEF few, civ
<1>7. n > 0 => Most(count, 0) \in Nat /\ Most(count, 0) <= civ
  BY <1>1, <1>6 DEF Most, Least, CHE_MAX
<1> QED
  BY <1>1, <1>3, <1>7 DEF civ

LEMMA TakeoverSect ==
    ASSUME NEW s, NEW row \in SectRows(s), NEW me \in Nations, NEW luck \in Int
    PROVE  Takeover(row, me, luck) \in SectRows(s)
<1> DEFINE risen == Risen(row, (50 - row.loyal) + (luck - 26))
           target == IF me # row.old_own THEN me ELSE row.che_target
           again == row.old_own = me \/ row.items["civ"] = 0
           che == IF target = 0 THEN 0 ELSE row.che + risen
           loyal == IF again THEN 0 ELSE 50
           old == IF again THEN me ELSE row.old_own
           its == Shift(row.items, "civ", -risen)
           one == Owned(row, me, old)
<1>1. row \in SectRow /\ "civ" \in Items
  BY ForcesAssumption DEF SectRows, Special
<1>2. row.loyal \in Int /\ row.che \in Nat /\ row.che_target \in Nations /\ row.old_own \in Nations
      /\ row.items \in Stock
  BY <1>1 DEF SectRow
<1>3. risen \in Nat /\ risen <= row.items["civ"] /\ row.items["civ"] \in Nat
  <2>1. (50 - row.loyal) + (luck - 26) \in Int
    BY <1>2
  <2> QED
    BY <1>1, <2>1, RisenNat
<1> HIDE DEF risen
<1>4. its \in Stock
  <2>1. row.items["civ"] + (-risen) >= 0 /\ -risen \in Int
    BY <1>3
  <2> QED
    BY <1>1, <1>2, <2>1, ShiftStock
<1>5. target \in Nations /\ che \in Nat /\ loyal \in Int /\ old \in Nations
  BY <1>2, <1>3
<1>6. its = [row.items EXCEPT !["civ"] = @ - risen]
  BY <1>1, <1>2, <1>3 DEF Shift, Stock
<1>7. Takeover(row, me, luck)
        = [row EXCEPT !.own = me, !.avail = 0, !.items = [row.items EXCEPT !["civ"] = @ - risen],
                      !.che = che, !.che_target = target, !.loyal = loyal, !.old_own = old]
  <2> HIDE DEF its, one
  <2> QED
    BY <1>1 DEF Takeover, risen, SectRow
<1>8. one \in SectRow /\ one.type = row.type
  BY <1>1, <1>5, SectOwned
<1>9. Takeover(row, me, luck)
        = [one EXCEPT !.avail = 0, !.items = its, !.che = che, !.che_target = target, !.loyal = loyal]
  <2> HIDE DEF its, che, target, loyal, old, again
  <2> QED
    BY <1>1, <1>6, <1>7 DEF SectRow, Owned
<1> HIDE DEF its, che, target, loyal, old, again, one
<1> DEFINE two == [one EXCEPT !.avail = 0]
<1>10. two \in SectRow /\ two.type = row.type
  BY <1>8 DEF SectRow
<1>11. Takeover(row, me, luck) = [two EXCEPT !.items = its, !.che = che, !.che_target = target, !.loyal = loyal]
  BY <1>8, <1>9 DEF SectRow
<1> HIDE DEF two
<1>12. /\ Takeover(row, me, luck) \in SectRow
       /\ Takeover(row, me, luck).type = row.type
  BY <1>4, <1>5, <1>10, <1>11 DEF SectRow
<1> QED
  BY <1>12 DEF SectRows

LEMMA AttackQuiet ==
    ASSUME Tables(World), HoldsFit(World), NEW me \in Nations, NEW at \in Sectors, NEW spec,
           NEW mil, NEW luck, NEW back, NEW roll \in Int,
           Attack(me, at, spec, mil, luck, back, roll)
    PROVE  Quietly
<1> DEFINE own == sect[at].own
           attackers == {u \in spec : land[u].own = me /\ CanAttack(u)}
           defenders == {u \in DOMAIN land : land[u].own = own /\ land[u].at = at
                                             /\ land[u].ship = None}
           wins == AttackerWins(AttStr(me, Most(mil, 0), attackers), DefStr(at, defenders), luck, back)
           new == [u \in defenders |-> [land[u] EXCEPT !.effic = 0]]
           row == Takeover(sect[at], me, roll)
           won == PutLands(PutSect(World, at, row), new)
<1>1. Done(IF wins THEN won ELSE World, FALSE)
  BY DEF Attack
<1> HIDE DEF wins
<1>2. \A u \in DOMAIN new : new[u] \in LandRow(DOMAIN ship)
  <2> SUFFICES ASSUME NEW u \in DOMAIN land
               PROVE  [land[u] EXCEPT !.effic = 0] \in LandRow(DOMAIN ship)
    OBVIOUS
  <2>1. land[u] \in LandRow(DOMAIN ship)
    BY TypedRows
  <2> QED
    BY <2>1 DEF LandRow
<1>3. row \in SectRows(at)
  BY ThisSect, TakeoverSect
<1> HIDE DEF new, row
<1>4. PutSect(World, at, row) \in Quiet
  BY <1>3, WorldIsQuiet, PutSectQuiet
<1>5. won \in Quiet
  BY <1>2, <1>4, PutLandsQuiet
<1> HIDE DEF won
<1>6. (IF wins THEN won ELSE World) \in Quiet
  BY <1>5, WorldIsQuiet
<1> QED
  BY <1>1, <1>6 DEF Quietly

-----------------------------------------------------------------------------
(* Berths: the counts that shipcarry makes are enough for every plane to have one. *)

\* A finite set has subsets of every size up to its own.
LEMMA SubsetOfSize ==
    ASSUME NEW S, IsFiniteSet(S), NEW n \in Nat, n <= Cardinality(S)
    PROVE  \E T \in SUBSET S : IsFiniteSet(T) /\ Cardinality(T) = n
<1> DEFINE B == {T \in SUBSET S : Cardinality(T) >= n}
<1>1. S \in B
  OBVIOUS
<1>2. PICK T \in B : \A U \in B : U \subseteq T => U = T
  <2>1. B \subseteq SUBSET S /\ B # {}
    BY <1>1
  <2> HIDE DEF B
  <2> QED
    BY <2>1, LeastSubset
<1>3. IsFiniteSet(T) /\ Cardinality(T) \in Nat
  BY FS_Subset, FS_CardinalityType
<1>4. ASSUME Cardinality(T) > n PROVE FALSE
  <2>1. T # {}
    BY <1>3, <1>4, FS_EmptySet
  <2>2. PICK x \in T : TRUE
    BY <2>1
  <2>3. Cardinality(T \ {x}) = Cardinality(T) - 1
    BY <1>3, FS_RemoveElement
  <2>4. T \ {x} \in B
    BY <1>3, <1>4, <2>3
  <2> QED
    BY <1>2, <2>2, <2>4
<1> QED
  BY <1>3, <1>4

\* Of a set there is no more than of the places of a list that holds it.
LEMMA NoMoreThanPlaces ==
    ASSUME NEW T, NEW K, IsFiniteSet(K), NEW list, \A p \in T : \E k \in K : list[k] = p
    PROVE  IsFiniteSet(T) /\ Cardinality(T) <= Cardinality(K)
<1> DEFINE g == [p \in T |-> CHOOSE k \in K : list[k] = p]
<1>1. \A p \in T : g[p] \in K /\ list[g[p]] = p
  OBVIOUS
<1>2. g \in [T -> K]
  BY <1>1
<1> HIDE DEF g
<1>3. g \in Injection(T, K)
  BY <1>1, <1>2 DEF Injection, IsInjective
<1> QED
  BY <1>3, FS_Injection

\* The parts of the planes: by kind.
OfKind(bucket, b) == {p \in DOMAIN bucket : bucket[p] = b}
Buckets == {"chopper", "xlight", "missile", "fixed"}
Lies(flags, bucket, nch, nx, deck) ==
    \E berth \in [DOMAIN bucket -> {"chopper", "xlight", "deck"}] :
        /\ \A p \in DOMAIN bucket : MayLie(flags, bucket[p], berth[p])
        /\ Cardinality({p \in DOMAIN berth : berth[p] = "chopper"}) <= nch
        /\ Cardinality({p \in DOMAIN berth : berth[p] = "xlight"}) <= nx
        /\ Cardinality({p \in DOMAIN berth : berth[p] = "deck"}) <= deck

\* So many as there are places for: the others go on the deck.
Placed(S, n, T) ==
    /\ IsFiniteSet(T) /\ Cardinality(T) <= n
    /\ IsFiniteSet(S \ T) /\ Cardinality(S \ T) = Most(Cardinality(S) - n, 0)
    /\ (Cardinality(S) <= n => S \ T = {})
LEMMA PartOf ==
    ASSUME NEW S, IsFiniteSet(S), NEW n \in Nat
    PROVE  \E T \in SUBSET S : Placed(S, n, T)
<1>1. Cardinality(S) \in Nat
  BY FS_CardinalityType
<1>2. CASE Cardinality(S) <= n
  <2>1. S \in SUBSET S /\ S \ S = {}
    OBVIOUS
  <2>2. IsFiniteSet({}) /\ Cardinality({}) = 0
    BY FS_EmptySet
  <2>3. Most(Cardinality(S) - n, 0) = 0
    BY <1>1, <1>2 DEF Most
  <2>4. Placed(S, n, S)
    BY <1>2, <2>1, <2>2, <2>3 DEF Placed
  <2> QED
    BY <2>4
<1>3. CASE Cardinality(S) > n
  <2>1. PICK T \in SUBSET S : IsFiniteSet(T) /\ Cardinality(T) = n
    BY <1>1, <1>3, SubsetOfSize
  <2> DEFINE U == S \ T
  <2>2. IsFiniteSet(U) /\ Cardinality(U) \in Nat
    BY FS_Subset, FS_CardinalityType
  <2>3. S = T \cup U /\ T \cap U = {}
    OBVIOUS
  <2> HIDE DEF U
  <2>4. Cardinality(S) = Cardinality(T) + Cardinality(U)
    <3>1. Cardinality({}) = 0
      BY FS_EmptySet
    <3>2. Cardinality(T \cup U) = Cardinality(T) + Cardinality(U) - Cardinality(T \cap U)
      BY <2>1, <2>2, FS_Union
    <3>3. Cardinality(S) = Cardinality(T \cup U) /\ Cardinality(T \cap U) = 0
      BY <2>3, <3>1
    <3> QED
      BY <1>1, <2>1, <2>2, <3>2, <3>3
  <2> DEFINE c == Cardinality(S)
             d == Cardinality(U)
  <2>5. c \in Nat /\ d \in Nat /\ c = n + d /\ c > n
    BY <1>1, <1>3, <2>1, <2>2, <2>4
  <2> HIDE DEF c, d
  <2>6. d = Most(c - n, 0)
    BY <2>5 DEF Most
  <2>7. Placed(S, n, T)
    BY <2>1, <2>2, <2>5, <2>6 DEF Placed, U, c, d
  <2> QED
    BY <2>7
<1> DEFINE c == Cardinality(S)
<1>4. c <= n \/ c > n
  BY <1>1
<1> QED
  BY <1>2, <1>3, <1>4

LEMMA BerthsFound ==
    ASSUME NEW bucket, \A p \in DOMAIN bucket : bucket[p] \in Buckets, IsFiniteSet(DOMAIN bucket),
           NEW flags, NEW nch \in Nat, NEW nx \in Nat, NEW deck \in Int,
           Cardinality(OfKind(bucket, "fixed")) + Cardinality(OfKind(bucket, "missile"))
             + Most(Cardinality(OfKind(bucket, "chopper")) - nch, 0)
             + Most(Cardinality(OfKind(bucket, "xlight")) - nx, 0) <= deck,
           OfKind(bucket, "fixed") # {} \/ Cardinality(OfKind(bucket, "chopper")) > nch
                => "CARRIER" \in flags,
           OfKind(bucket, "missile") # {} \/ Cardinality(OfKind(bucket, "xlight")) > nx
                => {"CARRIER", "MISSILE"} \cap flags # {}
    PROVE  Lies(flags, bucket, nch, nx, deck)
<1> DEFINE P == DOMAIN bucket
           C == OfKind(bucket, "chopper")
           X == OfKind(bucket, "xlight")
           M == OfKind(bucket, "missile")
           F == OfKind(bucket, "fixed")
<1>1. /\ C \subseteq P /\ X \subseteq P /\ M \subseteq P /\ F \subseteq P
      /\ IsFiniteSet(C) /\ IsFiniteSet(X) /\ IsFiniteSet(M) /\ IsFiniteSet(F)
  <2>1. C \in SUBSET P /\ X \in SUBSET P /\ M \in SUBSET P /\ F \in SUBSET P
    BY DEF OfKind
  <2> QED
    BY <2>1, FS_Subset
<1>2. /\ C \cap X = {} /\ C \cap M = {} /\ C \cap F = {} /\ X \cap M = {} /\ X \cap F = {}
      /\ M \cap F = {}
  BY DEF OfKind
<1>3. P = C \cup X \cup M \cup F
  BY DEF OfKind, Buckets
<1>4. /\ \A p \in C : bucket[p] = "chopper"
      /\ \A p \in X : bucket[p] = "xlight"
      /\ \A p \in M : bucket[p] = "missile"
      /\ \A p \in F : bucket[p] = "fixed"
  BY DEF OfKind
<1> HIDE DEF C, X, M, F
<1>51. PICK C1 \in SUBSET C : Placed(C, nch, C1)
  BY <1>1, PartOf
<1>61. PICK X1 \in SUBSET X : Placed(X, nx, X1)
  BY <1>1, PartOf
<1>5. /\ IsFiniteSet(C1) /\ Cardinality(C1) <= nch
      /\ IsFiniteSet(C \ C1) /\ Cardinality(C \ C1) = Most(Cardinality(C) - nch, 0)
      /\ (Cardinality(C) <= nch => C \ C1 = {})
  BY <1>51 DEF Placed
<1>6. /\ IsFiniteSet(X1) /\ Cardinality(X1) <= nx
      /\ IsFiniteSet(X \ X1) /\ Cardinality(X \ X1) = Most(Cardinality(X) - nx, 0)
      /\ (Cardinality(X) <= nx => X \ X1 = {})
  BY <1>61 DEF Placed
<1> DEFINE C2 == C \ C1
           X2 == X \ X1
           D == F \cup M \cup C2 \cup X2
           berth == [p \in P |-> IF p \in C1 THEN "chopper" ELSE IF p \in X1 THEN "xlight" ELSE "deck"]
<1>7. /\ {p \in DOMAIN berth : berth[p] = "chopper"} = C1
      /\ {p \in DOMAIN berth : berth[p] = "xlight"} = X1
      /\ {p \in DOMAIN berth : berth[p] = "deck"} = D
  BY <1>1, <1>2, <1>3
<1>8. Cardinality(D) <= deck
  <2>1. /\ IsFiniteSet(C2) /\ IsFiniteSet(X2)
        /\ Cardinality(C2) = Most(Cardinality(C) - nch, 0)
        /\ Cardinality(X2) = Most(Cardinality(X) - nx, 0)
    BY <1>5, <1>6
  <2>2. C2 \subseteq C /\ X2 \subseteq X
    OBVIOUS
  <2>3. F \cap M = {} /\ (F \cup M) \cap C2 = {} /\ (F \cup M \cup C2) \cap X2 = {}
    BY <1>2, <2>2
  <2> HIDE DEF C2, X2
  <2>4. /\ IsFiniteSet(F \cup M)
        /\ Cardinality(F \cup M) = Cardinality(F) + Cardinality(M) - Cardinality(F \cap M)
    BY <1>1, FS_Union
  <2>5. /\ IsFiniteSet(F \cup M \cup C2)
        /\ Cardinality(F \cup M \cup C2)
             = Cardinality(F \cup M) + Cardinality(C2) - Cardinality((F \cup M) \cap C2)
    BY <2>1, <2>4, FS_Union
  <2>6. /\ IsFiniteSet(D)
        /\ Cardinality(D) = Cardinality(F \cup M \cup C2) + Cardinality(X2)
                            - Cardinality((F \cup M \cup C2) \cap X2)
    BY <2>1, <2>5, FS_Union
  <2>7. Cardinality({}) = 0
    BY FS_EmptySet
  <2>8. /\ Cardinality(F) \in Nat /\ Cardinality(M) \in Nat /\ Cardinality(C2) \in Nat
        /\ Cardinality(X2) \in Nat
    BY <1>1, <2>1, FS_CardinalityType
  <2>9. Cardinality(D) = Cardinality(F) + Cardinality(M) + Cardinality(C2) + Cardinality(X2)
    <3>1. /\ Cardinality(F \cap M) = 0 /\ Cardinality((F \cup M) \cap C2) = 0
          /\ Cardinality((F \cup M \cup C2) \cap X2) = 0
      BY <2>3, <2>7
    <3>2. Cardinality(F \cup M) = Cardinality(F) + Cardinality(M)
      BY <2>4, <2>8, <3>1
    <3>3. Cardinality(F \cup M \cup C2) = Cardinality(F) + Cardinality(M) + Cardinality(C2)
      BY <2>5, <2>8, <3>1, <3>2
    <3> HIDE DEF D
    <3> QED
      BY <2>6, <2>8, <3>1, <3>3
  <2>10. Cardinality(F) + Cardinality(M) + Most(Cardinality(C) - nch, 0)
           + Most(Cardinality(X) - nx, 0) <= deck
    BY DEF F, M, C, X
  <2> QED
    BY <2>1, <2>9, <2>10
<1>9. ASSUME NEW p \in P PROVE MayLie(flags, bucket[p], berth[p])
  <2>1. CASE p \in C1
    BY <1>4, <2>1 DEF MayLie
  <2>2. CASE p \in X1
    BY <1>2, <1>4, <2>2 DEF MayLie
  <2>3. CASE p \in F
    <3>1. berth[p] = "deck" /\ bucket[p] = "fixed"
      BY <1>2, <1>4, <2>3
    <3>2. "CARRIER" \in flags
      BY <2>3 DEF F
    <3> QED
      BY <3>1, <3>2 DEF MayLie
  <2>4. CASE p \in M
    <3>1. berth[p] = "deck" /\ bucket[p] = "missile"
      BY <1>2, <1>4, <2>4
    <3>2. {"CARRIER", "MISSILE"} \cap flags # {}
      BY <2>4 DEF M
    <3> QED
      BY <3>1, <3>2 DEF MayLie
  <2>5. CASE p \in C2
    <3>1. berth[p] = "deck" /\ bucket[p] = "chopper"
      BY <1>2, <1>4, <2>5
    <3>2. Cardinality(C) > nch
      <4>1. Cardinality(C) \in Nat
        BY <1>1, FS_CardinalityType
      <4> QED
        BY <1>5, <2>5, <4>1
    <3>3. "CARRIER" \in flags
      BY <3>2 DEF C
    <3> QED
      BY <3>1, <3>3 DEF MayLie
  <2>6. CASE p \in X2
    <3>1. berth[p] = "deck" /\ bucket[p] = "xlight"
      BY <1>2, <1>4, <2>6
    <3>2. Cardinality(X) > nx
      <4>1. Cardinality(X) \in Nat
        BY <1>1, FS_CardinalityType
      <4> QED
        BY <1>6, <2>6, <4>1
    <3>3. {"CARRIER", "MISSILE"} \cap flags # {}
      BY <3>2 DEF X
    <3> QED
      BY <3>1, <3>3 DEF MayLie
  <2> QED
    BY <1>3, <2>1, <2>2, <2>3, <2>4, <2>5, <2>6
<1>10. berth \in [P -> {"chopper", "xlight", "deck"}] /\ DOMAIN berth = P
  OBVIOUS
<1> HIDE DEF berth, D
<1> QED
  BY <1>5, <1>6, <1>7, <1>8, <1>9, <1>10 DEF Lies

-----------------------------------------------------------------------------
(* A ship whose counts fit houses its planes. *)

\* w2 has, aboard s, no more than w has and p; list names all that w has there.
Loads(w, w2, s, p, list) ==
    /\ w2.ship[s].type = w.ship[s].type
    /\ PlanesOn(w2, s) \subseteq PlanesOn(w, s) \cup {p}
    /\ \A q \in PlanesOn(w, s) : \E k \in 1..Len(list) : list[k] = q
    /\ \A q \in PlanesOn(w2, s) : w2.plane[q].type = w.plane[q].type

LEMMA Classified ==
    ASSUME NEW w, NEW p
    PROVE  Bucket(w, p) \in Buckets \cup {"none"}
  BY DEF Bucket, ClassifyPlane, Buckets

LEMMA HousedNotNone ==
    ASSUME NEW w, NEW s, Housed(w, s), NEW p \in PlanesOn(w, s)
    PROVE  Bucket(w, p) \in Buckets
<1> DEFINE chr == ShipChr[w.ship[s].type]
<1>1. PICK berth \in [PlanesOn(w, s) -> {"chopper", "xlight", "deck"}] :
            \A q \in DOMAIN berth : MayLie(chr.flags, Bucket(w, q), berth[q])
  BY DEF Housed
<1>2. MayLie(chr.flags, Bucket(w, p), berth[p])
  BY <1>1
<1> HIDE DEF chr
<1> QED
  BY <1>2 DEF MayLie, Buckets

LEMMA LiesHoused ==
    ASSUME NEW w, NEW s, NEW bucket, DOMAIN bucket = PlanesOn(w, s),
           \A q \in PlanesOn(w, s) : bucket[q] = Bucket(w, q),
           Lies(ShipChr[w.ship[s].type].flags, bucket, ShipChr[w.ship[s].type].nchoppers,
                ShipChr[w.ship[s].type].nxlight, ShipChr[w.ship[s].type].nplanes)
    PROVE  Housed(w, s)
<1> DEFINE chr == ShipChr[w.ship[s].type]
           room == Berth(chr)
           P == PlanesOn(w, s)
<1>1. PICK berth \in [P -> {"chopper", "xlight", "deck"}] :
        /\ \A p \in P : MayLie(chr.flags, bucket[p], berth[p])
        /\ Cardinality({p \in DOMAIN berth : berth[p] = "chopper"}) <= chr.nchoppers
        /\ Cardinality({p \in DOMAIN berth : berth[p] = "xlight"}) <= chr.nxlight
        /\ Cardinality({p \in DOMAIN berth : berth[p] = "deck"}) <= chr.nplanes
  BY DEF Lies
<1>2. /\ DOMAIN room = {"chopper", "xlight", "deck"}
      /\ room["chopper"] = chr.nchoppers /\ room["xlight"] = chr.nxlight /\ room["deck"] = chr.nplanes
  BY DEF Berth
<1> HIDE DEF room
<1>3. \A b \in DOMAIN room : Cardinality({p \in DOMAIN berth : berth[p] = b}) <= room[b]
  <2>1. ASSUME NEW b \in DOMAIN room
        PROVE  Cardinality({p \in DOMAIN berth : berth[p] = b}) <= room[b]
    <3>1. CASE b = "chopper"
      BY <1>1, <1>2, <3>1
    <3>2. CASE b = "xlight"
      BY <1>1, <1>2, <3>2
    <3>3. CASE b = "deck"
      BY <1>1, <1>2, <3>3
    <3> QED
      BY <1>2, <2>1, <3>1, <3>2, <3>3
  <2> QED
    BY <2>1
<1>4. \A p \in DOMAIN berth : MayLie(chr.flags, Bucket(w, p), berth[p])
  BY <1>1
<1> HIDE DEF chr, P
<1>5. \E b_ \in [P -> {"chopper", "xlight", "deck"}] :
        /\ \A p \in DOMAIN b_ : MayLie(chr.flags, Bucket(w, p), b_[p])
        /\ \A b \in DOMAIN room : Cardinality({p \in DOMAIN b_ : b_[p] = b}) <= room[b]
  BY <1>3, <1>4
<1> QED
  BY <1>5 DEF Housed, chr, P, room

LEMMA LoadsHoused ==
    ASSUME NEW w, NEW w2, NEW s, NEW p, NEW S, NEW list \in Seq(S), p \in S,
           Housed(w, s), w.ship[s].type \in DOMAIN ShipChr,
           Loads(w, w2, s, p, list), ShipCanCarry(w, w.ship[s].type, list, p)
    PROVE  Housed(w2, s)
<1> DEFINE chr == ShipChr[w.ship[s].type]
           all == Append(list, p)
           n == Len(all)
           P == PlanesOn(w2, s)
           bucket == [q \in P |-> Bucket(w, q)]
           K(b) == {k \in 1..n : Bucket(w, all[k]) = b}
           R == (1..n) \ (K("chopper") \cup K("xlight") \cup K("missile"))
           nc == Cardinality(K("chopper"))
           nx == Cardinality(K("xlight"))
           nm == Cardinality(K("missile"))
           nr == Cardinality(R)
<1>1. chr.nchoppers \in Nat /\ chr.nxlight \in Nat /\ chr.nplanes \in Nat
  BY TablesAssumption
<1>2. n \in Nat /\ n = Len(list) + 1 /\ Len(list) \in Nat /\ all[n] = p
      /\ \A k \in 1..Len(list) : all[k] = list[k]
  OBVIOUS
<1> HIDE DEF all, n
<1>3. \A q \in P : \E k \in 1..n : all[k] = q
  <2> SUFFICES ASSUME NEW q \in P PROVE \E k \in 1..n : all[k] = q
    OBVIOUS
  <2>1. CASE q = p
    BY <1>2, <2>1
  <2>2. CASE q \in PlanesOn(w, s)
    <3>1. PICK k \in 1..Len(list) : list[k] = q
      BY <2>2 DEF Loads
    <3> QED
      BY <1>2, <3>1
  <2> QED
    BY <2>1, <2>2 DEF Loads
<1>4. \A q \in P : bucket[q] \in Buckets
  <2> SUFFICES ASSUME NEW q \in P PROVE Bucket(w, q) \in Buckets
    OBVIOUS
  <2>1. CASE q = p
    <3>1. Bucket(w, p) # "none"
      BY DEF ShipCanCarry
    <3> QED
      BY <2>1, <3>1, Classified
  <2>2. CASE q \in PlanesOn(w, s)
    BY <2>2, HousedNotNone
  <2> QED
    BY <2>1, <2>2 DEF Loads
<1>5. IsFiniteSet(1..n) /\ Cardinality(1..n) = n
  BY <1>2, FS_Interval
<1>6. /\ K("chopper") \in SUBSET (1..n) /\ K("xlight") \in SUBSET (1..n)
      /\ K("missile") \in SUBSET (1..n) /\ R \in SUBSET (1..n)
  OBVIOUS
<1>7. /\ IsFiniteSet(K("chopper")) /\ IsFiniteSet(K("xlight")) /\ IsFiniteSet(K("missile"))
      /\ IsFiniteSet(R)
      /\ nc \in Nat /\ nx \in Nat /\ nm \in Nat /\ nr \in Nat
  BY <1>5, <1>6, FS_Subset, FS_CardinalityType
<1>8. nr = n - nc - nx - nm
  <2> DEFINE C == K("chopper")
             X == K("xlight")
             M == K("missile")
  <2>1. C \cap X = {} /\ (C \cup X) \cap M = {} /\ (C \cup X \cup M) \cap R = {}
        /\ 1..n = (C \cup X \cup M) \cup R
    OBVIOUS
  <2> HIDE DEF C, X, M, R
  <2>2. IsFiniteSet(C) /\ IsFiniteSet(X) /\ IsFiniteSet(M) /\ IsFiniteSet(R)
    BY <1>7 DEF C, X, M
  <2>3. IsFiniteSet(C \cup X)
        /\ Cardinality(C \cup X) = Cardinality(C) + Cardinality(X) - Cardinality(C \cap X)
    BY <2>2, FS_Union
  <2>4. IsFiniteSet(C \cup X \cup M)
        /\ Cardinality(C \cup X \cup M)
             = Cardinality(C \cup X) + Cardinality(M) - Cardinality((C \cup X) \cap M)
    BY <2>2, <2>3, FS_Union
  <2>5. Cardinality((C \cup X \cup M) \cup R)
           = Cardinality(C \cup X \cup M) + Cardinality(R) - Cardinality((C \cup X \cup M) \cap R)
    BY <2>2, <2>4, FS_Union
  <2>6. Cardinality({}) = 0
    BY FS_EmptySet
  <2>7. /\ Cardinality(C \cap X) = 0 /\ Cardinality((C \cup X) \cap M) = 0
        /\ Cardinality((C \cup X \cup M) \cap R) = 0
        /\ Cardinality((C \cup X \cup M) \cup R) = n
    BY <1>5, <2>1, <2>6
  <2>8. nc = Cardinality(C) /\ nx = Cardinality(X) /\ nm = Cardinality(M)
    BY DEF C, X, M
  <2> HIDE DEF nc, nx, nm, nr
  <2>9. Cardinality(C \cup X) = nc + nx
    BY <1>7, <2>3, <2>7, <2>8
  <2>10. Cardinality(C \cup X \cup M) = nc + nx + nm
    BY <1>7, <2>4, <2>7, <2>8, <2>9
  <2>11. n = nc + nx + nm + nr
    BY <1>7, <2>5, <2>7, <2>10 DEF nr
  <2> QED
    BY <1>2, <1>7, <2>11
<1>9. /\ Cardinality(OfKind(bucket, "chopper")) <= nc /\ IsFiniteSet(OfKind(bucket, "chopper"))
      /\ Cardinality(OfKind(bucket, "xlight")) <= nx /\ IsFiniteSet(OfKind(bucket, "xlight"))
      /\ Cardinality(OfKind(bucket, "missile")) <= nm /\ IsFiniteSet(OfKind(bucket, "missile"))
  <2>1. ASSUME NEW b
        PROVE  \A q \in OfKind(bucket, b) : \E k \in K(b) : all[k] = q
    BY <1>3 DEF OfKind
  <2> HIDE DEF K, bucket
  <2> QED
    BY <1>7, <2>1, NoMoreThanPlaces
<1>10. Cardinality(OfKind(bucket, "fixed")) <= nr /\ IsFiniteSet(OfKind(bucket, "fixed"))
  <2>1. \A q \in OfKind(bucket, "fixed") : \E k \in R : all[k] = q
    BY <1>3 DEF OfKind
  <2>2. IsFiniteSet(R)
    BY <1>7
  <2> HIDE DEF R, bucket, K, nc, nx, nm
  <2> QED
    BY <2>1, <2>2, NoMoreThanPlaces
<1>11. IsFiniteSet(P)
  BY <1>3, <1>5, NoMoreThanPlaces
<1>12. /\ nm + Most(nx - chr.nxlight, 0) > 0 => {"MISSILE", "CARRIER"} \cap chr.flags # {}
       /\ nr + Most(nc - chr.nchoppers, 0) > 0 => "CARRIER" \in chr.flags
       /\ (nr + Most(nc - chr.nchoppers, 0)) + (nm + Most(nx - chr.nxlight, 0)) <= chr.nplanes
  <2>1. /\ Aboard(w, all, "chopper") = nc /\ Aboard(w, all, "xlight") = nx
        /\ Aboard(w, all, "missile") = nm
    BY DEF Aboard, n
  <2> HIDE DEF nc, nx, nm, nr
  <2>2. /\ nm + Most(nx - chr.nxlight, 0) > 0 => {"MISSILE", "CARRIER"} \cap chr.flags # {}
        /\ (n - nc - nx - nm) + Most(nc - chr.nchoppers, 0) > 0 => "CARRIER" \in chr.flags
        /\ ((n - nc - nx - nm) + Most(nc - chr.nchoppers, 0)) + (nm + Most(nx - chr.nxlight, 0)) <= chr.nplanes
    BY <2>1 DEF ShipCanCarry, all, n
  <2> HIDE DEF chr
  <2> QED
    BY <1>8, <2>2
<1> DEFINE c == Cardinality(OfKind(bucket, "chopper"))
           x == Cardinality(OfKind(bucket, "xlight"))
           m == Cardinality(OfKind(bucket, "missile"))
           f == Cardinality(OfKind(bucket, "fixed"))
<1>13. /\ c \in Nat /\ x \in Nat /\ m \in Nat /\ f \in Nat
       /\ (OfKind(bucket, "fixed") # {} => f > 0)
       /\ (OfKind(bucket, "missile") # {} => m > 0)
  <2> HIDE DEF bucket
  <2>1. c \in Nat /\ x \in Nat /\ m \in Nat /\ f \in Nat
    BY <1>9, <1>10, FS_CardinalityType
  <2>2. (f = 0 <=> OfKind(bucket, "fixed") = {}) /\ (m = 0 <=> OfKind(bucket, "missile") = {})
    BY <1>9, <1>10, FS_EmptySet
  <2> QED
    BY <2>1, <2>2
<1>14. c <= nc /\ x <= nx /\ m <= nm /\ f <= nr
  BY <1>9, <1>10
<1> DEFINE flags == chr.flags
           a1 == chr.nchoppers
           a2 == chr.nxlight
           a3 == chr.nplanes
<1>15. /\ a1 \in Nat /\ a2 \in Nat /\ a3 \in Nat
  BY <1>1
<1>16. /\ nm + Most(nx - a2, 0) > 0 => {"CARRIER", "MISSILE"} \cap flags # {}
       /\ nr + Most(nc - a1, 0) > 0 => "CARRIER" \in flags
       /\ (nr + Most(nc - a1, 0)) + (nm + Most(nx - a2, 0)) <= a3
  BY <1>12
<1>17. DOMAIN bucket = P /\ \A q \in DOMAIN bucket : bucket[q] \in Buckets
  BY <1>4
<1>18. \A q \in P : bucket[q] = Bucket(w2, q)
  BY DEF Loads, Bucket
<1> HIDE DEF bucket, c, x, m, f, nc, nx, nm, nr, flags, a1, a2, a3, K, R
<1>19. /\ (OfKind(bucket, "fixed") # {} \/ c > a1 => "CARRIER" \in flags)
       /\ (OfKind(bucket, "missile") # {} \/ x > a2 => {"CARRIER", "MISSILE"} \cap flags # {})
       /\ f + m + Most(c - a1, 0) + Most(x - a2, 0) <= a3
  <2>1. f > 0 \/ c > a1 => nr + Most(nc - a1, 0) > 0
    BY <1>7, <1>13, <1>14, <1>15 DEF Most
  <2>2. m > 0 \/ x > a2 => nm + Most(nx - a2, 0) > 0
    BY <1>7, <1>13, <1>14, <1>15 DEF Most
  <2>3. f + m + Most(c - a1, 0) + Most(x - a2, 0) <= (nr + Most(nc - a1, 0)) + (nm + Most(nx - a2, 0))
    BY <1>7, <1>13, <1>14, <1>15 DEF Most
  <2>4. f + m + Most(c - a1, 0) + Most(x - a2, 0) \in Int
        /\ (nr + Most(nc - a1, 0)) + (nm + Most(nx - a2, 0)) \in Int
    BY <1>7, <1>13, <1>15 DEF Most
  <2>5. f + m + Most(c - a1, 0) + Most(x - a2, 0) <= a3
    BY <1>15, <1>16, <2>3, <2>4
  <2> QED
    BY <1>13, <1>16, <2>1, <2>2, <2>5
<1>20. Lies(flags, bucket, a1, a2, a3)
  <2>1. a3 \in Int
    BY <1>15
  <2> QED
    BY <1>11, <1>15, <1>17, <1>19, <2>1, BerthsFound DEF c, x, m, f
<1>21. chr = ShipChr[w2.ship[s].type]
  BY DEF Loads
<1> QED
  BY <1>17, <1>18, <1>20, <1>21, LiesHoused DEF flags, a1, a2, a3

-----------------------------------------------------------------------------
(* Planes that come down or go aboard. *)

\* With fewer planes aboard the berths are enough, too.
Lighter(v, w, s) ==
    /\ w.ship[s].type = v.ship[s].type
    /\ PlanesOn(w, s) \subseteq PlanesOn(v, s)
    /\ \A p \in PlanesOn(w, s) : w.plane[p].type = v.plane[p].type

LEMMA LighterHoused ==
    ASSUME NEW v, NEW w, NEW s, Housed(v, s), v.ship[s].type \in DOMAIN ShipChr,
           IsFiniteSet(PlanesOn(v, s)), Lighter(v, w, s)
    PROVE  Housed(w, s)
<1> DEFINE P == PlanesOn(v, s)
           Q == PlanesOn(w, s)
           chr == ShipChr[v.ship[s].type]
           room == Berth(chr)
<1>1. PICK berth \in [P -> {"chopper", "xlight", "deck"}] :
            /\ \A p \in DOMAIN berth : MayLie(chr.flags, Bucket(v, p), berth[p])
            /\ \A b \in DOMAIN room : Cardinality({p \in DOMAIN berth : berth[p] = b}) <= room[b]
  BY DEF Housed
<1>2. Q \subseteq P /\ chr = ShipChr[w.ship[s].type]
      /\ \A p \in Q : Bucket(w, p) = Bucket(v, p)
  BY DEF Lighter, Bucket
<1>3. IsFiniteSet(P)
  OBVIOUS
<1>4. \A b \in DOMAIN room : room[b] \in Nat
  <2>1. chr.nchoppers \in Nat /\ chr.nxlight \in Nat /\ chr.nplanes \in Nat
    BY TablesAssumption
  <2> HIDE DEF chr
  <2> QED
    BY <2>1 DEF Berth
<1> DEFINE few == [p \in Q |-> berth[p]]
<1> HIDE DEF P, chr, room, Q
<1>5. few \in [Q -> {"chopper", "xlight", "deck"}]
  BY <1>2
<1>6. \A p \in DOMAIN few : MayLie(chr.flags, Bucket(w, p), few[p])
  BY <1>1, <1>2
<1>7. \A b \in DOMAIN room : Cardinality({p \in DOMAIN few : few[p] = b}) <= room[b]
  <2> SUFFICES ASSUME NEW b \in DOMAIN room
               PROVE  Cardinality({p \in DOMAIN few : few[p] = b}) <= room[b]
    OBVIOUS
  <2> DEFINE A == {p \in DOMAIN berth : berth[p] = b}
             B == {p \in DOMAIN few : few[p] = b}
  <2>1. A \in SUBSET P /\ B \in SUBSET A
    BY <1>2
  <2>2. Cardinality(A) <= room[b]
    BY <1>1
  <2> HIDE DEF A, B, few
  <2>3. IsFiniteSet(A) /\ Cardinality(A) \in Nat
    BY <1>3, <2>1, FS_Subset, FS_CardinalityType
  <2>4. IsFiniteSet(B) /\ Cardinality(B) <= Cardinality(A)
    BY <2>1, <2>3, FS_Subset
  <2>5. Cardinality(B) \in Nat
    BY <2>4, FS_CardinalityType
  <2>6. room[b] \in Nat
    BY <1>4
  <2>7. Cardinality(B) <= room[b]
    BY <2>2, <2>3, <2>4, <2>5, <2>6
  <2> QED
    BY <2>7 DEF B
<1> HIDE DEF few
<1>8. \E b_ \in [Q -> {"chopper", "xlight", "deck"}] :
            /\ \A p \in DOMAIN b_ : MayLie(chr.flags, Bucket(w, p), b_[p])
            /\ \A b \in DOMAIN room : Cardinality({p \in DOMAIN b_ : b_[p] = b}) <= room[b]
  BY <1>5, <1>6, <1>7
<1> QED
  BY <1>2, <1>8 DEF Housed, Q, room

\* Ships stay where they are; planes go elsewhere, but not adrift.
Ashore(row) == row.ship # None => row.at = ship[row.ship].at \/ sect[row.at].type # "sea"
AirRows(p) == {row \in PlaneRow(DOMAIN ship) : row.type = plane[p].type /\ Ashore(row)}
Still == {w \in Now : /\ \A s \in DOMAIN ship : w.ship[s] \in ShipRows(s)
                      /\ \A p \in DOMAIN plane : w.plane[p] \in AirRows(p)
                      /\ \A s \in Sectors : w.sect[s] \in SectRows(s)}

LEMMA QuietIsStill ==
    ASSUME WorldInv(World), NEW w \in Quiet
    PROVE  w \in Still
<1>1. ASSUME NEW p \in DOMAIN plane PROVE w.plane[p] \in AirRows(p)
  <2>1. /\ w.plane[p] \in PlaneRow(DOMAIN ship) /\ w.plane[p].at = plane[p].at
        /\ w.plane[p].ship = plane[p].ship /\ w.plane[p].type = plane[p].type
    BY <1>1, FoughtRows, QuietIsFought
  <2>2. plane[p].ship # None => plane[p].at = ship[plane[p].ship].at \/ sect[plane[p].at].type # "sea"
    BY <1>1 DEF WorldInv, Moored, World
  <2> QED
    BY <2>1, <2>2 DEF AirRows, Ashore
<1> QED
  BY <1>1 DEF Quiet, Fought, Still

LEMMA StillRows ==
    ASSUME NEW w \in Still
    PROVE  /\ w \in Now
           /\ \A s \in DOMAIN ship : /\ w.ship[s] \in ShipRow /\ Fits(w.ship[s])
                                     /\ w.ship[s].at = ship[s].at /\ w.ship[s].type = ship[s].type
           /\ \A p \in DOMAIN plane : /\ w.plane[p] \in PlaneRow(DOMAIN ship)
                                      /\ w.plane[p].type = plane[p].type /\ Ashore(w.plane[p])
           /\ \A s \in Sectors : w.sect[s] \in SectRow /\ (w.sect[s].type = "sea" => sect[s].type = "sea")
           /\ DOMAIN w.ship = DOMAIN ship /\ DOMAIN w.plane = DOMAIN plane
           /\ DOMAIN w.land = DOMAIN land /\ DOMAIN w.sect = Sectors
<1>1. w \in Now
  BY DEF Still
<1>2. \A s \in DOMAIN ship : w.ship[s] \in ShipRows(s)
  BY DEF Still
<1>3. \A p \in DOMAIN plane : w.plane[p] \in AirRows(p)
  BY DEF Still
<1>4. \A s \in Sectors : w.sect[s] \in SectRows(s)
  BY DEF Still
<1>5. /\ DOMAIN w.ship = DOMAIN ship /\ DOMAIN w.plane = DOMAIN plane
      /\ DOMAIN w.land = DOMAIN land /\ DOMAIN w.sect = Sectors
  BY <1>1 DEF Now, Worlds
<1>6. \A s \in DOMAIN ship : /\ w.ship[s] \in ShipRow /\ Fits(w.ship[s])
                             /\ w.ship[s].at = ship[s].at /\ w.ship[s].type = ship[s].type
  BY <1>2 DEF ShipRows, HitRows, HullRow
<1>7. \A p \in DOMAIN plane : /\ w.plane[p] \in PlaneRow(DOMAIN ship)
                              /\ w.plane[p].type = plane[p].type /\ Ashore(w.plane[p])
  BY <1>3 DEF AirRows
<1>8. \A s \in Sectors : w.sect[s] \in SectRow /\ (w.sect[s].type = "sea" => sect[s].type = "sea")
  BY <1>4 DEF SectRows
<1> QED
  BY <1>1, <1>5, <1>6, <1>7, <1>8

LEMMA StillKeeps ==
    ASSUME WorldInv(World), NEW w \in Still, HangarFits(w)
    PROVE  WorldInv(w) /\ Fair(w)
<1>1. /\ w \in Worlds(DOMAIN w.ship, DOMAIN w.plane, DOMAIN w.land)
      /\ DOMAIN w.ship = DOMAIN ship /\ DOMAIN w.plane = DOMAIN plane /\ DOMAIN w.land = DOMAIN land
  BY StillRows DEF Now
<1>2. Tables(w)
  BY <1>1 DEF WorldInv, Tables, World
<1>3. HoldsFit(w)
  BY <1>1, StillRows DEF HoldsFit, Fits
<1>4. Moored(w)
  <2> SUFFICES ASSUME NEW p \in DOMAIN plane, w.plane[p].ship # None
               PROVE  \/ w.plane[p].at = w.ship[w.plane[p].ship].at
                      \/ w.sect[w.plane[p].at].type # "sea"
    BY <1>1 DEF Moored
  <2>1. w.plane[p] \in PlaneRow(DOMAIN ship) /\ Ashore(w.plane[p])
    BY StillRows
  <2>2. w.plane[p].at \in Sectors /\ w.plane[p].ship \in DOMAIN ship
    BY <2>1 DEF PlaneRow
  <2>3. w.plane[p].at = ship[w.plane[p].ship].at \/ sect[w.plane[p].at].type # "sea"
    BY <2>1 DEF Ashore
  <2>4. w.ship[w.plane[p].ship].at = ship[w.plane[p].ship].at
        /\ (w.sect[w.plane[p].at].type = "sea" => sect[w.plane[p].at].type = "sea")
    BY <2>2, StillRows
  <2> QED
    BY <2>3, <2>4
<1>5. Fair(w)
  BY DEF Still, ShipRows, Fair
<1> QED
  BY <1>2, <1>3, <1>4, <1>5 DEF WorldInv

LEMMA PutPlaneStill ==
    ASSUME NEW w \in Still, NEW p \in DOMAIN plane, NEW row \in AirRows(p)
    PROVE  /\ PutPlane(w, p, row) \in Still
           /\ PutPlane(w, p, row).plane[p] = row
           /\ \A q \in DOMAIN plane \ {p} : PutPlane(w, p, row).plane[q] = w.plane[q]
           /\ PutPlane(w, p, row).ship = w.ship
<1> DEFINE new == PutPlane(w, p, row)
<1>1. row \in PlaneRow(DOMAIN ship)
  BY DEF AirRows
<1>2. /\ w \in Now /\ \A s \in DOMAIN ship : w.ship[s] \in ShipRows(s)
      /\ \A q \in DOMAIN plane : w.plane[q] \in AirRows(q)
      /\ \A s \in Sectors : w.sect[s] \in SectRows(s)
  BY DEF Still
<1>3. new.ship = w.ship /\ new.sect = w.sect /\ new.plane = [w.plane EXCEPT ![p] = row]
  BY <1>2 DEF PutPlane, Now, Worlds
<1>4. new \in Now
  BY <1>1, <1>2 DEF PutPlane, Now, Worlds
<1>5. DOMAIN w.plane = DOMAIN plane
  BY <1>2 DEF Now, Worlds
<1>6. new.plane[p] = row /\ \A q \in DOMAIN plane \ {p} : new.plane[q] = w.plane[q]
  BY <1>3, <1>5
<1>7. \A q \in DOMAIN plane : new.plane[q] \in AirRows(q)
  BY <1>2, <1>6
<1> HIDE DEF new
<1>8. new \in Still
  BY <1>2, <1>3, <1>4, <1>7 DEF Still
<1> QED
  BY <1>3, <1>6, <1>8 DEF new

\* Who is aboard after a plane is put.
LEMMA AboardAfterPut ==
    ASSUME NEW w \in Still, NEW p \in DOMAIN plane, NEW row \in AirRows(p), NEW s
    PROVE  PlanesOn(PutPlane(w, p, row), s)
             = (PlanesOn(w, s) \ {p}) \cup (IF row.ship = s THEN {p} ELSE {})
<1> DEFINE new == PutPlane(w, p, row)
<1>1. /\ new \in Still /\ new.plane[p] = row
      /\ \A q \in DOMAIN plane \ {p} : new.plane[q] = w.plane[q]
  BY PutPlaneStill
<1> HIDE DEF new
<1>2. DOMAIN new.plane = DOMAIN plane /\ DOMAIN w.plane = DOMAIN plane
  BY <1>1, StillRows
<1>3. PlanesOn(new, s) = (PlanesOn(w, s) \ {p}) \cup (IF row.ship = s THEN {p} ELSE {})
  BY <1>1, <1>2 DEF PlanesOn
<1> QED
  BY <1>3 DEF new

LEMMA PlanesOnFinite ==
    ASSUME Tables(World), NEW w \in Still, NEW s
    PROVE  /\ PlanesOn(w, s) \subseteq DOMAIN plane /\ IsFiniteSet(PlanesOn(w, s))
           /\ PlanesOn(w, s) \subseteq Int
<1>1. DOMAIN w.plane = DOMAIN plane /\ IsFiniteSet(DOMAIN plane) /\ DOMAIN plane \subseteq Int
  BY StillRows, TypedRows
<1>2. PlanesOn(w, s) \in SUBSET DOMAIN plane
  BY <1>1 DEF PlanesOn
<1> QED
  BY <1>1, <1>2, FS_Subset

-----------------------------------------------------------------------------
(* unload of planes, launch. *)

\* A command that ends with rows in order, and no shot for nothing.
Soundly == \E w : WorldInv(w) /\ Fair(w) /\ \E again \in BOOLEAN : Done(w, again)

LEMMA FairlySoundly ==
    ASSUME WorldInv(World), Fairly
    PROVE  Soundly
<1>1. PICK w \in Fought, again \in BOOLEAN : Fair(w) /\ Done(w, again)
  BY DEF Fairly
<1>2. WorldInv(w)
  BY FoughtKeeps
<1> QED
  BY <1>1, <1>2 DEF Soundly

LEMMA QuietlySoundly ==
    ASSUME WorldInv(World), Quietly
    PROVE  Soundly
  BY QuietlyFairly, FairlySoundly

\* The planes that come off: none goes aboard, or to another ship.
OffRows(p) == {row \in AirRows(p) : row.ship \in {plane[p].ship, None}}

LEMMA PutSectStill ==
    ASSUME NEW w \in Still, NEW u \in Sectors, NEW row \in SectRows(u)
    PROVE  /\ PutSect(w, u, row) \in Still
           /\ PutSect(w, u, row).plane = w.plane /\ PutSect(w, u, row).ship = w.ship
<1> DEFINE new == PutSect(w, u, row)
<1>1. row \in SectRow
  BY DEF SectRows
<1>2. /\ w \in Now /\ \A s \in DOMAIN ship : w.ship[s] \in ShipRows(s)
      /\ \A q \in DOMAIN plane : w.plane[q] \in AirRows(q)
      /\ \A s \in Sectors : w.sect[s] \in SectRows(s)
  BY DEF Still
<1>3. new.ship = w.ship /\ new.plane = w.plane /\ new.sect = [w.sect EXCEPT ![u] = row]
  BY <1>2 DEF PutSect, Now, Worlds
<1>4. new \in Now
  BY <1>1, <1>2 DEF PutSect, Now, Worlds
<1>5. \A s \in Sectors : new.sect[s] \in SectRows(s)
  <2>1. DOMAIN w.sect = Sectors
    BY <1>2 DEF Now, Worlds
  <2> QED
    BY <1>2, <1>3, <2>1
<1> HIDE DEF new
<1>6. new \in Still
  BY <1>2, <1>3, <1>4, <1>5 DEF Still
<1> QED
  BY <1>3, <1>6 DEF new

\* A distance is a number of steps.
LEMMA MapDistNat ==
    ASSUME NEW s \in Sectors, NEW t \in Sectors
    PROVE  MapDist(s, t) \in Nat
<1>1. /\ WorldX \in Nat \ {0} /\ WorldY \in Nat \ {0}
      /\ s[1] \in Int /\ s[2] \in Int /\ t[1] \in Int /\ t[2] \in Int
  BY ForcesAssumption DEF Sectors
<1>2. ASSUME NEW a \in Int, NEW b \in Int, NEW n \in Nat \ {0}
      PROVE  Apart(a, b, n) \in Nat
  <2> DEFINE d == (IF a >= b THEN a - b ELSE b - a) % n
  <2>1. d \in 0..n - 1
    OBVIOUS
  <2> HIDE DEF d
  <2>2. Apart(a, b, n) = IF d > n \div 2 THEN n - d ELSE d
    BY DEF Apart, d
  <2> QED
    BY <2>1, <2>2
<1> DEFINE dx == Apart(s[1], t[1], WorldX)
           dy == Apart(s[2], t[2], WorldY)
<1>3. dx \in Nat /\ dy \in Nat
  BY <1>1, <1>2
<1>4. MapDist(s, t) = IF dx > dy THEN ((dx - dy) \div 2) + dy ELSE dy
  BY DEF MapDist
<1> HIDE DEF dx, dy
<1> QED
  BY <1>3, <1>4

LEMMA OffKeeps ==
    ASSUME WorldInv(World), NEW w \in Still, \A p \in DOMAIN plane : w.plane[p] \in OffRows(p)
    PROVE  WorldInv(w) /\ Fair(w)
<1>1. Tables(World)
  BY DEF WorldInv
<1>2. ASSUME NEW s \in DOMAIN ship PROVE Housed(w, s)
  <2>1. World \in Still
    BY WorldIsQuiet, QuietIsStill DEF WorldInv
  <2>2. s # None
    BY <1>1, <1>2 DEF Tables, World, None
  <2>3. PlanesOn(w, s) \subseteq PlanesOn(World, s)
    <3>1. DOMAIN w.plane = DOMAIN plane /\ World.plane = plane
      BY StillRows DEF World
    <3>2. \A p \in DOMAIN plane : w.plane[p].ship \in {plane[p].ship, None}
      BY DEF OffRows
    <3> QED
      BY <2>2, <3>1, <3>2 DEF PlanesOn
  <2>4. IsFiniteSet(PlanesOn(World, s)) /\ PlanesOn(World, s) \subseteq DOMAIN plane
    BY <1>1, <2>1, PlanesOnFinite
  <2>5. World.ship[s].type = ship[s].type /\ w.ship[s].type = ship[s].type
        /\ ship[s].type \in DOMAIN ShipChr
    <3>1. ship[s] \in ShipRow
      BY <1>1, <1>2, TypedRows
    <3> QED
      BY <1>2, <3>1, StillRows DEF World, ShipRow
  <2>6. \A p \in DOMAIN plane : w.plane[p].type = World.plane[p].type
    BY StillRows DEF World
  <2>7. Lighter(World, w, s)
    BY <2>3, <2>4, <2>5, <2>6 DEF Lighter
  <2>8. Housed(World, s)
    BY <1>2 DEF WorldInv, HangarFits, World
  <2> QED
    BY <2>4, <2>5, <2>7, <2>8, LighterHoused
<1>3. DOMAIN w.ship = DOMAIN ship
  BY StillRows
<1>4. HangarFits(w)
  BY <1>2, <1>3 DEF HangarFits
<1> QED
  BY <1>4, StillKeeps

LEMMA UnloadPlanesSound ==
    ASSUME WorldInv(World), NEW me \in Nations, NEW spec, spec \subseteq DOMAIN ship, NEW planes,
           UnloadPlanes(me, spec, planes)
    PROVE  Soundly
<1> DEFINE off == {p \in Matching(plane, me, planes) : plane[p].ship \in Matching(ship, me, spec)}
           row(p) == IF p \in off THEN [plane[p] EXCEPT !.ship = None, !.at = ship[plane[p].ship].at]
                     ELSE plane[p]
           rows_ == [p \in DOMAIN plane |-> row(p)]
           w == [World EXCEPT !.plane = rows_]
<1>1. Done(w, FALSE)
  BY DEF UnloadPlanes
<1>2. Tables(World) /\ HoldsFit(World) /\ World \in Fought /\ World \in Still
  BY WorldIsQuiet, QuietIsStill DEF WorldInv
<1>3. ASSUME NEW p \in DOMAIN plane PROVE row(p) \in OffRows(p)
  <2>1. plane[p] \in PlaneRow(DOMAIN ship)
    BY <1>2, <1>3, TypedRows
  <2>2. plane[p] \in AirRows(p)
    BY <1>2, <1>3 DEF Still, World
  <2>3. CASE p \notin off
    BY <2>2, <2>3 DEF OffRows
  <2>4. CASE p \in off
    <3> DEFINE to == ship[plane[p].ship].at
    <3>1. plane[p].ship \in DOMAIN ship
      BY <2>4 DEF Matching
    <3>2. to \in Sectors
      BY <1>2, <3>1, TypedRows DEF ShipRow
    <3>3. row(p) = [plane[p] EXCEPT !.ship = None, !.at = to]
      BY <2>4
    <3> HIDE DEF to
    <3>4. row(p) \in PlaneRow(DOMAIN ship) /\ row(p).ship = None /\ row(p).type = plane[p].type
      BY <2>1, <3>2, <3>3 DEF PlaneRow
    <3> QED
      BY <3>4 DEF OffRows, AirRows, Ashore
  <2> QED
    BY <2>3, <2>4
<1>4. rows_ \in [DOMAIN plane -> PlaneRow(DOMAIN ship)]
  BY <1>3 DEF OffRows, AirRows
<1>5. /\ w.ship = ship /\ w.sect = sect /\ w.plane = rows_
      /\ \A p \in DOMAIN plane : rows_[p] \in OffRows(p)
  BY <1>3 DEF World
<1>6. w \in Now
  <2> HIDE DEF rows_
  <2>1. World \in Now
    BY <1>2 DEF Fought
  <2> QED
    BY <1>4, <2>1 DEF Now, Worlds, World
<1> HIDE DEF w, rows_
<1>7. w \in Still
  <2>1. \A s \in DOMAIN ship : w.ship[s] \in ShipRows(s)
    BY <1>2, <1>5 DEF Still, World
  <2>2. \A s \in Sectors : w.sect[s] \in SectRows(s)
    BY <1>2, <1>5 DEF Still, World
  <2>3. \A p \in DOMAIN plane : w.plane[p] \in AirRows(p)
    BY <1>5 DEF OffRows
  <2> QED
    BY <1>6, <2>1, <2>2, <2>3 DEF Still
<1>8. WorldInv(w) /\ Fair(w)
  BY <1>5, <1>7, OffKeeps
<1>9. Done(w, FALSE)
  BY <1>1 DEF w, rows_
<1> QED
  BY <1>8, <1>9 DEF Soundly

(* Launch: what a missile or a satellite leaves in its row. *)
LaunchRows(v) == /\ v.w \in Still /\ \A p \in DOMAIN plane : v.w.plane[p] \in OffRows(p)
Launching(at) == {v \in [w : Now, target : SectRows(at), at : {at}, hit : BOOLEAN] : LaunchRows(v)}

LEMMA LaunchOneKeeps ==
    ASSUME WorldInv(World), NEW at \in Sectors, NEW st \in Launching(at), NEW p \in DOMAIN plane,
           NEW orbit \in Orbits
    PROVE  LaunchOne(st, p, orbit) \in Launching(at)
<1>1. Tables(World) /\ HoldsFit(World) /\ World \in Quiet /\ World \in Still
  BY WorldIsQuiet, QuietIsStill DEF WorldInv
<1>2. /\ st \in [w : Now, target : SectRows(at), at : {at}, hit : BOOLEAN]
      /\ st.w \in Still /\ \A q \in DOMAIN plane : st.w.plane[q] \in OffRows(q)
  BY DEF Launching, LaunchRows
<1>3. plane[p] \in PlaneRow(DOMAIN ship) /\ plane[p] \in AirRows(p)
  BY <1>1, TypedRows DEF Still, World
<1>4. ASSUME NEW row \in OffRows(p), NEW target \in SectRows(at), NEW hit \in BOOLEAN
      PROVE  [st EXCEPT !.w = PutPlane(@, p, row), !.target = target, !.hit = hit] \in Launching(at)
  <2> DEFINE v == PutPlane(st.w, p, row)
             to == [st EXCEPT !.w = v, !.target = target, !.hit = hit]
  <2>1. row \in AirRows(p)
    BY DEF OffRows
  <2>2. /\ v \in Still /\ v.plane[p] = row
        /\ \A q \in DOMAIN plane \ {p} : v.plane[q] = st.w.plane[q]
    BY <1>2, <2>1, PutPlaneStill
  <2> HIDE DEF v
  <2>3. \A q \in DOMAIN plane : v.plane[q] \in OffRows(q)
    BY <1>2, <2>2
  <2>4. v \in Now
    BY <2>2 DEF Still
  <2>5. to \in [w : Now, target : SectRows(at), at : {at}, hit : BOOLEAN] /\ to.w = v
    BY <1>2, <2>4
  <2> HIDE DEF to
  <2>6. to \in Launching(at)
    BY <2>2, <2>3, <2>5 DEF Launching, LaunchRows
  <2> QED
    BY <2>6 DEF to, v
<1>5. [plane[p] EXCEPT !.effic = 0] \in OffRows(p)
  <2> DEFINE row == [plane[p] EXCEPT !.effic = 0]
  <2>1. row \in PlaneRow(DOMAIN ship) /\ row.ship = plane[p].ship /\ row.at = plane[p].at
        /\ row.type = plane[p].type
    BY <1>3 DEF PlaneRow
  <2> HIDE DEF row
  <2>2. row \in OffRows(p)
    BY <1>3, <2>1 DEF OffRows, AirRows, Ashore
  <2> QED
    BY <2>2 DEF row
<1>6. st.target \in SectRows(at) /\ st.hit \in BOOLEAN /\ st.at = at
  BY <1>2
<1>7. [st EXCEPT !.w = PutPlane(@, p, [plane[p] EXCEPT !.effic = 0])] \in Launching(at)
  <2> DEFINE row == [plane[p] EXCEPT !.effic = 0]
             v == PutPlane(st.w, p, row)
  <2>1. [st EXCEPT !.w = v, !.target = st.target, !.hit = st.hit] \in Launching(at)
    BY <1>4, <1>5, <1>6
  <2>2. [st EXCEPT !.w = v, !.target = st.target, !.hit = st.hit] = [st EXCEPT !.w = v]
    <3> HIDE DEF v
    <3> QED
      BY <1>2
  <2> QED
    BY <2>1, <2>2
<1>8. Strike(st, p) \in Launching(at)
  <2> DEFINE target == Shelled(st.target, Least(2 * plane[p].effic, 100))
  <2>1. target \in SectRows(at)
    <3>1. Least(2 * plane[p].effic, 100) \in Int
      BY <1>3 DEF PlaneRow, Least
    <3> QED
      BY <1>6, <3>1, ShelledSect
  <2> HIDE DEF target
  <2>2. [st EXCEPT !.w = PutPlane(@, p, [plane[p] EXCEPT !.effic = 0]), !.target = target, !.hit = TRUE]
          \in Launching(at)
    BY <1>4, <1>5, <2>1
  <2>3. \/ Strike(st, p) = st
        \/ Strike(st, p) = [st EXCEPT !.w = PutPlane(@, p, [plane[p] EXCEPT !.effic = 0]),
                                      !.target = target, !.hit = TRUE]
    BY DEF Strike, target
  <2> QED
    BY <2>2, <2>3
<1>9. Orbit(st, p, orbit) \in Launching(at)
  <2> DEFINE to == IF orbit = 0 THEN at ELSE Step(at, orbit)
             dist == MapDist(plane[p].at, at)
             mobil == Most(plane[p].mobil - dist, 0)
             row == [plane[p] EXCEPT !.at = to, !.launched = TRUE, !.mobil = mobil, !.ship = None]
  <2>1. orbit # NotAsked /\ orbit # Fails => to \in Sectors
    <3>1. orbit \in 1..6 => Step(at, orbit) \in Sectors
      BY StepIsSector DEF Directions
    <3> QED
      BY <3>1 DEF Orbits, NotAsked, Fails
  <2>2. dist \in Nat
    BY <1>3, MapDistNat DEF PlaneRow
  <2>3. mobil \in -128..127
    BY <1>3, <2>2 DEF PlaneRow, Most
  <2> HIDE DEF to, dist, mobil
  <2>4. orbit # NotAsked /\ orbit # Fails => row \in OffRows(p)
    <3> SUFFICES ASSUME to \in Sectors PROVE row \in OffRows(p)
      BY <2>1
    <3>1. row \in PlaneRow(DOMAIN ship) /\ row.ship = None /\ row.type = plane[p].type
      BY <1>3, <2>3 DEF PlaneRow
    <3> QED
      BY <3>1 DEF OffRows, AirRows, Ashore
  <2>5. orbit # NotAsked /\ orbit # Fails => [st EXCEPT !.w = PutPlane(@, p, row)] \in Launching(at)
    <3> SUFFICES ASSUME row \in OffRows(p)
                 PROVE  [st EXCEPT !.w = PutPlane(@, p, row)] \in Launching(at)
      BY <2>4
    <3> HIDE DEF row
    <3> DEFINE v == PutPlane(st.w, p, row)
    <3>1. [st EXCEPT !.w = v, !.target = st.target, !.hit = st.hit] \in Launching(at)
      BY <1>4, <1>6
    <3>2. [st EXCEPT !.w = v, !.target = st.target, !.hit = st.hit] = [st EXCEPT !.w = v]
      <4> HIDE DEF v
      <4> QED
        BY <1>2
    <3> QED
      BY <3>1, <3>2
  <2>6. \/ Orbit(st, p, orbit) = st
        \/ Orbit(st, p, orbit) = [st EXCEPT !.w = PutPlane(@, p, [plane[p] EXCEPT !.effic = 0])]
        \/ /\ orbit # NotAsked /\ orbit # Fails
           /\ Orbit(st, p, orbit) = [st EXCEPT !.w = PutPlane(@, p, row)]
    BY <1>6 DEF Orbit, to, dist, mobil
  <2> HIDE DEF row
  <2> QED
    BY <1>7, <2>5, <2>6
<1> QED
  BY <1>8, <1>9 DEF LaunchOne

LEMMA LaunchSound ==
    ASSUME WorldInv(World), NEW me \in Nations, NEW spec, spec \subseteq DOMAIN plane,
           NEW at \in Sectors, NEW orbit \in Orbits, Launch(me, spec, at, orbit)
    PROVE  Soundly
<1> DEFINE candidates == {p \in Mine(me, spec) : plane[p].effic > 0}
           st == Launched(candidates, at, orbit)
           V == Launching(at)
           w == IF st.hit THEN PutSect(st.w, at, st.target) ELSE st.w
<1>1. Done(w, FALSE)
  BY DEF Launch
<1>2. Tables(World) /\ HoldsFit(World) /\ World \in Fought /\ World \in Still
  BY WorldIsQuiet, QuietIsStill DEF WorldInv
<1>3. candidates \subseteq DOMAIN plane /\ candidates \subseteq Int /\ IsFiniteSet(candidates)
  <2>1. candidates \in SUBSET DOMAIN plane
    BY DEF Mine
  <2> QED
    BY <1>2, <2>1, TypedRows, FS_Subset
<1>4. [w |-> World, target |-> sect[at], at |-> at, hit |-> FALSE] \in V
  <2> DEFINE base == [w |-> World, target |-> sect[at], at |-> at, hit |-> FALSE]
  <2>1. World \in Now /\ sect[at] \in SectRows(at)
    BY <1>2, ThisSect DEF Fought
  <2>2. \A p \in DOMAIN plane : World.plane[p] \in OffRows(p)
    BY <1>2 DEF Still, World, OffRows
  <2>3. base \in [w : Now, target : SectRows(at), at : {at}, hit : BOOLEAN] /\ base.w = World
    BY <2>1
  <2> HIDE DEF base
  <2>4. base \in V
    BY <1>2, <2>2, <2>3 DEF Launching, LaunchRows
  <2> QED
    BY <2>4 DEF base
<1>5. \A v \in V : \A p \in candidates : LaunchOne(v, p, orbit) \in V
  <2> SUFFICES ASSUME NEW v \in V, NEW p \in candidates PROVE LaunchOne(v, p, orbit) \in V
    OBVIOUS
  <2>1. p \in DOMAIN plane
    BY <1>3
  <2> QED
    BY <2>1, LaunchOneKeeps
<1> HIDE DEF candidates, V
<1>6. st \in V
  BY <1>3, <1>4, <1>5, LaunchedIn
<1> HIDE DEF st
<1>7. /\ st.w \in Still /\ st.target \in SectRows(at)
      /\ \A p \in DOMAIN plane : st.w.plane[p] \in OffRows(p)
  BY <1>6 DEF V, Launching, LaunchRows
<1> DEFINE x == PutSect(st.w, at, st.target)
<1>8. x \in Still /\ x.plane = st.w.plane
  BY <1>7, PutSectStill
<1> HIDE DEF x
<1>9. WorldInv(st.w) /\ WorldInv(x) /\ Fair(st.w) /\ Fair(x)
  BY <1>7, <1>8, OffKeeps
<1>10. WorldInv(w) /\ Fair(w)
  BY <1>9 DEF x
<1> HIDE DEF w
<1> QED
  BY <1>1, <1>10 DEF Soundly

-----------------------------------------------------------------------------
(* load of planes. *)

\* A list names all the planes that are aboard.
Lists(w, s, list) == \A q \in PlanesOn(w, s) : \E k \in 1..Len(list) : list[k] = q

(* A plane goes aboard, in place of where it was. *)
LEMMA GoesAboard ==
    ASSUME WorldInv(World), NEW w \in Still, HangarFits(w), NEW p \in DOMAIN plane,
           NEW row \in AirRows(p), NEW s \in DOMAIN ship, row.ship = s,
           NEW list \in Seq(DOMAIN plane), Lists(w, s, list),
           ShipCanCarry(w, ship[s].type, list, p)
    PROVE  HangarFits(PutPlane(w, p, row)) /\ Lists(PutPlane(w, p, row), s, Append(list, p))
<1> DEFINE v == PutPlane(w, p, row)
<1>1. Tables(World)
  BY DEF WorldInv
<1>2. v \in Still
  BY PutPlaneStill
<1>3. \A t : PlanesOn(v, t) = (PlanesOn(w, t) \ {p}) \cup (IF row.ship = t THEN {p} ELSE {})
  BY AboardAfterPut
<1> HIDE DEF v
<1>4. \A q \in DOMAIN plane : v.plane[q].type = w.plane[q].type
  BY <1>2, StillRows
<1>5. \A t \in DOMAIN ship : v.ship[t].type = w.ship[t].type /\ w.ship[t].type = ship[t].type
  BY <1>2, StillRows
<1>6. \A t \in DOMAIN ship : ship[t].type \in DOMAIN ShipChr
  BY <1>1, TypedRows DEF ShipRow
<1>7. \A t : PlanesOn(w, t) \subseteq DOMAIN plane /\ IsFiniteSet(PlanesOn(w, t))
  BY <1>1, PlanesOnFinite
<1>8. DOMAIN v.ship = DOMAIN ship /\ DOMAIN w.ship = DOMAIN ship
  BY <1>2, StillRows
<1>9. ASSUME NEW t \in DOMAIN ship PROVE Housed(v, t)
  <2>1. Housed(w, t)
    BY <1>8, <1>9 DEF HangarFits
  <2>2. CASE t # s
    <3>1. PlanesOn(v, t) \subseteq PlanesOn(w, t)
      BY <1>3, <2>2
    <3>2. Lighter(w, v, t)
      BY <1>4, <1>5, <1>7, <1>9, <3>1 DEF Lighter
    <3> QED
      BY <1>5, <1>6, <1>7, <1>9, <2>1, <3>2, LighterHoused
  <2>3. CASE t = s
    <3>1. PlanesOn(v, s) \subseteq PlanesOn(w, s) \cup {p}
      BY <1>3
    <3>2. PlanesOn(v, s) \subseteq DOMAIN plane
      BY <1>7, <3>1
    <3>3. \A q \in PlanesOn(v, s) : v.plane[q].type = w.plane[q].type
      BY <1>4, <3>2
    <3>4. v.ship[s].type = w.ship[s].type /\ w.ship[s].type = ship[s].type
      BY <1>5
    <3>5. Loads(w, v, s, p, list)
      BY <3>1, <3>3, <3>4 DEF Loads, Lists
    <3> QED
      BY <1>6, <2>1, <2>3, <3>4, <3>5, LoadsHoused
  <2> QED
    BY <2>2, <2>3
<1>10. HangarFits(v)
  BY <1>8, <1>9 DEF HangarFits
<1>11. Lists(v, s, Append(list, p))
  <2> SUFFICES ASSUME NEW q \in PlanesOn(v, s)
               PROVE  \E k \in 1..Len(Append(list, p)) : Append(list, p)[k] = q
    BY DEF Lists
  <2>1. Len(Append(list, p)) = Len(list) + 1 /\ Append(list, p)[Len(list) + 1] = p
        /\ Len(list) \in Nat /\ \A k \in 1..Len(list) : Append(list, p)[k] = list[k]
    OBVIOUS
  <2>2. CASE q = p
    BY <2>1, <2>2
  <2>3. CASE q \in PlanesOn(w, s)
    <3>1. PICK k \in 1..Len(list) : list[k] = q
      BY <2>3 DEF Lists
    <3> QED
      BY <2>1, <3>1
  <2> QED
    BY <1>3, <2>2, <2>3
<1> QED
  BY <1>10, <1>11 DEF v

LoadingRows == {v \in [w : Still, manifest : Seq(DOMAIN plane), placed : SUBSET DOMAIN plane] :
                    HangarFits(v.w)}
FillingRows(s) == {v \in LoadingRows : Lists(v.w, s, v.manifest)}

LEMMA LoadOntoKeeps ==
    ASSUME WorldInv(World), NEW s \in DOMAIN ship, NEW st \in FillingRows(s), NEW p \in DOMAIN plane
    PROVE  LoadOnto(st, s, p) \in FillingRows(s)
<1>1. /\ st \in [w : Still, manifest : Seq(DOMAIN plane), placed : SUBSET DOMAIN plane]
      /\ HangarFits(st.w) /\ Lists(st.w, s, st.manifest)
  BY DEF FillingRows, LoadingRows
<1>2. CASE p \in st.placed \/ plane[p].at # ship[s].at
  BY <1>2 DEF LoadOnto
<1>3. CASE ~(p \in st.placed \/ plane[p].at # ship[s].at) /\ Bucket(st.w, p) = "none"
  <2> DEFINE new == [st EXCEPT !.placed = @ \cup {p}]
  <2>1. LoadOnto(st, s, p) = new
    BY <1>3 DEF LoadOnto
  <2>2. /\ new \in [w : Still, manifest : Seq(DOMAIN plane), placed : SUBSET DOMAIN plane]
        /\ new.w = st.w /\ new.manifest = st.manifest
    BY <1>1
  <2> HIDE DEF new
  <2> QED
    BY <1>1, <2>1, <2>2 DEF FillingRows, LoadingRows
<1>4. CASE /\ ~(p \in st.placed \/ plane[p].at # ship[s].at) /\ Bucket(st.w, p) # "none"
           /\ ~ShipCanCarry(st.w, ship[s].type, st.manifest, p)
  BY <1>4 DEF LoadOnto
<1>5. CASE /\ ~(p \in st.placed \/ plane[p].at # ship[s].at) /\ Bucket(st.w, p) # "none"
           /\ ShipCanCarry(st.w, ship[s].type, st.manifest, p)
  <2> DEFINE row == [plane[p] EXCEPT !.ship = s]
             v == PutPlane(st.w, p, row)
             list == st.manifest
             all == Append(list, p)
             new == [w |-> v, manifest |-> all, placed |-> st.placed \cup {p}]
  <2>1. LoadOnto(st, s, p) = new
    BY <1>5 DEF LoadOnto
  <2>2. plane[p] \in PlaneRow(DOMAIN ship)
    BY TypedRows DEF WorldInv
  <2>3. row \in AirRows(p) /\ row.ship = s
    <3>1. row \in PlaneRow(DOMAIN ship) /\ row.ship = s /\ row.at = plane[p].at
          /\ row.type = plane[p].type
      BY <2>2 DEF PlaneRow
    <3> HIDE DEF row
    <3> QED
      BY <1>5, <3>1 DEF AirRows, Ashore
  <2> HIDE DEF row
  <2>4. list \in Seq(DOMAIN plane) /\ st.w \in Still
    BY <1>1
  <2>5. HangarFits(v) /\ Lists(v, s, all)
    BY <1>1, <1>5, <2>3, <2>4, GoesAboard
  <2>6. v \in Still
    BY <2>3, <2>4, PutPlaneStill
  <2>7. all \in Seq(DOMAIN plane)
    BY <2>4
  <2> HIDE DEF v, all, list
  <2>8. new \in [w : Still, manifest : Seq(DOMAIN plane), placed : SUBSET DOMAIN plane]
        /\ new.w = v /\ new.manifest = all
    BY <1>1, <2>6, <2>7
  <2> HIDE DEF new
  <2> QED
    BY <2>1, <2>5, <2>8 DEF FillingRows, LoadingRows
<1> QED
  BY <1>2, <1>3, <1>4, <1>5

LEMMA FilledKeeps ==
    ASSUME WorldInv(World), NEW s \in DOMAIN ship, NEW st \in LoadingRows,
           NEW planes, planes \subseteq DOMAIN plane
    PROVE  Filled(st, s, planes) \in LoadingRows
<1> DEFINE P == PlanesOn(st.w, s)
           list == Ascending(P)
           base == [st EXCEPT !.manifest = list]
           V == FillingRows(s)
<1>1. /\ st \in [w : Still, manifest : Seq(DOMAIN plane), placed : SUBSET DOMAIN plane]
      /\ HangarFits(st.w)
  BY DEF LoadingRows
<1>2. Tables(World) /\ st.w \in Still
  BY <1>1 DEF WorldInv
<1>3. P \subseteq DOMAIN plane /\ IsFiniteSet(P) /\ P \subseteq Int
  BY <1>2, PlanesOnFinite
<1>4. /\ Cardinality(P) \in Nat /\ list \in [1..Cardinality(P) -> P]
      /\ \A u \in P : \E k \in 1..Cardinality(P) : list[k] = u
  <2> HIDE DEF P
  <2> QED
    BY <1>3, AscendingEach
<1> DEFINE n == Cardinality(P)
<1>5. list \in Seq(DOMAIN plane) /\ Len(list) = n
  <2>1. n \in Nat /\ list \in [1..n -> DOMAIN plane]
    BY <1>3, <1>4
  <2> HIDE DEF n, list
  <2> QED
    BY <2>1
<1>6. Lists(st.w, s, list)
  BY <1>4, <1>5 DEF Lists
<1> HIDE DEF list, n, P
<1>7. base \in [w : Still, manifest : Seq(DOMAIN plane), placed : SUBSET DOMAIN plane]
      /\ base.w = st.w /\ base.manifest = list
  BY <1>1, <1>5
<1>8. base \in V
  <2> HIDE DEF base
  <2> QED
    BY <1>1, <1>6, <1>7 DEF FillingRows, LoadingRows
<1>9. \A v \in V : \A p \in planes : LoadOnto(v, s, p) \in V
  <2> SUFFICES ASSUME NEW v \in V, NEW p \in planes PROVE LoadOnto(v, s, p) \in V
    OBVIOUS
  <2>1. p \in DOMAIN plane
    OBVIOUS
  <2> QED
    BY <2>1, LoadOntoKeeps
<1>10. IsFiniteSet(planes) /\ planes \subseteq Int
  BY <1>2, TypedRows, FS_Subset
<1>11. [st EXCEPT !.manifest = Ascending(PlanesOn(st.w, s))] \in V
  BY <1>8 DEF list, P
<1> HIDE DEF V, base
<1>12. Filled(st, s, planes) \in V
  BY <1>9, <1>10, <1>11, FilledIn
<1> QED
  BY <1>12 DEF V, FillingRows

LEMMA LoadPlanesSound ==
    ASSUME WorldInv(World), NEW me \in Nations, NEW spec, spec \subseteq DOMAIN ship,
           NEW planes, planes \subseteq DOMAIN plane, LoadPlanes(me, spec, planes)
    PROVE  Soundly
<1> DEFINE S == Matching(ship, me, spec)
           P == Matching(plane, me, planes)
           V == LoadingRows
           st == AllFilled(S, P)
<1>1. Done(st.w, FALSE)
  BY DEF LoadPlanes
<1>2. Tables(World) /\ HoldsFit(World) /\ World \in Quiet /\ World \in Still /\ HangarFits(World)
  BY WorldIsQuiet, QuietIsStill DEF WorldInv
<1>3. S \in SUBSET DOMAIN ship /\ P \subseteq DOMAIN plane
  BY DEF Matching
<1>4. IsFiniteSet(S) /\ S \subseteq Int /\ S \subseteq DOMAIN ship
  BY <1>2, <1>3, TypedRows, FS_Subset
<1>5. [w |-> World, manifest |-> <<>>, placed |-> {}] \in V
  BY <1>2 DEF LoadingRows
<1>6. \A v \in V : \A s \in S : Filled(v, s, P) \in V
  <2> SUFFICES ASSUME NEW v \in V, NEW s \in S PROVE Filled(v, s, P) \in V
    OBVIOUS
  <2>1. s \in DOMAIN ship
    BY <1>4
  <2> HIDE DEF P, S
  <2> QED
    BY <1>3, <2>1, FilledKeeps
<1> HIDE DEF S, P, V
<1>7. st \in V
  BY <1>4, <1>5, <1>6, AllFilledIn
<1> HIDE DEF st
<1>8. st.w \in Still /\ HangarFits(st.w)
  BY <1>7 DEF V, LoadingRows
<1>9. WorldInv(st.w) /\ Fair(st.w)
  BY <1>8, StillKeeps
<1> QED
  BY <1>1, <1>9 DEF Soundly

-----------------------------------------------------------------------------
(* Landing on carriers. *)

\* A ship, and the planes of a list aboard it.
Listed(list) == {list[k] : k \in 1..Len(list)}
Crewed(s, P) == [ship |-> ship,
                 plane |-> [p \in DOMAIN plane |-> [type |-> plane[p].type,
                                                    ship |-> IF p \in P THEN s ELSE None]]]

LEMMA CrewedPlanes ==
    ASSUME NEW s, s # None, NEW P, P \subseteq DOMAIN plane
    PROVE  /\ PlanesOn(Crewed(s, P), s) = P
           /\ \A p \in DOMAIN plane : Crewed(s, P).plane[p].type = plane[p].type
           /\ Crewed(s, P).ship = ship
  BY DEF Crewed, PlanesOn

LEMMA CanCarryAlike ==
    ASSUME NEW v, NEW w, NEW D, NEW list \in Seq(D), NEW p \in D, NEW type,
           \A q \in D : w.plane[q].type = v.plane[q].type,
           ShipCanCarry(v, type, list, p)
    PROVE  ShipCanCarry(w, type, list, p)
<1> DEFINE all == Append(list, p)
           n == Len(all)
<1>1. \A q \in D : Bucket(w, q) = Bucket(v, q)
  BY DEF Bucket
<1>2. n \in Nat /\ \A k \in 1..n : all[k] \in D
  OBVIOUS
<1> HIDE DEF all, n
<1>3. \A k \in 1..n : Bucket(w, all[k]) = Bucket(v, all[k])
  BY <1>1, <1>2
<1>4. \A b : Aboard(w, all, b) = Aboard(v, all, b)
  <2> SUFFICES ASSUME NEW b PROVE Aboard(w, all, b) = Aboard(v, all, b)
    OBVIOUS
  <2>1. {k \in 1..n : Bucket(w, all[k]) = b} = {k \in 1..n : Bucket(v, all[k]) = b}
    BY <1>3
  <2> QED
    BY <2>1 DEF Aboard, n
<1>5. Bucket(w, p) = Bucket(v, p)
  BY <1>1
<1> QED
  BY <1>4, <1>5 DEF ShipCanCarry, all

(* While planes land: what the command has counted aboard is at least what  *)
(* is there, and has berths.                                                *)
Counted(v, Cs) ==
    /\ \A s \in Cs : Housed(Crewed(s, Listed(v.manifest[s])), s)
    /\ \A s \in Cs : PlanesOn(World, s) \subseteq Listed(v.manifest[s])
    /\ \A s \in Cs : PlanesOn(v.w, s) \subseteq Listed(v.manifest[s])
    /\ \A s \in DOMAIN ship \ Cs : PlanesOn(v.w, s) \subseteq PlanesOn(World, s)
LandingRows(Cs) == {v \in [w : Still, manifest : [Cs -> Seq(DOMAIN plane)]] : Counted(v, Cs)}

LEMMA ListedAppend ==
    ASSUME NEW D, NEW list \in Seq(D), NEW p \in D
    PROVE  Listed(Append(list, p)) = Listed(list) \cup {p} /\ Listed(list) \subseteq D
<1>1. Len(Append(list, p)) = Len(list) + 1 /\ Append(list, p)[Len(list) + 1] = p
      /\ Len(list) \in Nat /\ \A k \in 1..Len(list) : Append(list, p)[k] = list[k] /\ list[k] \in D
  OBVIOUS
<1> DEFINE all == Append(list, p)
           n == Len(list)
<1> HIDE DEF all
<1>2. Listed(all) \subseteq Listed(list) \cup {p}
  BY <1>1 DEF Listed, all
<1>3. Listed(list) \cup {p} \subseteq Listed(all)
  <2>1. ASSUME NEW k \in 1..n PROVE list[k] \in Listed(all)
    <3>1. k \in 1..Len(all) /\ all[k] = list[k]
      BY <1>1, <2>1 DEF all
    <3> QED
      BY <3>1 DEF Listed
  <2>2. p \in Listed(all)
    <3>1. n + 1 \in 1..Len(all) /\ all[n + 1] = p
      BY <1>1 DEF all
    <3> QED
      BY <3>1 DEF Listed
  <2> QED
    BY <2>1, <2>2 DEF Listed
<1>4. Listed(list) \subseteq D
  BY <1>1 DEF Listed
<1> QED
  BY <1>2, <1>3, <1>4 DEF all

LEMMA CrewedMore ==
    ASSUME WorldInv(World), NEW s \in DOMAIN ship, NEW list \in Seq(DOMAIN plane), NEW p \in DOMAIN plane,
           Housed(Crewed(s, Listed(list)), s), NEW w \in Still, ShipCanCarry(w, ship[s].type, list, p)
    PROVE  Housed(Crewed(s, Listed(Append(list, p))), s)
<1> DEFINE P == Listed(list)
           Q == P \cup {p}
           a == Crewed(s, P)
           b == Crewed(s, Q)
<1>1. Tables(World)
  BY DEF WorldInv
<1>2. s # None /\ ship[s].type \in DOMAIN ShipChr
  BY <1>1, TypedRows DEF Tables, World, None, ShipRow
<1>3. Listed(Append(list, p)) = Q /\ P \subseteq DOMAIN plane
  BY ListedAppend
<1>4. \A q \in P : \E k \in 1..Len(list) : list[k] = q
  BY DEF Listed
<1> HIDE DEF P
<1>5. /\ PlanesOn(a, s) = P /\ a.ship = ship
      /\ \A q \in DOMAIN plane : a.plane[q].type = plane[q].type
  BY <1>2, <1>3, CrewedPlanes
<1>6. /\ PlanesOn(b, s) = Q /\ b.ship = ship
      /\ \A q \in DOMAIN plane : b.plane[q].type = plane[q].type
  <2>1. Q \subseteq DOMAIN plane
    BY <1>3
  <2> HIDE DEF Q
  <2> QED
    BY <1>2, <2>1, CrewedPlanes
<1>7. Housed(a, s)
  BY DEF P
<1>8. \A q \in DOMAIN plane : w.plane[q].type = plane[q].type
  BY StillRows
<1> HIDE DEF a, b
<1>9. \A q \in DOMAIN plane : a.plane[q].type = w.plane[q].type
  BY <1>5, <1>8
<1>10. ShipCanCarry(a, ship[s].type, list, p)
  BY <1>9, CanCarryAlike
<1>11. Loads(a, b, s, p, list)
  BY <1>3, <1>4, <1>5, <1>6 DEF Loads
<1>12. a.ship[s].type = ship[s].type
  BY <1>5
<1>13. Housed(b, s)
  BY <1>2, <1>7, <1>10, <1>11, <1>12, LoadsHoused
<1> QED
  BY <1>3, <1>13 DEF b

LEMMA CarriersHere ==
    ASSUME NEW me, NEW at
    PROVE  Carriers(me, at) \subseteq DOMAIN ship /\ \A s \in Carriers(me, at) : ship[s].at = at
  BY DEF Carriers

LEMMA LandKeeps ==
    ASSUME WorldInv(World), NEW me, NEW at \in Sectors, NEW st \in LandingRows(Carriers(me, at)),
           NEW p \in DOMAIN plane, NEW row \in PlaneRows(p), NEW runway \in BOOLEAN,
           runway => sect[at].type # "sea"
    PROVE  Land(st, p, row, at, runway) \in LandingRows(Carriers(me, at))
<1> DEFINE Cs == Carriers(me, at)
           room == {s \in DOMAIN st.manifest : ShipCanCarry(st.w, ship[s].type, st.manifest[s], p)}
           V == LandingRows(Cs)
<1>1. Tables(World) /\ HoldsFit(World) /\ World \in Quiet /\ World \in Still
  BY WorldIsQuiet, QuietIsStill DEF WorldInv
<1>2. Cs \subseteq DOMAIN ship /\ \A s \in Cs : ship[s].at = at
  BY CarriersHere
<1>3. /\ st = [w |-> st.w, manifest |-> st.manifest] /\ st.w \in Still
      /\ st.manifest \in [Cs -> Seq(DOMAIN plane)]
      /\ Counted(st, Cs)
  BY DEF LandingRows
<1>4. /\ row \in PlaneRow(DOMAIN ship) /\ row.at = plane[p].at /\ row.ship = plane[p].ship
      /\ row.type = plane[p].type
  BY DEF PlaneRows
<1>5. Ashore(plane[p])
  BY <1>1 DEF Still, World, AirRows
<1> HIDE DEF Cs
<1>6. ASSUME NEW new \in AirRows(p), new.ship = plane[p].ship
      PROVE  [st EXCEPT !.w = PutPlane(@, p, new)] \in V
  <2> DEFINE v == PutPlane(st.w, p, new)
             to == [st EXCEPT !.w = v]
  <2>1. v \in Still
    BY <1>3, PutPlaneStill
  <2>2. \A s : PlanesOn(v, s) = (PlanesOn(st.w, s) \ {p}) \cup (IF new.ship = s THEN {p} ELSE {})
    BY <1>3, AboardAfterPut
  <2> HIDE DEF v
  <2>3. to \in [w : Still, manifest : [Cs -> Seq(DOMAIN plane)]] /\ to.w = v
        /\ to.manifest = st.manifest
    BY <1>3, <2>1
  <2> HIDE DEF to
  <2>4. \A s : new.ship = s => p \in PlanesOn(World, s)
    BY <1>6 DEF PlanesOn, World
  <2>5. \A s \in Cs : PlanesOn(v, s) \subseteq Listed(st.manifest[s])
    BY <1>3, <2>2, <2>4 DEF Counted
  <2>6. \A s \in DOMAIN ship \ Cs : PlanesOn(v, s) \subseteq PlanesOn(World, s)
    BY <1>3, <2>2, <2>4 DEF Counted
  <2>7. Counted(to, Cs)
    BY <1>3, <2>3, <2>5, <2>6 DEF Counted
  <2>8. to \in V
    BY <2>3, <2>7 DEF LandingRows
  <2> QED
    BY <2>8 DEF to, v
<1>7. CASE room # {}
  <2> DEFINE s == Min(room)
             new == [row EXCEPT !.ship = s, !.at = at]
             list == st.manifest[s]
             all == Append(list, p)
             v == PutPlane(st.w, p, new)
             to == [w |-> v, manifest |-> [st.manifest EXCEPT ![s] = all]]
  <2>1. Land(st, p, row, at, runway) = to
    BY <1>7 DEF Land
  <2>2. s \in room
    <3>1. room \in SUBSET DOMAIN ship /\ IsFiniteSet(DOMAIN ship) /\ DOMAIN ship \subseteq Int
      BY <1>1, <1>2, <1>3, TypedRows
    <3> HIDE DEF room
    <3>2. IsFiniteSet(room) /\ room \subseteq Int
      BY <3>1, FS_Subset
    <3> QED
      BY <1>7, <3>2, LeastOfFinite
  <2>3. s \in Cs /\ s \in DOMAIN ship /\ ship[s].at = at /\ ShipCanCarry(st.w, ship[s].type, list, p)
    BY <1>2, <1>3, <2>2
  <2> HIDE DEF s, room
  <2>4. new \in AirRows(p) /\ new.ship = s
    <3>0. [row EXCEPT !.ship = s] \in PlaneRow(DOMAIN ship)
      BY <1>4, <2>3 DEF PlaneRow
    <3>1. new \in PlaneRow(DOMAIN ship) /\ new.ship = s /\ new.at = at /\ new.type = plane[p].type
      BY <1>4, <3>0 DEF PlaneRow
    <3> HIDE DEF new
    <3> QED
      BY <2>3, <3>1 DEF AirRows, Ashore
  <2> HIDE DEF new
  <2>5. list \in Seq(DOMAIN plane)
    BY <1>3, <2>3
  <2>6. Housed(Crewed(s, Listed(list)), s)
    BY <1>3, <2>3 DEF Counted
  <2>7. Housed(Crewed(s, Listed(all)), s)
    <3> HIDE DEF list
    <3> QED
      BY <1>3, <2>3, <2>5, <2>6, CrewedMore
  <2>8. Listed(all) = Listed(list) \cup {p}
    <3> HIDE DEF list
    <3> QED
      BY <2>5, ListedAppend
  <2>9. all \in Seq(DOMAIN plane)
    BY <2>5
  <2>10. v \in Still
    BY <1>3, <2>4, PutPlaneStill
  <2>11. \A t : PlanesOn(v, t) = (PlanesOn(st.w, t) \ {p}) \cup (IF new.ship = t THEN {p} ELSE {})
    BY <1>3, <2>4, AboardAfterPut
  <2> HIDE DEF v, all
  <2> DEFINE man == [st.manifest EXCEPT ![s] = all]
  <2>12. /\ man \in [Cs -> Seq(DOMAIN plane)] /\ man[s] = all
         /\ \A t \in Cs \ {s} : man[t] = st.manifest[t]
    BY <1>3, <2>3, <2>9
  <2> HIDE DEF man
  <2>13. to \in [w : Still, manifest : [Cs -> Seq(DOMAIN plane)]] /\ to.w = v /\ to.manifest = man
    BY <2>10, <2>12 DEF man
  <2> HIDE DEF to
  <2>14. \A t \in Cs : Housed(Crewed(t, Listed(man[t])), t)
    BY <1>3, <2>7, <2>12 DEF Counted
  <2>15. \A t \in Cs : Listed(st.manifest[t]) \subseteq Listed(man[t])
    BY <2>8, <2>12
  <2>16. \A t \in Cs : PlanesOn(World, t) \subseteq Listed(man[t])
    BY <1>3, <2>15 DEF Counted
  <2>17. ASSUME NEW t \in Cs PROVE PlanesOn(v, t) \subseteq Listed(man[t])
    <3>1. PlanesOn(st.w, t) \subseteq Listed(man[t])
      BY <1>3, <2>15, <2>17 DEF Counted
    <3>2. t = s => p \in Listed(man[t])
      BY <2>8, <2>12
    <3> QED
      BY <2>4, <2>11, <3>1, <3>2
  <2>18. \A t \in DOMAIN ship \ Cs : PlanesOn(v, t) \subseteq PlanesOn(World, t)
    BY <1>3, <2>3, <2>4, <2>11 DEF Counted
  <2>19. Counted(to, Cs)
    BY <2>13, <2>14, <2>16, <2>17, <2>18 DEF Counted
  <2>20. to \in V
    BY <2>13, <2>19 DEF LandingRows
  <2> QED
    BY <2>1, <2>20 DEF Cs
<1>8. CASE room = {} /\ runway
  <2> DEFINE new == [row EXCEPT !.at = at]
  <2>1. new \in PlaneRow(DOMAIN ship) /\ new.ship = plane[p].ship /\ new.at = at
        /\ new.type = plane[p].type
    BY <1>4 DEF PlaneRow
  <2>2. Land(st, p, row, at, runway) = [st EXCEPT !.w = PutPlane(@, p, new)]
    BY <1>8 DEF Land
  <2> HIDE DEF new
  <2>3. new \in AirRows(p)
    BY <1>8, <2>1 DEF AirRows, Ashore
  <2> QED
    BY <1>6, <2>1, <2>2, <2>3 DEF Cs
<1>9. CASE room = {} /\ ~runway
  <2> DEFINE new == [row EXCEPT !.effic = 0]
  <2>1. new \in PlaneRow(DOMAIN ship) /\ new.ship = plane[p].ship /\ new.at = plane[p].at
        /\ new.type = plane[p].type
    BY <1>4 DEF PlaneRow
  <2>2. Land(st, p, row, at, runway) = [st EXCEPT !.w = PutPlane(@, p, new)]
    BY <1>9 DEF Land
  <2> HIDE DEF new
  <2>3. new \in AirRows(p)
    BY <1>5, <2>1 DEF AirRows, Ashore
  <2> QED
    BY <1>6, <2>1, <2>2, <2>3 DEF Cs
<1> QED
  BY <1>7, <1>8, <1>9

-----------------------------------------------------------------------------
(* Interception and bombs. *)

\* A walk, step by step.
LEMMA WalkIn ==
    ASSUME NEW s, NEW route, NEW n \in Nat, route \in [1..n -> Directions], NEW V,
           s \in V,
           \A v \in V : \A d \in Directions : Step(v, d) \in V
    PROVE  Walk(s, route) \in V
<1> DEFINE seq == route
           base == s
           It(g) == g = [T \in SUBSET DOMAIN seq |->
                            IF T = {} THEN base ELSE Step(g[T \ {Max(T)}], seq[Max(T)])]
           G == CHOOSE g : It(g)
           f == [k \in 1..n |-> [v \in V |-> Step(v, seq[k])]]
<1>0. n \in Nat /\ DOMAIN seq = 1..n /\ seq \in [1..n -> Directions]
  OBVIOUS
<1>1. Walk(s, route) = G[DOMAIN seq]
  BY Zenon DEF Walk, FoldLeft, MapThenFoldSet
<1>2. \A k \in 1..n : \A v \in V : Step(v, seq[k]) \in V
  <2> HIDE DEF seq
  <2> QED
    BY <1>0
<1>3. f \in [1..n -> [V -> V]]
  <2> HIDE DEF seq
  <2> QED
    BY <1>2
<1>4. \A k \in 1..n : \A v \in V : f[k][v] = Step(v, seq[k])
  <2> HIDE DEF seq
  <2> QED
    OBVIOUS
<1>5. base \in V
  OBVIOUS
<1> HIDE DEF seq, base, f, It, G
<1>6. PICK r : IsRecursion(r, V, base, f, n)
  BY <1>0, <1>3, <1>5, RecursionExists
<1>7. \A T \in SUBSET (1..n) : T # {} => Max(T) \in 1..n
  BY <1>0, MaxOfRange
<1>8. It(r)
  <2>1. ASSUME NEW T \in SUBSET (1..n)
        PROVE  r[T] = IF T = {} THEN base ELSE Step(r[T \ {Max(T)}], seq[Max(T)])
    BY <1>4, <1>6, <1>7, <2>1 DEF IsRecursion
  <2> QED
    BY <1>0, <1>6, <2>1 DEF It, IsRecursion
<1>9. It(G)
  BY Zenon, <1>8 DEF G
<1>10. \A T \in SUBSET (1..n) : G[T] = IF T = {} THEN base ELSE Step(G[T \ {Max(T)}], seq[Max(T)])
  BY <1>0, <1>9 DEF It
<1>11. Recurs(G, V, base, f, n)
  <2>1. ASSUME NEW T \in SUBSET (1..n), T # {} => G[T \ {Max(T)}] \in V
        PROVE  G[T] = IF T = {} THEN base ELSE f[Max(T)][G[T \ {Max(T)}]]
    <3>1. CASE T = {}
      BY <1>10, <3>1
    <3>2. CASE T # {}
      <4>1. Max(T) \in 1..n /\ G[T \ {Max(T)}] \in V
        BY <1>7, <2>1, <3>2
      <4>2. f[Max(T)][G[T \ {Max(T)}]] = Step(G[T \ {Max(T)}], seq[Max(T)])
        BY <1>4, <4>1
      <4> QED
        BY <1>10, <3>2, <4>2
    <3> QED
      BY <3>1, <3>2
  <2> QED
    BY <2>1 DEF Recurs
<1>12. G[1..n] \in V
  BY <1>0, <1>3, <1>5, <1>11, WalkEnds
<1> QED
  BY <1>0, <1>1, <1>12

LEMMA WalkIsSector ==
    ASSUME NEW s \in Sectors, NEW n \in Nat, NEW route \in [1..n -> Directions]
    PROVE  Walk(s, route) \in Sectors
<1>1. \A v \in Sectors : \A d \in Directions : Step(v, d) \in Sectors
  BY StepIsSector
<1> QED
  BY <1>1, WalkIn

\* The rows of planes that have flown, and are where they were.
LEMMA UseFuelRows ==
    ASSUME NEW p, NEW row \in PlaneRows(p), NEW dist \in Int
    PROVE  UseFuel(row, dist) \in PlaneRows(p)
<1> DEFINE n == Most(PlaneChr[row.type].fuel * dist, 1)
           cost == AsI8(n)
           mobil == Least(Most(row.mobil - cost, -128), 127)
<1>1. row \in PlaneRow(DOMAIN ship)
  BY DEF PlaneRows
<1>2. mobil \in -128..127
  <2>1. PlaneChr[row.type].fuel \in Int /\ row.mobil \in Int
    BY <1>1, TablesAssumption DEF PlaneRow
  <2>2. PlaneChr[row.type].fuel * dist \in Int
    BY <2>1, ProductInt
  <2>3. n \in Int
    BY <2>2 DEF Most
  <2> HIDE DEF n
  <2>4. cost \in Int
    BY <2>3 DEF AsI8
  <2> HIDE DEF cost
  <2> QED
    BY <2>1, <2>4 DEF Least, Most
<1>3. UseFuel(row, dist) = [row EXCEPT !.mobil = mobil]
  BY DEF UseFuel
<1> HIDE DEF mobil
<1>4. [row EXCEPT !.mobil = mobil] \in PlaneRow(DOMAIN ship)
  BY <1>1, <1>2 DEF PlaneRow
<1> QED
  BY <1>1, <1>3, <1>4 DEF PlaneRows, PlaneRow

\* Flying costs a plane that could fly mobility.
LEMMA FuelSpent ==
    ASSUME NEW p, NEW row \in PlaneRows(p), row.mobil > 0
    PROVE  UseFuel(row, 1).mobil < row.mobil
<1> DEFINE fuel == PlaneChr[row.type].fuel
           cost == AsI8(Most(fuel * 1, 1))
           mobil == Least(Most(row.mobil - cost, -128), 127)
<1>1. row \in PlaneRow(DOMAIN ship) /\ row.mobil \in 1..127
  BY DEF PlaneRows, PlaneRow
<1>2. fuel \in 0..127
  BY <1>1, TablesAssumption DEF PlaneRow
<1> HIDE DEF fuel
<1>3. cost \in 1..127
  BY <1>2 DEF AsI8, Most
<1> HIDE DEF cost
<1>4. mobil < row.mobil
  BY <1>1, <1>3 DEF Least, Most
<1>5. UseFuel(row, 1) = [row EXCEPT !.mobil = mobil]
  BY DEF UseFuel, cost, fuel
<1> HIDE DEF mobil
<1> QED
  BY <1>1, <1>4, <1>5 DEF PlaneRow

\* The numbers of a flight: a plane's own is its own, and that of an escort leads back.
LEMMA OfPlane ==
    ASSUME Tables(World), NEW p \in DOMAIN plane
    PROVE  /\ p \in Nat /\ Of(p) = p
           /\ Escort(p) \in Int /\ Escort(p) \notin Nat /\ Of(Escort(p)) = p
<1>1. p \in Nat
  BY DEF Tables, World
<1> QED
  BY <1>1 DEF Of, Escort

FleetRows(i) == {row \in PlaneRows(Of(i)) : row.mobil = plane[Of(i)].mobil}

LEMMA AirDamageRows ==
    ASSUME NEW p, NEW row \in FleetRows(p), NEW dam \in Int
    PROVE  AirDamage(row, dam) \in FleetRows(p)
<1> DEFINE pct == (100 * dam) \div (dam + 100)
           eff == Damage(row.effic, pct)
<1>1. row \in PlaneRow(DOMAIN ship) /\ row.effic \in 0..100
  BY DEF FleetRows, PlaneRows, PlaneRow
<1>2. CASE dam <= 0
  BY <1>2 DEF AirDamage
<1>3. CASE dam > 0
  <2>1. pct \in Nat
    <3>1. 100 * dam \in Nat /\ dam + 100 \in Nat \ {0}
      BY <1>3
    <3> QED
      BY <3>1, DivNat
  <2> HIDE DEF pct
  <2>2. eff \in Nat /\ eff <= row.effic
    <3>1. row.effic \in Int /\ row.effic >= 0
      BY <1>1
    <3> QED
      BY <2>1, <3>1, DamageLeaves
  <2>3. AirDamage(row, dam) = [row EXCEPT !.effic = eff]
    BY <1>3 DEF AirDamage, pct
  <2> HIDE DEF eff
  <2>4. eff \in 0..100
    BY <1>1, <2>2
  <2>5. [row EXCEPT !.effic = eff] \in PlaneRow(DOMAIN ship)
    BY <1>1, <2>4 DEF PlaneRow
  <2> QED
    BY <1>1, <2>3, <2>5 DEF FleetRows, PlaneRows, PlaneRow
<1> QED
  BY <1>2, <1>3

\* A fleet: the rows of planes in the air, which have their fuel still.
IsFleet(f, P) == DOMAIN f = P /\ \A p \in P : f[p] \in FleetRows(p)

LEMMA RoundFleet ==
    ASSUME NEW P, IsFiniteSet(P), NEW f, IsFleet(f, P), NEW attackers, NEW shots, NEW luck \in Int
    PROVE  IsFleet(Round(f, attackers, shots, luck), P)
<1> DEFINE hits(q) == {p \in DOMAIN f : shots[p] = q /\ MayHit(f, attackers, p, q)}
           d == Draw(20, 50, luck)
<1>1. d \in Int
  BY DrawInt
<1>2. ASSUME NEW q \in P PROVE AirDamage(f[q], Cardinality(hits(q)) * d) \in FleetRows(q)
  <2> DEFINE n == Cardinality(hits(q))
  <2>1. n \in Int
    <3>1. hits(q) \in SUBSET P
      BY DEF IsFleet
    <3> QED
      BY <3>1, FS_Subset, FS_CardinalityType
  <2> HIDE DEF n, d
  <2>2. n * d \in Int
    BY <1>1, <2>1, ProductInt
  <2>3. f[q] \in FleetRows(q)
    BY <1>2 DEF IsFleet
  <2>4. AirDamage(f[q], n * d) \in FleetRows(q)
    BY <2>2, <2>3, AirDamageRows
  <2> QED
    BY <2>4 DEF n
<1>3. Round(f, attackers, shots, luck)
        = [q \in P |-> AirDamage(f[q], Cardinality(hits(q)) * d)]
  BY DEF Round, IsFleet
<1> HIDE DEF hits, d
<1> QED
  BY <1>2, <1>3 DEF IsFleet

LEMMA DogfightFleet ==
    ASSUME NEW P, IsFiniteSet(P), NEW f, IsFleet(f, P), NEW attackers, NEW shots, NEW luck \in Int
    PROVE  IsFleet(Dogfight(f, attackers, shots, luck), P)
<1> DEFINE a == Round(f, attackers, shots[1], luck)
           b == Round(a, attackers, shots[2], luck)
           c == Round(b, attackers, shots[AirRounds], luck)
<1>1. IsFleet(a, P)
  BY RoundFleet
<1>2. Dogfight(f, attackers, shots, luck) = c
  BY DEF Dogfight
<1> HIDE DEF a
<1>3. IsFleet(b, P)
  BY <1>1, RoundFleet
<1> HIDE DEF b
<1>4. IsFleet(c, P)
  BY <1>3, RoundFleet
<1> QED
  BY <1>2, <1>4

\* What an interception leaves: rows in order, and the flight that is left.
IsFight(fight, flight) ==
    /\ fight.w \in Quiet
    /\ fight.left \subseteq flight
    /\ \A p \in fight.left : fight.flight[p] \in FleetRows(p)

LEMMA FlightOfPlanes ==
    ASSUME Tables(World), NEW F, F \subseteq DOMAIN plane
    PROVE  IsFiniteSet(F) /\ \A i \in F : Of(i) \in DOMAIN plane
<1>1. IsFiniteSet(F)
  BY TypedRows, FS_Subset
<1>2. \A i \in F : Of(i) = i
  BY OfPlane
<1> QED
  BY <1>1, <1>2

LEMMA InterceptedFight ==
    ASSUME Tables(World), HoldsFit(World), NEW flight, IsFiniteSet(flight), \A i \in flight : Of(i) \in DOMAIN plane, NEW at, NEW me,
           NEW shots, NEW luck \in Int
    PROVE  IsFight(Intercepted(flight, at, me, shots, luck), flight)
<1> DEFINE rising == Interceptors(World, me, at)
           P == flight \cup rising
           base == [i \in P |-> plane[Of(i)]]
           fleet == Dogfight(base, flight, shots, luck)
           up == Up(fleet, rising)
           new == [p \in up |-> fleet[p]]
           fight == Intercepted(flight, at, me, shots, luck)
<1>1. rising \in SUBSET DOMAIN plane /\ rising \subseteq P /\ flight \subseteq P
  BY DEF Interceptors, World
<1> HIDE DEF rising
<1>2. IsFiniteSet(P)
  BY <1>1, TypedRows, FS_Subset, FS_Union
<1>3. \A i \in P : Of(i) \in DOMAIN plane /\ plane[Of(i)] \in FleetRows(i)
  <2>1. \A i \in rising : Of(i) \in DOMAIN plane
    BY <1>1, OfPlane
  <2>2. \A i \in P : Of(i) \in DOMAIN plane
    BY <2>1
  <2>3. \A p \in DOMAIN plane : plane[p] \in PlaneRows(p)
    BY TypedRows DEF PlaneRows
  <2> QED
    BY <2>2, <2>3 DEF FleetRows
<1> HIDE DEF P
<1>4. IsFleet(base, P)
  BY <1>3 DEF IsFleet
<1> HIDE DEF base
<1>5. IsFleet(fleet, P)
  BY <1>2, <1>4, DogfightFleet
<1>6. fight = [w |-> PutPlanes(World, new),
               flight |-> IF rising = {} THEN base ELSE fleet,
               left |-> IF rising = {} THEN flight ELSE Up(fleet, flight)]
  BY DEF Intercepted, rising, base, P
<1> HIDE DEF fleet
<1>7. DOMAIN new \subseteq DOMAIN plane /\ \A p \in DOMAIN new : new[p] \in PlaneRows(p)
  <2>1. up \subseteq DOMAIN plane /\ up \subseteq P
    BY <1>1 DEF Up
  <2>2. \A p \in up : Of(p) = p
    BY <2>1, OfPlane
  <2> HIDE DEF up
  <2>3. \A p \in up : fleet[p] \in PlaneRows(p)
    BY <1>5, <2>1, <2>2 DEF IsFleet, FleetRows
  <2> QED
    BY <2>1, <2>3
<1> HIDE DEF new
<1>8. PutPlanes(World, new) \in Quiet
  BY <1>7, WorldIsQuiet, PutPlanesQuiet
<1>9. fight.w = PutPlanes(World, new)
      /\ fight.flight = (IF rising = {} THEN base ELSE fleet)
      /\ fight.left = (IF rising = {} THEN flight ELSE Up(fleet, flight))
  BY <1>6
<1> HIDE DEF fight
<1>10. fight.left \subseteq flight
  BY <1>9 DEF Up
<1>11. \A p \in fight.left : fight.flight[p] \in FleetRows(p)
  <2>1. CASE rising = {}
    BY <1>1, <1>4, <1>9, <1>10, <2>1 DEF IsFleet
  <2>2. CASE rising # {}
    BY <1>1, <1>5, <1>9, <1>10, <2>2 DEF IsFleet
  <2> QED
    BY <2>1, <2>2
<1>12. IsFight(fight, flight)
  BY <1>8, <1>9, <1>10, <1>11 DEF IsFight
<1> QED
  BY <1>12 DEF fight

LEMMA BombDamageInt ==
    ASSUME Tables(World), NEW flight, flight \subseteq DOMAIN plane, NEW fight, IsFight(fight, flight),
           NEW luck \in Int, NEW factor \in Int
    PROVE  BombDamage(fight, luck, factor) \in Int
<1> DEFINE f == [p \in fight.left |-> BombEff(fight.flight[p])]
           load == SumFunction(f)
           a == load * (50 + luck)
           b == a * factor
<1>1. IsFiniteSet(fight.left)
  BY TypedRows, FS_Subset DEF IsFight
<1>2. f \in [fight.left -> Int]
  <2> SUFFICES ASSUME NEW p \in fight.left PROVE BombEff(fight.flight[p]) \in Int
    OBVIOUS
  <2> DEFINE row == fight.flight[p]
             n == PlaneChr[row.type].load
  <2>1. row.type \in DOMAIN PlaneChr /\ row.effic \in 0..100
    BY DEF IsFight, FleetRows, PlaneRows, PlaneRow
  <2>2. n \in Nat
    BY <2>1, TablesAssumption
  <2>3. BombEff(row) = IF row.effic < PLANE_MIN_EFF THEN 0 ELSE Most((n * row.effic) \div 100, 0)
    BY DEF BombEff
  <2> HIDE DEF n
  <2>4. n * row.effic \in Int
    BY <2>1, <2>2, ProductInt
  <2> HIDE DEF row
  <2> QED
    BY <2>3, <2>4 DEF Most, row
<1> HIDE DEF f
<1>3. load \in Int
  BY <1>1, <1>2, SumOfAll
<1> HIDE DEF load
<1>4. a \in Int
  BY <1>3, ProductInt
<1> HIDE DEF a
<1>5. b \in Int
  BY <1>4, ProductInt
<1>6. BombDamage(fight, luck, factor) = Least(Most(b \div 100, 1), 100)
  BY DEF BombDamage, a, load, f
<1> HIDE DEF b
<1> QED
  BY <1>5, <1>6 DEF Least, Most

LEMMA PutHome ==
    ASSUME Tables(World), NEW flight, flight \subseteq DOMAIN plane, NEW fight, IsFight(fight, flight), NEW w \in Fought
    PROVE  /\ Home(w, fight) \in Fought
           /\ w \in Quiet => Home(w, fight) \in Quiet
           /\ \A p \in fight.left : /\ Home(w, fight).plane[p] = UseFuel(fight.flight[p], 1)
                                    /\ fight.flight[p] \in PlaneRows(p)
                                    /\ fight.flight[p].mobil = plane[p].mobil
<1> DEFINE new == [p \in fight.left |-> UseFuel(fight.flight[p], 1)]
           all == Over(w.plane, new)
<1>1. fight.left \subseteq DOMAIN plane
      /\ \A p \in fight.left : fight.flight[p] \in PlaneRows(p) /\ fight.flight[p].mobil = plane[p].mobil
  <2>1. fight.left \subseteq DOMAIN plane
    BY DEF IsFight
  <2>2. \A p \in fight.left : Of(p) = p
    BY <2>1, OfPlane
  <2> QED
    BY <2>1, <2>2 DEF IsFight, FleetRows
<1>2. DOMAIN new \subseteq DOMAIN plane /\ \A p \in DOMAIN new : new[p] \in PlaneRows(p)
  BY <1>1, UseFuelRows
<1>3. Home(w, fight) = PutPlanes(w, new)
  BY DEF Home
<1>4. \A p \in fight.left : all[p] = UseFuel(fight.flight[p], 1)
  <2>1. DOMAIN w.plane = DOMAIN plane
    BY FoughtRows
  <2> QED
    BY <1>1, <2>1 DEF Over
<1>5. PutPlanes(w, new) = [w EXCEPT !.plane = all]
  BY DEF PutPlanes
<1> HIDE DEF new, all
<1>6. PutPlanes(w, new).plane = all
  BY <1>5 DEF Fought, Now, Worlds
<1>7. PutPlanes(w, new) \in Fought /\ (w \in Quiet => PutPlanes(w, new) \in Quiet)
  BY <1>2, PutPlanesFought, PutPlanesQuiet
<1> QED
  BY <1>1, <1>3, <1>4, <1>6, <1>7

LEMMA BombSectQuiet ==
    ASSUME Tables(World), HoldsFit(World), NEW me \in Nations, NEW spec, spec \subseteq DOMAIN plane,
           NEW at \in Sectors, NEW shots, NEW luck \in Int, BombSect(me, spec, at, shots, luck)
    PROVE  Quietly
<1> DEFINE F == Bombers(me, spec)
           fight == Intercepted(F, at, me, shots, luck)
           row == Shelled(sect[at], BombDamage(fight, luck, 1))
           w == IF fight.left = {} THEN fight.w ELSE Home(PutSect(fight.w, at, row), fight)
<1>1. Done(w, FALSE)
  BY DEF BombSect
<1>2. F \subseteq DOMAIN plane
  BY DEF Bombers, Mine
<1> HIDE DEF F
<1>3. IsFight(fight, F)
  BY <1>2, FlightOfPlanes, InterceptedFight
<1> HIDE DEF fight
<1>4. BombDamage(fight, luck, 1) \in Int
  BY <1>2, <1>3, BombDamageInt
<1>5. row \in SectRows(at)
  BY <1>4, ThisSect, ShelledSect
<1> HIDE DEF row
<1>6. fight.w \in Quiet /\ PutSect(fight.w, at, row) \in Quiet
  BY <1>3, <1>5, PutSectQuiet DEF IsFight
<1>7. w \in Quiet
  BY <1>2, <1>3, <1>6, PutHome, QuietIsFought
<1> HIDE DEF w
<1> QED
  BY <1>1, <1>7 DEF Quietly

LEMMA BombShipFair ==
    ASSUME Tables(World), HoldsFit(World), NEW me \in Nations, NEW spec, spec \subseteq DOMAIN plane,
           NEW t \in DOMAIN ship, NEW shots, NEW luck \in Int, BombShip(me, spec, t, shots, luck)
    PROVE  Fairly
<1> DEFINE F == Bombers(me, spec)
           fight == Intercepted(F, ship[t].at, me, shots, luck)
           row == ShipDamage(ship[t], BombDamage(fight, luck, 2))
           v == PutShip(fight.w, t, row)
           home == Home(v, fight)
           w == IF fight.left = {} THEN fight.w ELSE home
<1>1. Done(w, FALSE)
  BY DEF BombShip
<1>2. F \subseteq DOMAIN plane /\ \A p \in F : plane[p].mobil > 0
  BY DEF Bombers, Mine, Capable
<1> HIDE DEF F
<1>3. IsFight(fight, F)
  BY <1>2, FlightOfPlanes, InterceptedFight
<1> HIDE DEF fight
<1>4. BombDamage(fight, luck, 2) \in Int
  BY <1>2, <1>3, BombDamageInt
<1>5. row \in HitRows(t)
  BY <1>4, ShipIsHull, DamagedRows DEF ShipRows
<1> HIDE DEF row
<1>6. fight.w \in Quiet /\ v \in Fought
  BY <1>3, <1>5, QuietIsFought, PutShipFought DEF IsFight
<1> HIDE DEF v
<1>7. CASE fight.left = {}
  BY <1>1, <1>6, <1>7, QuietIsFought, QuietIsFair DEF Fairly
<1>8. CASE fight.left # {}
  <2>1. PICK p \in fight.left : TRUE
    BY <1>8
  <2>2. /\ home \in Fought /\ home.plane[p] = UseFuel(fight.flight[p], 1)
        /\ fight.flight[p] \in PlaneRows(p) /\ fight.flight[p].mobil = plane[p].mobil
    BY <1>2, <1>3, <1>6, <2>1, PutHome
  <2> HIDE DEF home
  <2>3. p \in F
    BY <1>3, <2>1 DEF IsFight
  <2>4. home.plane[p].mobil < plane[p].mobil /\ p \in DOMAIN plane
    BY <1>2, <2>2, <2>3, FuelSpent
  <2>5. Fair(home)
    BY <2>4 DEF Fair, Charged
  <2> QED
    BY <1>1, <1>8, <2>2, <2>5 DEF Fairly
<1> QED
  BY <1>7, <1>8

-----------------------------------------------------------------------------
(* fly, sweep and recon. *)

LEMMA QuietAboard ==
    ASSUME NEW w \in Quiet, NEW s
    PROVE  PlanesOn(w, s) = PlanesOn(World, s)
<1>1. DOMAIN w.plane = DOMAIN plane /\ \A p \in DOMAIN plane : w.plane[p].ship = plane[p].ship
  BY FoughtRows, QuietIsFought
<1> QED
  BY <1>1 DEF PlanesOn, World

LEMMA CountedFirst ==
    ASSUME WorldInv(World), NEW w \in Quiet, NEW s \in DOMAIN ship
    PROVE  /\ Ascending(PlanesOn(w, s)) \in Seq(DOMAIN plane)
           /\ Listed(Ascending(PlanesOn(w, s))) = PlanesOn(World, s)
           /\ Housed(Crewed(s, Listed(Ascending(PlanesOn(w, s)))), s)
<1> DEFINE P == PlanesOn(World, s)
           list == Ascending(P)
           n == Cardinality(P)
<1>1. Tables(World) /\ World \in Still
  BY WorldIsQuiet, QuietIsStill DEF WorldInv
<1>2. PlanesOn(w, s) = P
  BY QuietAboard
<1>3. P \subseteq DOMAIN plane /\ IsFiniteSet(P) /\ P \subseteq Int
  BY <1>1, PlanesOnFinite
<1>4. n \in Nat /\ list \in [1..n -> P] /\ \A u \in P : \E k \in 1..n : list[k] = u
  <2> HIDE DEF P
  <2> QED
    BY <1>3, AscendingEach
<1>5. list \in Seq(DOMAIN plane) /\ Len(list) = n
  <2>1. n \in Nat /\ list \in [1..n -> DOMAIN plane]
    BY <1>3, <1>4
  <2> HIDE DEF n, list
  <2> QED
    BY <2>1
<1>6. Listed(list) = P
  <2> HIDE DEF list, n, P
  <2> QED
    BY <1>4, <1>5 DEF Listed
<1> HIDE DEF list, n
<1>7. s # None /\ ship[s].type \in DOMAIN ShipChr
  BY <1>1, TypedRows DEF Tables, World, None, ShipRow
<1> DEFINE a == Crewed(s, P)
<1>8. /\ PlanesOn(a, s) = P /\ a.ship = ship
      /\ \A q \in DOMAIN plane : a.plane[q].type = plane[q].type
  <2> HIDE DEF P
  <2> QED
    BY <1>3, <1>7, CrewedPlanes
<1> HIDE DEF a
<1>9. SameHangar(World, a, s)
  <2>1. World.ship = ship /\ World.plane = plane
    BY DEF World
  <2> QED
    BY <1>3, <1>8, <2>1 DEF SameHangar
<1>10. Housed(World, s)
  BY DEF WorldInv, HangarFits, World
<1>11. Housed(a, s)
  BY <1>9, <1>10, HousedAlike
<1> QED
  BY <1>2, <1>5, <1>6, <1>11 DEF a, list

LEMMA LandedSound ==
    ASSUME WorldInv(World), NEW me, NEW at \in Sectors, NEW st \in LandingRows(Carriers(me, at))
    PROVE  WorldInv(st.w) /\ Fair(st.w)
<1> DEFINE Cs == Carriers(me, at)
<1>1. Tables(World) /\ World \in Still
  BY WorldIsQuiet, QuietIsStill DEF WorldInv
<1>2. Cs \subseteq DOMAIN ship
  BY CarriersHere
<1>3. /\ st.w \in Still /\ st.manifest \in [Cs -> Seq(DOMAIN plane)] /\ Counted(st, Cs)
  BY DEF LandingRows
<1> HIDE DEF Cs
<1> DEFINE w == st.w
<1>4. DOMAIN w.ship = DOMAIN ship
  BY <1>3, StillRows
<1>5. ASSUME NEW s \in DOMAIN ship PROVE Housed(w, s)
  <2>1. s # None /\ ship[s].type \in DOMAIN ShipChr
    BY <1>1, <1>5, TypedRows DEF Tables, World, None, ShipRow
  <2>2. w.ship[s].type = ship[s].type /\ \A p \in DOMAIN plane : w.plane[p].type = plane[p].type
    BY <1>3, <1>5, StillRows
  <2>3. PlanesOn(w, s) \subseteq DOMAIN plane
    BY <1>1, <1>3, PlanesOnFinite
  <2>4. CASE s \in Cs
    <3> DEFINE P == Listed(st.manifest[s])
               a == Crewed(s, P)
    <3>1. P \subseteq DOMAIN plane
      <4>1. st.manifest[s] \in Seq(DOMAIN plane)
        BY <1>3, <2>4
      <4> QED
        BY <4>1 DEF Listed
    <3>2. IsFiniteSet(P)
      BY <1>1, <3>1, TypedRows, FS_Subset
    <3>3. Housed(a, s) /\ PlanesOn(w, s) \subseteq P
      BY <1>3, <2>4 DEF Counted
    <3> HIDE DEF P
    <3>4. /\ PlanesOn(a, s) = P /\ a.ship = ship
          /\ \A q \in DOMAIN plane : a.plane[q].type = plane[q].type
      BY <2>1, <3>1, CrewedPlanes
    <3> HIDE DEF a, w
    <3>5. Lighter(a, w, s)
      BY <2>2, <2>3, <3>3, <3>4 DEF Lighter
    <3>6. a.ship[s].type \in DOMAIN ShipChr /\ IsFiniteSet(PlanesOn(a, s))
      BY <2>1, <3>2, <3>4
    <3> QED
      BY <3>3, <3>5, <3>6, LighterHoused
  <2>5. CASE s \notin Cs
    <3>1. PlanesOn(w, s) \subseteq PlanesOn(World, s)
      BY <1>3, <1>5, <2>5 DEF Counted
    <3>2. Lighter(World, w, s)
      BY <2>2, <2>3, <3>1 DEF Lighter, World
    <3>3. Housed(World, s) /\ World.ship[s].type = ship[s].type
      BY <1>5 DEF WorldInv, HangarFits, World
    <3>4. IsFiniteSet(PlanesOn(World, s))
      BY <1>1, PlanesOnFinite
    <3> HIDE DEF w
    <3> QED
      BY <2>1, <3>2, <3>3, <3>4, LighterHoused
  <2> QED
    BY <2>4, <2>5
<1>6. HangarFits(w)
  BY <1>4, <1>5 DEF HangarFits
<1> QED
  BY <1>3, <1>6, StillKeeps

LEMMA AllLandSound ==
    ASSUME WorldInv(World), NEW w \in Quiet, NEW me, NEW at \in Sectors,
           NEW S, \A i \in S : Of(i) \in DOMAIN plane, NEW n \in Nat, NEW flight \in [1..n -> S],
           NEW rows_, \A i \in S : rows_[i] \in PlaneRows(Of(i)),
           NEW runway \in BOOLEAN, runway => sect[at].type # "sea"
    PROVE  /\ WorldInv(AllLand(w, flight, rows_, at, me, runway))
           /\ Fair(AllLand(w, flight, rows_, at, me, runway))
<1> DEFINE Cs == Carriers(me, at)
           V == LandingRows(Cs)
           man == [s \in Cs |-> Ascending(PlanesOn(w, s))]
           base == [w |-> w, manifest |-> man]
<1>1. Cs \subseteq DOMAIN ship
  BY CarriersHere
<1>2. \A s \in DOMAIN ship :
           /\ Ascending(PlanesOn(w, s)) \in Seq(DOMAIN plane)
           /\ Listed(Ascending(PlanesOn(w, s))) = PlanesOn(World, s)
           /\ Housed(Crewed(s, Listed(Ascending(PlanesOn(w, s)))), s)
           /\ PlanesOn(w, s) = PlanesOn(World, s)
  BY CountedFirst, QuietAboard
<1>3. w \in Still
  BY QuietIsStill
<1> HIDE DEF Cs
<1>4. man \in [Cs -> Seq(DOMAIN plane)]
  BY <1>1, <1>2
<1>5. \A s \in Cs : Housed(Crewed(s, Listed(man[s])), s) /\ Listed(man[s]) = PlanesOn(World, s)
  BY <1>1, <1>2
<1> HIDE DEF man
<1>6. base \in [w : Still, manifest : [Cs -> Seq(DOMAIN plane)]] /\ base.w = w /\ base.manifest = man
  BY <1>3, <1>4
<1> HIDE DEF base
<1>7. Counted(base, Cs)
  BY <1>1, <1>2, <1>5, <1>6 DEF Counted
<1>8. base \in V
  BY <1>6, <1>7 DEF LandingRows
<1>9. \A st \in V : \A i \in S : Land(st, Of(i), rows_[i], at, runway) \in V
  <2> SUFFICES ASSUME NEW st \in V, NEW i \in S
               PROVE  Land(st, Of(i), rows_[i], at, runway) \in V
    OBVIOUS
  <2>1. Of(i) \in DOMAIN plane /\ rows_[i] \in PlaneRows(Of(i)) /\ st \in LandingRows(Carriers(me, at))
    BY DEF Cs
  <2> QED
    BY <2>1, LandKeeps DEF Cs
<1>10. [w |-> w, manifest |-> [s \in Carriers(me, at) |-> Ascending(PlanesOn(w, s))]] \in V
  BY <1>8 DEF base, man, Cs
<1> HIDE DEF V
<1>11. Landings(w, flight, rows_, at, me, runway) \in V
  BY <1>9, <1>10, LandingsIn
<1> QED
  BY <1>11, LandedSound DEF V, Cs, AllLand

LEMMA FlySound ==
    ASSUME WorldInv(World), NEW me \in Nations, NEW spec, spec \subseteq DOMAIN plane,
           NEW at \in Sectors, Fly(me, spec, at)
    PROVE  Soundly
<1> DEFINE runway == Runway(at) /\ (sect[at].own = me \/ IsDeity(me))
           flying == {p \in Mine(me, spec) :
                       /\ Capable(plane[p])
                       /\ MapDist(plane[p].at, at) <= PlaneChr[plane[p].type].range}
           aloft == [p \in flying |-> UseFuel(plane[p], MapDist(plane[p].at, at))]
           list == Ascending(flying)
           n == Cardinality(flying)
           w == AllLand(World, list, aloft, at, me, runway)
<1>1. Done(w, FALSE)
  BY DEF Fly
<1>2. Tables(World) /\ HoldsFit(World) /\ World \in Quiet
  BY WorldIsQuiet DEF WorldInv
<1>3. flying \in SUBSET DOMAIN plane
  BY DEF Mine
<1>4. runway \in BOOLEAN /\ (runway => sect[at].type # "sea")
  BY DEF Runway
<1> HIDE DEF runway, flying
<1>5. IsFiniteSet(flying) /\ flying \subseteq Int
  BY <1>2, <1>3, TypedRows, FS_Subset
<1>6. n \in Nat /\ list \in [1..n -> flying]
  BY <1>5, AscendingEach
<1>7. \A p \in flying : Of(p) \in DOMAIN plane /\ aloft[p] \in PlaneRows(Of(p))
  <2> SUFFICES ASSUME NEW p \in flying
               PROVE  /\ Of(p) \in DOMAIN plane
                      /\ UseFuel(plane[p], MapDist(plane[p].at, at)) \in PlaneRows(Of(p))
    OBVIOUS
  <2>1. plane[p] \in PlaneRow(DOMAIN ship) /\ p \in DOMAIN plane
    BY <1>2, <1>3, TypedRows
  <2>2. plane[p] \in PlaneRows(p)
    BY <2>1 DEF PlaneRows
  <2>3. MapDist(plane[p].at, at) \in Int
    BY <2>1, MapDistNat DEF PlaneRow
  <2>4. Of(p) = p
    BY <1>2, <2>1, OfPlane
  <2> QED
    BY <2>1, <2>2, <2>3, <2>4, UseFuelRows
<1> HIDE DEF aloft, list, n
<1>8. WorldInv(w) /\ Fair(w)
  BY <1>2, <1>3, <1>4, <1>6, <1>7, AllLandSound
<1> HIDE DEF w
<1> QED
  BY <1>1, <1>8 DEF Soundly

LEMMA SweptSect ==
    ASSUME NEW s, NEW row \in SectRows(s), NEW sweepers, IsFiniteSet(sweepers)
    PROVE  Swept(row, sweepers) \in SectRows(s)
<1> DEFINE mines == Most(row.mines - Cardinality(sweepers), 0)
<1>1. row \in SectRow /\ row.mines \in Nat
  BY DEF SectRows, SectRow
<1>2. mines \in Nat
  <2>1. Cardinality(sweepers) \in Nat
    BY FS_CardinalityType
  <2> QED
    BY <1>1, <2>1 DEF Most
<1>3. Swept(row, sweepers) = row \/ Swept(row, sweepers) = [row EXCEPT !.mines = mines]
  BY DEF Swept
<1> HIDE DEF mines
<1>4. [row EXCEPT !.mines = mines] \in SectRow /\ [row EXCEPT !.mines = mines].type = row.type
  BY <1>1, <1>2 DEF SectRow
<1> QED
  BY <1>1, <1>3, <1>4 DEF SectRows

LEMMA SweptAllQuiet ==
    ASSUME NEW w \in Quiet, NEW n \in Nat, NEW visited \in [1..n -> Sectors],
           NEW sweepers, IsFiniteSet(sweepers)
    PROVE  SweptAll(w, visited, sweepers) \in Quiet
<1>1. \A v \in Quiet : \A s \in Sectors : PutSect(v, s, Swept(v.sect[s], sweepers)) \in Quiet
  <2> SUFFICES ASSUME NEW v \in Quiet, NEW s \in Sectors
               PROVE  PutSect(v, s, Swept(v.sect[s], sweepers)) \in Quiet
    OBVIOUS
  <2>1. v.sect[s] \in SectRows(s)
    BY DEF Quiet, Fought
  <2>2. Swept(v.sect[s], sweepers) \in SectRows(s)
    BY <2>1, SweptSect
  <2> QED
    BY <2>2, PutSectQuiet
<1> QED
  BY <1>1, SweptAllIn

LEMMA ReconSound ==
    ASSUME WorldInv(World), NEW me \in Nations, NEW spies, NEW escorts, spies \subseteq DOMAIN plane,
           escorts \subseteq DOMAIN plane, NEW from \in Sectors, NEW route \in Ways,
           NEW lucky, NEW shots, NEW luck \in Int,
           Recon(me, spies, escorts, from, route, lucky, shots, luck)
    PROVE  Soundly
<1> DEFINE flight == ReconFlight(me, spies, escorts, from)
           scouts == Gathered(me, spies, from)
           guards == Gathered(me, Fighters(escorts), from)
           sweepers == {p \in scouts \cap lucky : "SWEEP" \in PlaneChr[plane[p].type].flags}
           m == Len(route) + 1
           visited == [k \in 1..m |-> Walk(from, SubSeq(route, 1, k - 1))]
           to == visited[m]
           fight == Intercepted(flight, to, me, shots, luck)
           swept == SweptAll(fight.w, visited, sweepers)
           runway == Runway(to) /\ sect[to].own = me
           A == fight.left \cap Nat
           B == fight.left \ Nat
           order == Ascending(A) \o Reverse(Ascending(B))
           aloft == [p \in fight.left |-> UseFuel(fight.flight[p], Most(Len(route), 1))]
           landed == AllLand(swept, order, aloft, to, me, runway)
           w == IF runway \/ Carriers(me, to) # {} THEN landed ELSE swept
<1>1. Done(w, FALSE)
  BY DEF Recon
<1>2. Tables(World) /\ HoldsFit(World) /\ World \in Quiet
  BY WorldIsQuiet DEF WorldInv
<1>3. /\ IsFiniteSet(flight) /\ flight \subseteq Int /\ \A i \in flight : Of(i) \in DOMAIN plane
      /\ sweepers \in SUBSET DOMAIN plane
  <2>1. scouts \in SUBSET DOMAIN plane /\ guards \in SUBSET DOMAIN plane /\ sweepers \in SUBSET scouts
    BY DEF Gathered, Mine, Fighters
  <2>2. flight = scouts \cup {Escort(p) : p \in guards}
    BY DEF ReconFlight
  <2> HIDE DEF flight, scouts, guards, sweepers
  <2>3. IsFiniteSet(scouts) /\ IsFiniteSet({Escort(p) : p \in guards})
    <3>1. IsFiniteSet(scouts) /\ IsFiniteSet(guards)
      BY <1>2, <2>1, TypedRows, FS_Subset
    <3>2. IsFiniteSet({Escort(p) : p \in guards})
      <4> DEFINE Copied == {Escort(p) : p \in guards}
                 f == [p \in guards |-> Escort(p)]
      <4>1. f \in Surjection(guards, Copied)
        BY DEF Surjection
      <4> HIDE DEF f, Copied
      <4>2. IsFiniteSet(Copied)
        BY <3>1, <4>1, FS_Surjection
      <4> QED
        BY <4>2 DEF Copied
    <3> QED
      BY <3>1, <3>2
  <2>4. IsFiniteSet(flight)
    BY <2>2, <2>3, FS_Union
  <2>5. \A i \in flight : i \in Int /\ Of(i) \in DOMAIN plane
    BY <1>2, <2>1, <2>2, OfPlane
  <2> QED
    BY <2>1, <2>4, <2>5
<1>4. route \in Seq(Directions) /\ Len(route) \in Nat
  BY WarAssumption
<1>5. m \in Nat \ {0} /\ visited \in [1..m -> Sectors]
  <2>1. ASSUME NEW k \in 1..m PROVE Walk(from, SubSeq(route, 1, k - 1)) \in Sectors
    <3> DEFINE r == SubSeq(route, 1, k - 1)
    <3>1. k - 1 \in Nat /\ k - 1 <= Len(route)
      BY <1>4
    <3>2. r \in [1..k - 1 -> Directions]
      <4> DEFINE j == k - 1
      <4>1. j \in Nat /\ j <= Len(route)
        BY <3>1
      <4> HIDE DEF j
      <4>2. SubSeq(route, 1, j) \in Seq(Directions)
        BY <1>4, <4>1
      <4>3. Len(SubSeq(route, 1, j)) = j
        BY <1>4, <4>1
      <4>4. r \in Seq(Directions) /\ Len(r) = j
        BY <4>2, <4>3 DEF j
      <4> HIDE DEF r
      <4>5. r \in [1..Len(r) -> Directions]
        BY <4>4
      <4> QED
        BY <4>4, <4>5 DEF j
    <3> HIDE DEF r
    <3> QED
      BY <3>1, <3>2, WalkIsSector DEF r
  <2> QED
    BY <1>4, <2>1
<1>6. to \in Sectors
  BY <1>5
<1>7. runway \in BOOLEAN /\ (runway => sect[to].type # "sea")
  BY DEF Runway
<1> HIDE DEF flight, scouts, guards, sweepers, visited, to, runway
<1>8. IsFiniteSet(sweepers)
  BY <1>2, <1>3, TypedRows, FS_Subset
<1>9. IsFight(fight, flight)
  BY <1>2, <1>3, InterceptedFight
<1> HIDE DEF fight
<1>10. /\ fight.w \in Quiet /\ fight.left \in SUBSET flight
       /\ \A i \in fight.left : Of(i) \in DOMAIN plane /\ fight.flight[i] \in PlaneRows(Of(i))
  BY <1>3, <1>9 DEF IsFight, FleetRows
<1> HIDE DEF m
<1>11. swept \in Quiet
  BY <1>5, <1>8, <1>10, SweptAllQuiet
<1> HIDE DEF swept
<1>12. IsFiniteSet(A) /\ A \subseteq Int /\ IsFiniteSet(B) /\ B \subseteq Int
  <2>1. A \in SUBSET flight /\ B \in SUBSET flight
    BY <1>10
  <2> QED
    BY <1>3, <2>1, FS_Subset
<1> DEFINE a == Ascending(A)
           list == Ascending(B)
           b == Reverse(list)
           na == Cardinality(A)
           nb == Cardinality(B)
<1>13. na \in Nat /\ a \in [1..na -> A] /\ nb \in Nat /\ b \in [1..nb -> B]
  <2>1. na \in Nat /\ a \in [1..na -> A] /\ nb \in Nat /\ list \in [1..nb -> B]
    <3> HIDE DEF A, B
    <3> QED
      BY <1>12, AscendingEach
  <2>2. b = [k \in 1..Len(list) |-> list[(Len(list) - k) + 1]]
    BY DEF Reverse
  <2> HIDE DEF A, B, a, b, list, na, nb
  <2>3. Len(list) = nb
    BY <2>1
  <2> QED
    BY <2>1, <2>2, <2>3
<1>14. na \in Nat /\ a \in [1..na -> fight.left] /\ nb \in Nat /\ b \in [1..nb -> fight.left]
  BY <1>13
<1>15. na + nb \in Nat /\ order \in [1..na + nb -> fight.left]
  <2>1. order = a \o b
    OBVIOUS
  <2> HIDE DEF a, b, na, nb, order
  <2>2. a \in Seq(fight.left) /\ Len(a) = na /\ b \in Seq(fight.left) /\ Len(b) = nb
    BY <1>14
  <2>3. a \o b \in Seq(fight.left) /\ Len(a \o b) = na + nb
    BY <2>2
  <2>4. order \in Seq(fight.left) /\ Len(order) = na + nb
    BY <2>1, <2>3
  <2>5. order \in [1..Len(order) -> fight.left]
    BY <2>4
  <2> QED
    BY <1>14, <2>4, <2>5
<1>16. \A i \in fight.left : aloft[i] \in PlaneRows(Of(i))
  <2> DEFINE d == Most(Len(route), 1)
  <2>1. d \in Int
    BY <1>4 DEF Most
  <2> HIDE DEF d
  <2>2. \A i \in fight.left : UseFuel(fight.flight[i], d) \in PlaneRows(Of(i))
    BY <1>10, <2>1, UseFuelRows
  <2> QED
    BY <2>2 DEF d
<1> DEFINE n == na + nb
<1> HIDE DEF order, aloft, n
<1>17. n \in Nat /\ order \in [1..n -> fight.left]
  BY <1>15 DEF n
<1>18. WorldInv(landed) /\ Fair(landed)
  BY <1>6, <1>7, <1>10, <1>11, <1>16, <1>17, AllLandSound
<1>19. WorldInv(swept) /\ Fair(swept)
  BY <1>11, FoughtKeeps, QuietIsFought, QuietIsFair
<1> HIDE DEF landed
<1>20. WorldInv(w) /\ Fair(w)
  BY <1>18, <1>19
<1> HIDE DEF w
<1> QED
  BY <1>1, <1>20 DEF Soundly

-----------------------------------------------------------------------------
(* navigate. *)

\* The rows of ships under way, and of planes that are carried along.
HullRows(s) == {row \in HullRow : row.type = ship[s].type}
AboardRows(p) == {row \in PlaneRow(DOMAIN ship) : row.ship = plane[p].ship /\ row.type = plane[p].type}
\* Forts have fired.
Firing(w) == \E f \in Sectors : w.sect[f].items["shell"] < sect[f].items["shell"]
Cruise == {w \in Now : /\ \A s \in DOMAIN ship : w.ship[s] \in HullRows(s)
                       /\ \A p \in DOMAIN plane : w.plane[p] \in AboardRows(p)
                       /\ \A s \in Sectors : w.sect[s] \in SectRows(s)
                       /\ Moored(w)}
Afloat == {w \in Cruise :
               /\ \A f \in Sectors : w.sect[f].items["shell"] <= sect[f].items["shell"]
               /\ \A s \in DOMAIN ship : w.ship[s].effic \in {ship[s].effic, 0} \/ Firing(w)}

LEMMA AfloatRows ==
    ASSUME NEW w \in Afloat
    PROVE  /\ w \in Now /\ Moored(w)
           /\ \A s \in DOMAIN ship : /\ w.ship[s] \in ShipRow /\ Fits(w.ship[s])
                                     /\ w.ship[s].type = ship[s].type
           /\ \A p \in DOMAIN plane : /\ w.plane[p] \in PlaneRow(DOMAIN ship)
                                      /\ w.plane[p].ship = plane[p].ship
                                      /\ w.plane[p].type = plane[p].type
           /\ \A s \in Sectors : w.sect[s] \in SectRow /\ (w.sect[s].type = "sea" => sect[s].type = "sea")
           /\ DOMAIN w.ship = DOMAIN ship /\ DOMAIN w.plane = DOMAIN plane
           /\ DOMAIN w.land = DOMAIN land /\ DOMAIN w.sect = Sectors
<1>1. /\ \A s \in DOMAIN ship : w.ship[s] \in HullRows(s)
      /\ \A p \in DOMAIN plane : w.plane[p] \in AboardRows(p)
      /\ \A s \in Sectors : w.sect[s] \in SectRows(s)
      /\ Moored(w) /\ w \in Now
  BY DEF Afloat, Cruise
<1>2. DOMAIN w.ship = DOMAIN ship /\ DOMAIN w.plane = DOMAIN plane
      /\ DOMAIN w.land = DOMAIN land /\ DOMAIN w.sect = Sectors
  BY <1>1 DEF Now, Worlds
<1>3. \A s \in DOMAIN ship : w.ship[s] \in ShipRow /\ Fits(w.ship[s]) /\ w.ship[s].type = ship[s].type
  BY <1>1 DEF HullRows, HullRow
<1>4. \A p \in DOMAIN plane : /\ w.plane[p] \in PlaneRow(DOMAIN ship)
                              /\ w.plane[p].ship = plane[p].ship
                              /\ w.plane[p].type = plane[p].type
  BY <1>1 DEF AboardRows
<1>5. \A s \in Sectors : w.sect[s] \in SectRow /\ (w.sect[s].type = "sea" => sect[s].type = "sea")
  BY <1>1 DEF SectRows
<1> QED
  BY <1>1, <1>2, <1>3, <1>4, <1>5

LEMMA WorldIsAfloat ==
    ASSUME WorldInv(World)
    PROVE  World \in Afloat
<1>1. World \in Quiet /\ Moored(World)
  BY WorldIsQuiet DEF WorldInv
<1>2. /\ World \in Now
      /\ \A s \in DOMAIN ship : World.ship[s] \in ShipRows(s)
      /\ \A p \in DOMAIN plane : World.plane[p] \in PlaneRows(p)
      /\ \A s \in Sectors : World.sect[s] \in SectRows(s)
  BY <1>1 DEF Quiet, Fought
<1>3. \A s \in DOMAIN ship : World.ship[s] \in HullRows(s)
  BY <1>2 DEF ShipRows, HitRows, HullRows
<1>4. \A p \in DOMAIN plane : World.plane[p] \in AboardRows(p)
  BY <1>2 DEF PlaneRows, AboardRows
<1>5. World \in Cruise
  BY <1>1, <1>2, <1>3, <1>4 DEF Cruise
<1>6. \A f \in Sectors : World.sect[f].items["shell"] <= sect[f].items["shell"]
  <2>1. "shell" \in Items
    BY ForcesAssumption DEF Special
  <2>2. \A f \in Sectors : sect[f].items["shell"] \in Nat
    BY <2>1, TypedRows DEF WorldInv, SectRow, Stock
  <2> QED
    BY <2>2 DEF World
<1>7. World.ship = ship
  BY DEF World
<1> QED
  BY <1>5, <1>6, <1>7 DEF Afloat

LEMMA AfloatKeeps ==
    ASSUME WorldInv(World), NEW w \in Afloat
    PROVE  WorldInv(w) /\ Fair(w)
<1>1. /\ w \in Worlds(DOMAIN w.ship, DOMAIN w.plane, DOMAIN w.land)
      /\ DOMAIN w.ship = DOMAIN ship /\ DOMAIN w.plane = DOMAIN plane /\ DOMAIN w.land = DOMAIN land
  BY AfloatRows DEF Now
<1>2. Tables(w)
  BY <1>1 DEF WorldInv, Tables, World
<1>3. HoldsFit(w)
  BY <1>1, AfloatRows DEF HoldsFit, Fits
<1>4. Moored(w)
  BY AfloatRows
<1>5. HangarFits(w)
  <2>1. ASSUME NEW s \in DOMAIN ship PROVE PlanesOn(w, s) = PlanesOn(World, s)
    BY <1>1, AfloatRows DEF PlanesOn, World
  <2>2. ASSUME NEW s \in DOMAIN ship PROVE PlanesOn(World, s) \subseteq DOMAIN plane
    BY DEF PlanesOn, World
  <2>3. ASSUME NEW s \in DOMAIN ship PROVE SameHangar(World, w, s)
    <3>1. w.ship[s].type = World.ship[s].type
      BY <2>3, AfloatRows DEF World
    <3>2. \A p \in PlanesOn(World, s) : w.plane[p].type = World.plane[p].type
      BY <2>2, <2>3, AfloatRows DEF World
    <3> QED
      BY <2>1, <2>3, <3>1, <3>2 DEF SameHangar
  <2>4. World.ship = ship
    BY DEF World
  <2>5. \A s \in DOMAIN ship : Housed(World, s)
    BY <2>4 DEF HangarFits, WorldInv
  <2>6. ASSUME NEW s \in DOMAIN ship PROVE Housed(w, s)
    BY <2>3, <2>5, <2>6, HousedAlike
  <2> QED
    BY <1>1, <2>6 DEF HangarFits
<1>6. Fair(w)
  BY DEF Afloat, Firing, Fair, Charged
<1> QED
  BY <1>2, <1>3, <1>4, <1>5, <1>6 DEF WorldInv

LEMMA PutSectsAfloat ==
    ASSUME WorldInv(World), NEW w \in Afloat, NEW new,
           \A s \in DOMAIN new : s \in Sectors =>
               /\ new[s] \in SectRow /\ new[s].type = w.sect[s].type
               /\ new[s].items["shell"] < w.sect[s].items["shell"]
    PROVE  /\ PutSects(w, new) \in Afloat
           /\ Firing(w) \/ DOMAIN new \cap Sectors # {} => Firing(PutSects(w, new))
<1> DEFINE all == Over(w.sect, new)
           to == PutSects(w, new)
<1>1. w \in Now /\ Moored(w) /\ \A s \in Sectors : w.sect[s] \in SectRows(s)
  BY DEF Afloat, Cruise
<1>2. DOMAIN w.sect = Sectors
  BY <1>1 DEF Now, Worlds
<1>3. \A s \in Sectors : all[s] \in SectRows(s) /\ all[s].type = w.sect[s].type
  BY <1>1, <1>2 DEF Over, SectRows
<1>4. all \in [Sectors -> SectRow]
  <2>1. \A s \in Sectors : all[s] \in SectRow
    BY <1>3 DEF SectRows
  <2> QED
    BY <1>2, <2>1 DEF Over
<1>5. \A s \in Sectors : /\ all[s].items["shell"] \in Nat /\ w.sect[s].items["shell"] \in Nat
                         /\ sect[s].items["shell"] \in Nat
                         /\ w.sect[s].items["shell"] <= sect[s].items["shell"]
  <2>1. "shell" \in Items
    BY ForcesAssumption DEF Special
  <2>2. ASSUME NEW row \in SectRow PROVE row.items["shell"] \in Nat
    BY <2>1 DEF SectRow, Stock
  <2>3. \A s \in Sectors : all[s] \in SectRow /\ w.sect[s] \in SectRow /\ sect[s] \in SectRow
    BY <1>1, <1>3, TypedRows DEF SectRows, WorldInv
  <2>4. \A s \in Sectors : w.sect[s].items["shell"] <= sect[s].items["shell"]
    BY DEF Afloat
  <2> HIDE DEF all
  <2> QED
    BY <2>2, <2>3, <2>4
<1>6. ASSUME NEW s \in Sectors
      PROVE  /\ all[s].items["shell"] <= w.sect[s].items["shell"]
             /\ s \in DOMAIN new => all[s].items["shell"] < w.sect[s].items["shell"]
  <2>1. all[s] = IF s \in DOMAIN new THEN new[s] ELSE w.sect[s]
    BY <1>2 DEF Over
  <2> HIDE DEF all
  <2>2. CASE s \in DOMAIN new
    <3>1. all[s].items["shell"] < w.sect[s].items["shell"]
      BY <2>1, <2>2
    <3> QED
      BY <1>5, <3>1
  <2>3. CASE s \notin DOMAIN new
    BY <1>5, <2>1, <2>3
  <2> QED
    BY <2>2, <2>3
<1>7. to = [w EXCEPT !.sect = all]
  BY DEF PutSects
<1> HIDE DEF all
<1>8. to \in Now /\ to.plane = w.plane /\ to.ship = w.ship /\ to.sect = all
  BY <1>1, <1>4, <1>7 DEF Now, Worlds
<1> HIDE DEF to
<1>9. DOMAIN w.plane = DOMAIN plane
      /\ \A p \in DOMAIN plane : w.plane[p].at \in Sectors
  BY <1>1 DEF Now, Worlds, PlaneRow
<1>10. Moored(to)
  BY <1>1, <1>3, <1>8, <1>9 DEF Moored
<1>11. /\ \A s \in DOMAIN ship : to.ship[s] \in HullRows(s)
       /\ \A p \in DOMAIN plane : to.plane[p] \in AboardRows(p)
  BY <1>8 DEF Afloat, Cruise
<1>12. to \in Cruise
  BY <1>3, <1>8, <1>10, <1>11 DEF Cruise
<1>13. Firing(w) => Firing(to)
  BY <1>5, <1>6, <1>8 DEF Firing
<1>14. DOMAIN new \cap Sectors # {} => Firing(to)
  BY <1>5, <1>6, <1>8 DEF Firing
<1>15. \A f \in Sectors : to.sect[f].items["shell"] <= sect[f].items["shell"]
  BY <1>5, <1>6, <1>8
<1>16. \A s \in DOMAIN ship : to.ship[s].effic \in {ship[s].effic, 0} \/ Firing(to)
  BY <1>8, <1>13 DEF Afloat
<1>17. to \in Afloat
  BY <1>12, <1>15, <1>16 DEF Afloat
<1> QED
  BY <1>13, <1>14, <1>17 DEF to

\* A ship on its way, and what the others have done so far.
Underway(s) == {st \in [w : Afloat, row : HullRows(s), halt : BOOLEAN, moved : BOOLEAN] :
                    st.row.effic = ship[s].effic \/ Firing(st.w)}

LEMMA InterdictKeeps ==
    ASSUME WorldInv(World), NEW s \in DOMAIN ship, NEW w \in Afloat, NEW row \in HullRows(s),
           row.effic = ship[s].effic \/ Firing(w), NEW luck \in Int
    PROVE  Interdict(w, row, luck) \in Underway(s)
<1> DEFINE forts == IF "SUBMARINE" \in ShipChr[row.type].flags THEN {} ELSE Hostiles(w, row)
           dams == [f \in forts |-> FortDamage(w.sect[f], luck)]
           dam == SumFunction(dams)
           spent == [f \in forts |-> Spent(w.sect[f])]
           hit == IF dam > 0 THEN ShipDamage(row, dam) ELSE row
<1>1. DOMAIN w.sect = Sectors /\ \A f \in Sectors : w.sect[f] \in SectRows(f) /\ w.sect[f] \in SectRow
  <2>1. \A f \in Sectors : w.sect[f] \in SectRows(f)
    BY DEF Afloat, Cruise
  <2> QED
    BY <2>1, AfloatRows
<1>2. forts \in SUBSET Sectors /\ \A f \in forts : w.sect[f].items["shell"] > 0
  BY <1>1 DEF Hostiles, FortCanFire
<1>3. Interdict(w, row, luck) = [w |-> PutSects(w, spent), row |-> hit, halt |-> dam > 0, moved |-> TRUE]
  BY DEF Interdict
<1> HIDE DEF forts
<1>4. IsFiniteSet(forts)
  BY <1>2, SectorsFinite, FS_Subset
<1>5. dams \in [forts -> Int]
  BY <1>1, <1>2, FortDamageInt
<1> HIDE DEF dams
<1>6. dam \in Int /\ (forts = {} => dam = 0)
  BY <1>4, <1>5, SumOfAll, SumEmpty
<1> HIDE DEF dam
<1>7. hit \in HullRows(s)
  BY <1>6, ShipDamageLeaves DEF HullRows
<1>8. \A f \in forts : /\ Spent(w.sect[f]) \in SectRow /\ Spent(w.sect[f]).type = w.sect[f].type
                        /\ Spent(w.sect[f]).items["shell"] < w.sect[f].items["shell"]
  <2> SUFFICES ASSUME NEW f \in forts
               PROVE  /\ Spent(w.sect[f]) \in SectRow /\ Spent(w.sect[f]).type = w.sect[f].type
                      /\ Spent(w.sect[f]).items["shell"] < w.sect[f].items["shell"]
    OBVIOUS
  <2>1. Spent(w.sect[f]) \in SectRows(f) /\ Spent(w.sect[f]).items["shell"] < w.sect[f].items["shell"]
    BY <1>1, <1>2, SpentSect
  <2> QED
    BY <2>1 DEF SectRows, Spent
<1>9. /\ PutSects(w, spent) \in Afloat
      /\ Firing(w) \/ forts # {} => Firing(PutSects(w, spent))
  BY <1>2, <1>8, PutSectsAfloat
<1> DEFINE v == PutSects(w, spent)
<1>10. hit.effic = ship[s].effic \/ Firing(v)
  BY <1>6, <1>9
<1> HIDE DEF hit, v
<1>11. [w |-> v, row |-> hit, halt |-> dam > 0, moved |-> TRUE] \in Underway(s)
  BY <1>6, <1>7, <1>9, <1>10 DEF Underway, v
<1> QED
  BY <1>3, <1>11 DEF v

LEMMA SailKeeps ==
    ASSUME WorldInv(World), NEW s \in DOMAIN ship, NEW st \in Underway(s), NEW d \in Directions,
           NEW luck \in Int
    PROVE  Sail(st, d, luck) \in Underway(s)
<1> DEFINE to == Step(st.row.at, d)
           row == [st.row EXCEPT !.mobil = @ - 1, !.at = to]
<1>1. st.w \in Afloat /\ st.row \in HullRows(s) /\ st.halt \in BOOLEAN /\ st.moved \in BOOLEAN
      /\ (st.row.effic = ship[s].effic \/ Firing(st.w))
  BY DEF Underway
<1>2. st.row \in ShipRow /\ Fits(st.row) /\ st.row.type = ship[s].type
  BY <1>1 DEF HullRows, HullRow
<1>3. to \in Sectors
  BY <1>2, StepIsSector DEF ShipRow
<1>4. [st EXCEPT !.halt = TRUE] \in Underway(s)
  BY DEF Underway
<1> HIDE DEF to
<1>5. CASE st.row.mobil > 0
  <2> DEFINE mobil == st.row.mobil - 1
             moved == [st.row EXCEPT !.mobil = mobil]
  <2>1. st.row.mobil \in -100..127
    BY <1>2 DEF ShipRow
  <2>2. mobil \in -100..127
    BY <1>5, <2>1
  <2>3. row = [moved EXCEPT !.at = to]
    BY <1>2 DEF ShipRow
  <2> HIDE DEF mobil
  <2>4. moved \in ShipRow /\ moved.type = st.row.type /\ moved.items = st.row.items
        /\ moved.effic = st.row.effic
    BY <1>2, <2>2 DEF ShipRow
  <2> HIDE DEF moved, row
  <2>5. row \in ShipRow /\ row.type = st.row.type /\ row.items = st.row.items
        /\ row.effic = st.row.effic
    BY <1>3, <2>3, <2>4 DEF ShipRow
  <2>6. row \in HullRows(s)
    BY <1>2, <2>5 DEF HullRows, HullRow, Fits
  <2>7. Interdict(st.w, row, luck) \in Underway(s)
    BY <1>1, <2>5, <2>6, InterdictKeeps
  <2> QED
    BY <1>4, <2>7 DEF Sail, row, to
<1>6. CASE ~(st.row.mobil > 0)
  <2>1. st.row.mobil <= 0
    BY <1>2, <1>6 DEF ShipRow
  <2> QED
    BY <1>4, <2>1 DEF Sail
<1> QED
  BY <1>5, <1>6

LEMMA ArriveKeeps ==
    ASSUME NEW s \in DOMAIN ship, NEW st \in Underway(s), s # None
    PROVE  Arrive(st, s) \in Afloat
<1> DEFINE row == st.row
           v == st.w
           planes == [p \in DOMAIN v.plane |->
                        IF v.plane[p].ship = s THEN [v.plane[p] EXCEPT !.at = row.at] ELSE v.plane[p]]
           ships == [v.ship EXCEPT ![s] = Sunk(row)]
           to == [[v EXCEPT !.ship = ships] EXCEPT !.plane = planes]
<1>1. v \in Afloat /\ row \in HullRows(s) /\ (row.effic = ship[s].effic \/ Firing(v))
  BY DEF Underway
<1>2. Arrive(st, s) = IF ~st.moved THEN v ELSE to
  <2>1. PutShip(v, s, row) = [v EXCEPT !.ship = ships]
    BY DEF PutShip, Sunk
  <2>2. [v EXCEPT !.ship = ships].plane = v.plane
    BY <1>1 DEF Afloat, Cruise, Now, Worlds
  <2> HIDE DEF ships, row, v
  <2> QED
    BY <2>1, <2>2 DEF Arrive, row, v
<1> HIDE DEF row, v
<1>3. row.at \in Sectors /\ row \in HullRow
  BY <1>1 DEF HullRows, HullRow, ShipRow
<1>4. Sunk(row) \in HullRows(s) /\ Sunk(row).at = row.at /\ Sunk(row).effic \in {row.effic, 0}
  BY <1>1, <1>3, SunkIsHull DEF HullRows
<1>5. /\ v \in Now /\ Moored(v)
      /\ \A t \in DOMAIN ship : v.ship[t] \in HullRows(t)
      /\ \A p \in DOMAIN plane : v.plane[p] \in AboardRows(p)
      /\ \A t \in Sectors : v.sect[t] \in SectRows(t)
      /\ DOMAIN v.ship = DOMAIN ship /\ DOMAIN v.plane = DOMAIN plane
  BY <1>1, AfloatRows DEF Afloat, Cruise
<1>6. \A t \in DOMAIN ship : ships[t] \in HullRows(t)
  BY <1>4, <1>5
<1>7. ships \in [DOMAIN ship -> ShipRow]
  <2>1. \A t \in DOMAIN ship : ships[t] \in ShipRow
    BY <1>6 DEF HullRows, HullRow
  <2> QED
    BY <1>5, <2>1
<1>8. ASSUME NEW p \in DOMAIN plane
      PROVE  /\ planes[p] \in AboardRows(p) /\ planes[p].ship = v.plane[p].ship
             /\ v.plane[p].ship = s => planes[p].at = row.at
             /\ v.plane[p].ship # s => planes[p].at = v.plane[p].at
  <2>1. v.plane[p] \in PlaneRow(DOMAIN ship) /\ v.plane[p].ship = plane[p].ship
        /\ v.plane[p].type = plane[p].type
    BY <1>5 DEF AboardRows
  <2> DEFINE moved == [v.plane[p] EXCEPT !.at = row.at]
  <2>2. moved \in PlaneRow(DOMAIN ship) /\ moved.ship = v.plane[p].ship
        /\ moved.type = v.plane[p].type /\ moved.at = row.at
    BY <1>3, <2>1 DEF PlaneRow
  <2>3. planes[p] = IF v.plane[p].ship = s THEN moved ELSE v.plane[p]
    BY <1>5
  <2> HIDE DEF moved, planes
  <2> QED
    BY <2>1, <2>2, <2>3 DEF AboardRows
<1>9. planes \in [DOMAIN plane -> PlaneRow(DOMAIN ship)]
  <2>1. \A p \in DOMAIN plane : planes[p] \in PlaneRow(DOMAIN ship)
    BY <1>8 DEF AboardRows
  <2> QED
    BY <1>5, <2>1
<1>10. \A t \in DOMAIN ship : t = s \/ ships[t] = v.ship[t]
  BY <1>5
<1>11. ships[s].at = row.at /\ ships[s].effic \in {row.effic, 0}
  BY <1>4, <1>5
<1> HIDE DEF ships, planes
<1>12. to \in Now /\ to.ship = ships /\ to.plane = planes /\ to.sect = v.sect
  BY <1>5, <1>7, <1>9 DEF Now, Worlds
<1> HIDE DEF to
<1>13. Moored(to)
  <2> SUFFICES ASSUME NEW p \in DOMAIN plane, planes[p].ship # None
               PROVE  \/ planes[p].at = ships[planes[p].ship].at
                      \/ v.sect[planes[p].at].type # "sea"
    BY <1>9, <1>12 DEF Moored
  <2>1. planes[p].ship \in DOMAIN ship
    BY <1>9 DEF PlaneRow
  <2>2. CASE v.plane[p].ship = s
    BY <1>8, <1>11, <2>2
  <2>3. CASE v.plane[p].ship # s
    <3>1. v.plane[p].at = v.ship[v.plane[p].ship].at \/ v.sect[v.plane[p].at].type # "sea"
      BY <1>5, <1>8 DEF Moored
    <3> QED
      BY <1>8, <1>10, <2>1, <2>3, <3>1
  <2> QED
    BY <2>2, <2>3
<1>14. to \in Cruise
  BY <1>5, <1>6, <1>8, <1>12, <1>13 DEF Cruise
<1>15. Firing(v) => Firing(to)
  BY <1>12 DEF Firing
<1>16. \A t \in DOMAIN ship : ships[t].effic \in {ship[t].effic, 0} \/ Firing(v)
  <2>1. \A t \in DOMAIN ship : v.ship[t].effic \in {ship[t].effic, 0} \/ Firing(v)
    BY <1>1 DEF Afloat
  <2> QED
    BY <1>1, <1>10, <1>11, <2>1
<1>17. \A f \in Sectors : v.sect[f].items["shell"] <= sect[f].items["shell"]
  BY <1>1 DEF Afloat
<1>18. to \in Afloat
  BY <1>12, <1>14, <1>15, <1>16, <1>17 DEF Afloat
<1> QED
  BY <1>1, <1>2, <1>18

LEMMA VoyageKeeps ==
    ASSUME WorldInv(World), NEW w \in Afloat, NEW s \in DOMAIN ship,
           NEW route, IsRoute(route), NEW luck \in Int
    PROVE  Voyage(w, s, route, luck) \in Afloat
<1> DEFINE V == Underway(s)
           base == [w |-> w, row |-> ship[s], halt |-> FALSE, moved |-> FALSE]
<1>1. PICK n \in Nat : route \in [1..n -> Directions]
  BY DEF IsRoute
<1>2. ship[s] \in HullRows(s)
  BY ShipIsHull DEF WorldInv, ShipRows, HitRows, HullRows
<1>3. base \in V
  BY <1>2 DEF Underway
<1>4. \A st \in V : \A d \in Directions : Sail(st, d, luck) \in V
  BY SailKeeps
<1> HIDE DEF V
<1>5. Sailed(w, s, route, luck) \in V
  BY <1>1, <1>3, <1>4, SailedIn
<1> DEFINE st == Sailed(w, s, route, luck)
<1>6. st \in Underway(s)
  BY <1>5 DEF V
<1>7. Voyage(w, s, route, luck) = Arrive(st, s)
  BY DEF Voyage
<1> HIDE DEF st
<1>8. s # None
  BY DEF WorldInv, Tables, World, None
<1> QED
  BY <1>6, <1>7, <1>8, ArriveKeeps

LEMMA SailingFinite ==
    ASSUME Tables(World), NEW me, NEW spec, spec \subseteq DOMAIN ship
    PROVE  /\ IsFiniteSet(Sailing(me, spec)) /\ Sailing(me, spec) \subseteq Int
           /\ Sailing(me, spec) \subseteq DOMAIN ship
<1>1. Sailing(me, spec) \in SUBSET DOMAIN ship
  BY DEF Sailing, Matching
<1> QED
  BY <1>1, TypedRows, FS_Subset

LEMMA NavigateSound ==
    ASSUME WorldInv(World), NEW me \in Nations, NEW spec, spec \subseteq DOMAIN ship,
           NEW route \in Ways, NEW luck \in Int, Navigate(me, spec, route, luck)
    PROVE  Soundly
<1> DEFINE ships == Sailing(me, spec)
           w == Voyages(ships, route, luck)
<1>1. Done(w, FALSE)
  BY DEF Navigate
<1>2. Tables(World) /\ HoldsFit(World)
  BY DEF WorldInv
<1>3. IsFiniteSet(ships) /\ ships \subseteq Int /\ ships \subseteq DOMAIN ship
  BY <1>2, SailingFinite
<1> HIDE DEF ships
<1>4. IsRoute(route)
  BY WaysAreRoutes
<1>5. \A v \in Afloat : \A s \in ships : Voyage(v, s, route, luck) \in Afloat
  BY <1>3, <1>4, VoyageKeeps
<1>6. w \in Afloat
  BY <1>3, <1>5, WorldIsAfloat, VoyagesIn
<1> HIDE DEF w
<1>7. WorldInv(w) /\ Fair(w)
  BY <1>6, AfloatKeeps
<1> QED
  BY <1>1, <1>7 DEF Soundly

LEMMA NavigateToSound ==
    ASSUME WorldInv(World), NEW me \in Nations, NEW s \in DOMAIN ship,
           NEW to \in Sectors, NEW luck \in Int, NavigateTo(me, s, to, luck)
    PROVE  Soundly
<1>1. PICK route \in FindPath(ship[s].at, to, {at \in Sectors : Navigable(at)}, MaxRoute) :
          Done(Voyage(World, s, route, luck), FALSE)
  BY DEF NavigateTo
<1>2. MaxRoute \in Nat
  BY WarAssumption
<1>3. IsRoute(route)
  BY <1>2, FoundRoutes
<1> DEFINE w == Voyage(World, s, route, luck)
<1>4. w \in Afloat
  BY <1>3, WorldIsAfloat, VoyageKeeps
<1>5. Done(w, FALSE)
  BY <1>1
<1> HIDE DEF w
<1>6. WorldInv(w) /\ Fair(w)
  BY <1>4, AfloatKeeps
<1> QED
  BY <1>5, <1>6 DEF Soundly

-----------------------------------------------------------------------------
(* Paths of move; assault of what nobody defends. *)

LEMMA RouteQuiet ==
    ASSUME Tables(World), HoldsFit(World), NEW me \in Nations, NEW from \in Sectors, NEW owners,
           NEW route, IsRoute(route), NEW i \in Items, NEW amount \in Int,
           Transport(me, from, i, amount, route, owners)
    PROVE  Quietly
<1>1. PICK n \in Nat : route \in [1..n -> Directions]
  BY DEF IsRoute
<1> QED
  BY <1>1, TransportQuiet

LEMMA MoveQuiet ==
    ASSUME Tables(World), HoldsFit(World), NEW me \in Nations, NEW from \in Sectors,
           NEW way \in Ways, NEW i \in Items, NEW amount \in Int,
           Move(me, from, i, amount, way) \/ Explore(me, from, i, amount, way)
    PROVE  Quietly
<1>1. IsRoute(way)
  BY WaysAreRoutes
<1>2. \E owners : Transport(me, from, i, amount, way, owners)
  BY DEF Move, Explore
<1> QED
  BY <1>1, <1>2, RouteQuiet

LEMMA MoveToQuiet ==
    ASSUME Tables(World), HoldsFit(World), NEW me \in Nations, NEW from \in Sectors,
           NEW to \in Sectors, NEW i \in Items, NEW amount \in Int,
           MoveTo(me, from, i, amount, to)
    PROVE  Quietly
<1>1. PICK route \in FindPath(from, to, {s \in Sectors : /\ sect[s].own = me
                                                         /\ sect[s].type \notin {"sea", "mountain"}},
                              MaxMove) : Move(me, from, i, amount, route)
  BY DEF MoveTo
<1>2. MaxMove \in Nat
  BY WarAssumption
<1>3. IsRoute(route)
  BY <1>2, FoundRoutes
<1> QED
  BY <1>1, <1>3, RouteQuiet DEF Move

(* ---- assault --------------------------------------------------------- *)

\* A ship that gives from its hold.
LEMMA LighterHull ==
    ASSUME Tables(World), HoldsFit(World), NEW s \in DOMAIN ship, NEW items \in Stock,
           \A i \in Items : items[i] <= ship[s].items[i]
    PROVE  Laded(ship[s], items) \in ShipRows(s)
<1>1. ship[s] \in HullRow
  BY ShipIsHull
<1>2. \A i \in Items : items[i] <= ShipChr[ship[s].type].cap[i]
  <2> SUFFICES ASSUME NEW i \in Items PROVE items[i] <= ShipChr[ship[s].type].cap[i]
    OBVIOUS
  <2>1. /\ ship[s].items[i] \in Nat /\ ShipChr[ship[s].type].cap[i] \in Nat
        /\ ship[s].items[i] <= ShipChr[ship[s].type].cap[i]
    BY <1>1, HullFits
  <2>2. items[i] \in Nat /\ items[i] <= ship[s].items[i]
    BY DEF Stock
  <2> QED
    BY <2>1, <2>2
<1>3. /\ Laded(ship[s], items) \in HullRow
      /\ Laded(ship[s], items).at = ship[s].at /\ Laded(ship[s], items).type = ship[s].type
      /\ Laded(ship[s], items).effic = ship[s].effic
  BY <1>1, <1>2, LadedHull
<1> HIDE DEF Laded
<1> QED
  BY <1>3 DEF ShipRows, HitRows

\* What is moved ashore: soldiers and civilians.
LEMMA ShiftBoth ==
    ASSUME NEW items \in Stock, NEW m \in Int, NEW c \in Int,
           items["mil"] + m >= 0, items["civ"] + c >= 0
    PROVE  /\ Shift(Shift(items, "mil", m), "civ", c) \in Stock
           /\ Shift(Shift(items, "mil", m), "civ", c)["mil"] = items["mil"] + m
           /\ Shift(Shift(items, "mil", m), "civ", c)["civ"] = items["civ"] + c
           /\ \A i \in Items \ {"mil", "civ"} :
                 Shift(Shift(items, "mil", m), "civ", c)[i] = items[i]
<1>1. "mil" \in Items /\ "civ" \in Items /\ "mil" # "civ"
  BY ForcesAssumption DEF Special
<1> DEFINE one == Shift(items, "mil", m)
<1>2. one \in Stock /\ one["mil"] = items["mil"] + m
      /\ \A j \in Items \ {"mil"} : one[j] = items[j]
  BY <1>1, ShiftStock
<1> HIDE DEF one
<1>3. one["civ"] = items["civ"]
  BY <1>1, <1>2
<1>4. one["civ"] + c >= 0
  BY <1>3
<1> DEFINE two == Shift(one, "civ", c)
<1>5. two \in Stock /\ two["civ"] = one["civ"] + c /\ \A j \in Items \ {"civ"} : two[j] = one[j]
  BY <1>1, <1>2, <1>4, ShiftStock
<1> HIDE DEF two
<1>6. two["mil"] = items["mil"] + m /\ two["civ"] = items["civ"] + c
      /\ \A j \in Items \ {"mil", "civ"} : two[j] = items[j]
  BY <1>1, <1>2, <1>3, <1>5
<1> QED
  BY <1>5, <1>6 DEF one, two

LEMMA GoAshoreQuiet ==
    ASSUME Tables(World), HoldsFit(World), NEW me \in Nations, NEW s \in DOMAIN ship,
           NEW at \in Sectors, NEW troops \in Int
    PROVE  GoAshore(me, s, at, troops) \in Quiet
<1> DEFINE hold == ship[s].items
           row == sect[at]
           mil == Most(Least(troops, hold["mil"]), 0)
           civ == hold["civ"]
           left == Shift(Shift(hold, "mil", (-1) * mil), "civ", (-1) * civ)
           here == Shift(Shift(row.items, "mil", 1 * mil), "civ", 1 * civ)
           old == IF row.own = 0 THEN me ELSE row.old_own
           effic == IF row.own = 0 THEN Most(row.effic, 1) ELSE row.effic
           claimed == [row EXCEPT !.items = here, !.own = me, !.old_own = old, !.effic = effic]
<1>0. GoAshore(me, s, at, troops) = PutSect(PutShip(World, s, Laded(ship[s], left)), at, claimed)
  BY DEF GoAshore, Laded
<1>1. row \in SectRows(at) /\ row \in SectRow
  BY ThisSect
<1>2. hold \in Stock
  BY TypedRows DEF ShipRow
<1>3. "mil" \in Items /\ "civ" \in Items
  BY ForcesAssumption DEF Special
<1>4. row.items \in Stock /\ row.own \in Nations /\ row.old_own \in Nations /\ row.effic \in 0..100
  BY <1>1 DEF SectRow
<1>5. hold["mil"] \in Nat /\ hold["civ"] \in Nat /\ row.items["mil"] \in Nat /\ row.items["civ"] \in Nat
  BY <1>2, <1>3, <1>4 DEF Stock
<1>6. mil \in Nat /\ mil <= hold["mil"] /\ civ \in Nat
  BY <1>5 DEF Most, Least
<1> HIDE DEF mil
<1>7. left \in Stock /\ \A i \in Items : left[i] <= hold[i]
  <2> DEFINE m == (-1) * mil
             c == (-1) * civ
  <2>1. m \in Int /\ c \in Int /\ hold["mil"] + m >= 0 /\ hold["civ"] + c >= 0 /\ m <= 0 /\ c <= 0
    BY <1>5, <1>6
  <2> HIDE DEF m, c, hold
  <2> DEFINE both == Shift(Shift(hold, "mil", m), "civ", c)
  <2>2. /\ both \in Stock /\ both["mil"] = hold["mil"] + m /\ both["civ"] = hold["civ"] + c
        /\ \A i \in Items \ {"mil", "civ"} : both[i] = hold[i]
    BY <1>2, <2>1, ShiftBoth
  <2> HIDE DEF both
  <2>3. ASSUME NEW i \in Items PROVE both[i] <= hold[i]
    <3>1. hold[i] \in Nat
      BY <1>2 DEF Stock
    <3>2. CASE i = "mil"
      BY <1>5, <2>1, <2>2, <3>2
    <3>3. CASE i = "civ"
      BY <1>5, <2>1, <2>2, <3>3
    <3>4. CASE i \notin {"mil", "civ"}
      BY <2>2, <3>1, <3>4
    <3> QED
      BY <3>2, <3>3, <3>4
  <2>4. left = both
    BY DEF both, m, c, hold
  <2> HIDE DEF left
  <2> QED
    BY <2>2, <2>3, <2>4
<1>8. here \in Stock
  <2> DEFINE m == 1 * mil
             c == 1 * civ
             items == row.items
  <2>1. m \in Int /\ c \in Int /\ items["mil"] + m >= 0 /\ items["civ"] + c >= 0
    BY <1>5, <1>6
  <2>2. items \in Stock
    BY <1>4
  <2> HIDE DEF m, c, items
  <2>3. Shift(Shift(items, "mil", m), "civ", c) \in Stock
    BY <2>1, <2>2, ShiftBoth
  <2> QED
    BY <2>3 DEF m, c, items
<1> HIDE DEF left, here
<1>9. Laded(ship[s], left) \in ShipRows(s)
  BY <1>7, LighterHull
<1>10. old \in Nations /\ effic \in 0..100
  BY <1>4 DEF Most
<1> HIDE DEF old, effic, row
<1>11. claimed \in SectRows(at)
  <2> DEFINE one == [row EXCEPT !.items = here]
             two == Owned(one, me, old)
             three == [two EXCEPT !.effic = effic]
  <2>1. one \in SectRow /\ one.type = row.type
    BY <1>1, <1>8, SectItems
  <2>2. claimed = three
    BY <1>1 DEF Owned, SectRow
  <2> HIDE DEF one, claimed
  <2>3. two \in SectRow /\ two.type = row.type
    BY <1>10, <2>1, SectOwned
  <2> HIDE DEF two
  <2>4. three \in SectRow /\ three.type = row.type
    BY <1>10, <2>3 DEF SectRow
  <2> HIDE DEF three
  <2> QED
    BY <1>1, <2>2, <2>4 DEF SectRows
<1> HIDE DEF claimed
<1>12. PutShip(World, s, Laded(ship[s], left)) \in Quiet
  BY <1>9, WorldIsQuiet, PutShipQuiet
<1> QED
  BY <1>0, <1>11, <1>12, PutSectQuiet

-----------------------------------------------------------------------------
(* assault. *)

LEMMA HoldStrNat ==
    ASSUME Tables(World), NEW at \in Sectors
    PROVE  HoldStr(at) \in Nat
<1> DEFINE row == sect[at]
<1>1. row.items["mil"] \in Nat /\ row.items["civ"] \in Nat /\ row.effic \in Nat
  <2>1. "mil" \in Items /\ "civ" \in Items
    BY ForcesAssumption DEF Special
  <2>2. row \in SectRow
    BY ThisSect
  <2> QED
    BY <2>1, <2>2 DEF SectRow, Stock
<1>2. HoldStr(at) = (row.items["mil"] * 100) + (row.items["civ"] * 10) + (row.effic * 50)
  BY DEF HoldStr
<1> HIDE DEF row
<1> QED
  BY <1>1, <1>2

LEMMA AboardQuiet ==
    ASSUME Tables(World), HoldsFit(World), NEW s \in DOMAIN ship, NEW n \in Nat,
           n <= ship[s].items["mil"]
    PROVE  PutShip(World, s, Laded(ship[s], Shift(ship[s].items, "mil", -n))) \in Quiet
<1> DEFINE hold == ship[s].items
           left == Shift(hold, "mil", -n)
<1>1. hold \in Stock
  BY TypedRows DEF ShipRow
<1>2. "mil" \in Items
  BY ForcesAssumption DEF Special
<1>3. hold["mil"] \in Nat /\ hold["mil"] + (-n) >= 0 /\ -n \in Int
  BY <1>1, <1>2 DEF Stock
<1>4. /\ left \in Stock /\ left["mil"] = hold["mil"] + (-n)
      /\ \A j \in Items \ {"mil"} : left[j] = hold[j]
  BY <1>1, <1>2, <1>3, ShiftStock
<1> HIDE DEF left
<1>5. \A i \in Items : left[i] <= hold[i]
  <2> SUFFICES ASSUME NEW i \in Items PROVE left[i] <= hold[i]
    OBVIOUS
  <2>1. hold[i] \in Nat
    BY <1>1 DEF Stock
  <2>2. CASE i = "mil"
    BY <1>3, <1>4, <2>2
  <2>3. CASE i # "mil"
    BY <1>4, <2>1, <2>3
  <2> QED
    BY <2>2, <2>3
<1>6. Laded(ship[s], left) \in ShipRows(s)
  BY <1>4, <1>5, LighterHull
<1>7. PutShip(World, s, Laded(ship[s], left)) \in Quiet
  BY <1>6, WorldIsQuiet, PutShipQuiet
<1> QED
  BY <1>7 DEF left

LEMMA StormedQuiet ==
    ASSUME Tables(World), HoldsFit(World), NEW me \in Nations, NEW s \in DOMAIN ship,
           NEW at \in Sectors, NEW troops \in Nat \ {0}, troops <= ship[s].items["mil"]
    PROVE  Stormed(me, s, at, troops) \in Quiet
<1> DEFINE row == sect[at]
           here == row.items["mil"]
           hold == HoldStr(at)
           hurt == (StormStr(s, troops) * 8) \div 1000
           defLost == Least(here, hurt)
           survivors == Most(troops - (hold \div 200), 1)
           off == troops - survivors
           dead == (troops * 8) \div 10
           aboard(n) == Laded(ship[s], Shift(ship[s].items, "mil", -n))
           n == survivors - defLost
           taken == [row EXCEPT !.items = Shift(@, "mil", n), !.own = me, !.old_own = 0, !.loyal = 0]
<1>0. Stormed(me, s, at, troops) =
        IF StormStr(s, troops) > HoldStr(at)
        THEN PutSect(PutShip(World, s, aboard(off)), at, taken)
        ELSE PutShip(World, s, aboard(dead))
  BY DEF Stormed, Laded
<1>1. row \in SectRows(at) /\ row \in SectRow
  BY ThisSect
<1>2. "mil" \in Items
  BY ForcesAssumption DEF Special
<1>3. row.items \in Stock /\ here \in Nat
  BY <1>1, <1>2 DEF SectRow, Stock
<1>4. hold \in Nat
  BY HoldStrNat
<1> HIDE DEF hold
<1>5. hurt \in Nat
  <2> DEFINE e == ship[s].effic
             p == StormStr(s, troops)
             m == 1000
  <2>1. e \in Nat
    BY TypedRows DEF ShipRow
  <2>2. p = troops * e
    BY DEF StormStr
  <2> HIDE DEF e, p
  <2>3. p \in Nat
    BY <2>1, <2>2
  <2>4. p * 8 \in Nat
    BY <2>3
  <2>5. m \in Nat \ {0}
    BY SMT
  <2> DEFINE q == p * 8
  <2> HIDE DEF m, q
  <2>6. q \div m \in Nat
    BY <2>4, <2>5, DivNat DEF q
  <2> QED
    BY <2>6 DEF p, q, m
<1> HIDE DEF hurt
<1>6. survivors \in 1..troops
  <2>1. hold \div 200 \in Nat
    BY <1>4
  <2> DEFINE q == hold \div 200
  <2> HIDE DEF q
  <2> QED
    BY <2>1 DEF q, Most
<1> HIDE DEF survivors, here
<1>7. off \in Nat /\ off <= ship[s].items["mil"]
  <2>1. ship[s].items["mil"] \in Nat
    BY <1>2, TypedRows DEF ShipRow, Stock
  <2> QED
    BY <1>6, <2>1
<1>8. dead \in Nat /\ dead <= ship[s].items["mil"]
  <2>1. ship[s].items["mil"] \in Nat
    BY <1>2, TypedRows DEF ShipRow, Stock
  <2>2. dead \in Nat /\ dead <= troops
    OBVIOUS
  <2> QED
    BY <2>1, <2>2
<1>9. n \in Int /\ here + n >= 0
  BY <1>3, <1>5, <1>6 DEF Least
<1> HIDE DEF off, dead, n
<1> DEFINE items == Shift(row.items, "mil", n)
<1>10. items \in Stock
  BY <1>2, <1>3, <1>9, ShiftStock DEF here
<1>11. taken \in SectRows(at)
  <2> DEFINE one == [row EXCEPT !.items = items]
             two == Owned(one, me, 0)
             three == [two EXCEPT !.loyal = 0]
  <2>1. taken = three
    BY <1>1 DEF Owned, SectRow
  <2> HIDE DEF items, row, taken
  <2>2. one \in SectRow /\ one.type = row.type
    BY <1>1, <1>10, SectItems
  <2> HIDE DEF one
  <2>3. 0 \in Nations
    BY ForcesAssumption
  <2>4. two \in SectRow /\ two.type = row.type
    BY <2>2, <2>3, SectOwned
  <2> HIDE DEF two
  <2>5. three \in SectRow /\ three.type = row.type
    BY <2>4 DEF SectRow
  <2> HIDE DEF three
  <2> QED
    BY <1>1, <2>1, <2>5 DEF SectRows
<1>12. PutShip(World, s, aboard(off)) \in Quiet /\ PutShip(World, s, aboard(dead)) \in Quiet
  BY <1>7, <1>8, AboardQuiet
<1> HIDE DEF aboard, taken
<1>13. PutSect(PutShip(World, s, aboard(off)), at, taken) \in Quiet
  BY <1>11, <1>12, PutSectQuiet
<1> QED
  BY <1>0, <1>12, <1>13

LEMMA AssaultQuiet ==
    ASSUME Tables(World), HoldsFit(World), NEW me \in Nations, NEW at \in Sectors,
           NEW spec, spec \subseteq DOMAIN ship, NEW asked \in Int, Assault(me, at, spec, asked)
    PROVE  Quietly
<1> DEFINE s == Min(Lander(me, at, spec))
           aboard == ship[s].items["mil"]
           most == IF "LAND" \in ShipChr[ship[s].type].flags THEN aboard ELSE aboard \div 4
           peaceful == sect[at].own \in {0, me}
           w == IF peaceful THEN GoAshore(me, s, at, asked)
                ELSE Stormed(me, s, at, Least(asked, most))
           again == ~peaceful /\ StormStr(s, Least(asked, most)) > HoldStr(at)
<1>1. Lander(me, at, spec) # {} /\ (~peaceful => Least(asked, most) > 0) /\ Done(w, again)
  BY DEF Assault
<1>2. s \in DOMAIN ship
  <2> DEFINE L == Lander(me, at, spec)
  <2>1. L \in SUBSET DOMAIN ship /\ L # {}
    BY <1>1 DEF Lander
  <2> HIDE DEF L
  <2>2. IsFiniteSet(L) /\ L \subseteq Int
    BY <2>1, TypedRows, FS_Subset
  <2> QED
    BY <2>1, <2>2, LeastOfFinite DEF L
<1> HIDE DEF s
<1>3. aboard \in Nat
  <2>1. "mil" \in Items
    BY ForcesAssumption DEF Special
  <2> QED
    BY <1>2, <2>1, TypedRows DEF ShipRow, Stock
<1>4. most \in Nat /\ most <= aboard
  BY <1>3
<1> DEFINE troops == Least(asked, most)
<1>5. troops \in Int /\ troops <= aboard
  BY <1>3, <1>4 DEF Least
<1> HIDE DEF most, aboard, troops
<1>6. w \in Quiet
  <2>1. CASE peaceful
    BY <1>2, <2>1, GoAshoreQuiet
  <2>2. CASE ~peaceful
    <3>1. troops > 0
      BY <1>1, <2>2 DEF troops
    <3>2. troops \in Nat \ {0} /\ troops <= ship[s].items["mil"]
      BY <1>5, <3>1 DEF aboard
    <3>3. Stormed(me, s, at, troops) \in Quiet
      BY <1>2, <3>2, StormedQuiet
    <3> QED
      BY <2>2, <3>3 DEF troops
  <2> QED
    BY <2>1, <2>2
<1>7. again \in BOOLEAN
  OBVIOUS
<1> HIDE DEF w, again
<1> QED
  BY <1>1, <1>6, <1>7 DEF Quietly

-----------------------------------------------------------------------------
(* build: yards and numbers. *)

\* A finite set of numbers has a greatest one.
LEMMA GreatestOfFinite ==
    ASSUME NEW S, IsFiniteSet(S), S \subseteq Int, S # {}
    PROVE  Max(S) \in S /\ \A y \in S : Max(S) >= y
<1> DEFINE T == {-x : x \in S}
           f == [x \in S |-> -x]
<1>1. f \in Surjection(S, T)
  BY DEF Surjection
<1>2. IsFiniteSet(T)
  <2> HIDE DEF f, T
  <2> QED
    BY <1>1, FS_Surjection
<1>3. T \subseteq Int /\ T # {}
  OBVIOUS
<1>4. Min(T) \in T /\ \A y \in T : Min(T) <= y
  <2> HIDE DEF T
  <2> QED
    BY <1>2, <1>3, LeastOfFinite
<1> DEFINE m == Min(T)
<1>5. m \in T /\ \A y \in T : m <= y
  BY <1>4
<1> HIDE DEF m
<1>6. PICK x \in S : m = -x
  BY <1>5
<1>7. ASSUME NEW y \in S PROVE x >= y
  <2>1. -y \in T
    OBVIOUS
  <2>2. -x <= -y /\ x \in Int /\ y \in Int
    BY <1>5, <1>6, <2>1
  <2> QED
    BY <2>2
<1> QED
  BY <1>7 DEF Max

\* The table has one row more.
LEMMA AddedRows ==
    ASSUME NEW row, IsFiniteSet(DOMAIN row), DOMAIN row \subseteq Nat, NEW new
    PROVE  /\ Next1(row) \in Nat /\ Next1(row) \notin DOMAIN row
           /\ DOMAIN Added(row, new) = DOMAIN row \cup {Next1(row)}
           /\ Added(row, new) = [u \in DOMAIN row \cup {Next1(row)} |-> Added(row, new)[u]]
           /\ \A u \in DOMAIN row : Added(row, new)[u] = row[u]
           /\ Added(row, new)[Next1(row)] = new
           /\ IsFiniteSet(DOMAIN row \cup {Next1(row)})
<1> DEFINE D == DOMAIN row
           S == D \cup {-1}
           m == Max(S)
<1>1. IsFiniteSet(S) /\ S \subseteq Int /\ S # {}
  <2>1. IsFiniteSet(S)
    <3> HIDE DEF D
    <3> QED
      BY FS_AddElement DEF D
  <2> QED
    BY <2>1
<1>2. m \in S /\ \A y \in S : m >= y
  <2> HIDE DEF S
  <2> QED
    BY <1>1, GreatestOfFinite
<1>3. Next1(row) = 1 + m
  BY DEF Next1
<1> HIDE DEF m
<1>4. m \in Int /\ m >= -1 /\ \A y \in D : m >= y
  BY <1>2
<1> DEFINE n == Next1(row)
<1>5. n \in Nat /\ n \notin D
  BY <1>3, <1>4
<1> HIDE DEF n
<1>6. Added(row, new) = [u \in D \cup {n} |-> IF u \in D THEN row[u] ELSE new]
  BY DEF Added, n
<1>7. IsFiniteSet(D \cup {n})
  BY FS_AddElement
<1> HIDE DEF D
<1> DEFINE a == Added(row, new)
<1>8. DOMAIN a = D \cup {n} /\ a = [u \in D \cup {n} |-> a[u]]
      /\ (\A u \in D : a[u] = row[u]) /\ a[n] = new
  BY <1>5, <1>6
<1> HIDE DEF a
<1> QED
  BY <1>5, <1>7, <1>8 DEF D, n, a

LEMMA YardFirst ==
    ASSUME NEW me \in Nations, NEW spec, spec \subseteq Sectors, NEW chr, NEW effic, NEW types,
           Yards(me, spec, chr, effic, types) # <<>>
    PROVE  /\ Head(Yards(me, spec, chr, effic, types)) \in Sectors
           /\ Yard(me, Head(Yards(me, spec, chr, effic, types)), chr, effic, types)
<1> DEFINE S == {s \in Own(me, spec) : Yard(me, s, chr, effic, types)}
           n == Cardinality(S)
           yards == InRows(S)
<1>1. S \in SUBSET Sectors /\ \A s \in S : Yard(me, s, chr, effic, types)
  BY DEF Own
<1>2. Yards(me, spec, chr, effic, types) = yards
  BY DEF Yards
<1> HIDE DEF S
<1>3. n \in Nat /\ yards \in [1..n -> S]
  BY <1>1, SectorsFinite, FS_Subset, InRowsEach
<1> HIDE DEF n, yards
<1>4. yards \in Seq(S) /\ Len(yards) = n
  BY <1>3
<1>5. Head(yards) \in S
  BY <1>2, <1>4
<1> QED
  BY <1>1, <1>2, <1>5

LEMMA NeededNat ==
    ASSUME NEW n \in Nat, NEW effic \in Nat
    PROVE  Needed(n, effic) \in Nat
<1> DEFINE p == n * effic
<1>1. p \in Nat
  OBVIOUS
<1> HIDE DEF p
<1>2. ((p + 99) \div 100) \in Nat
  BY <1>1
<1> QED
  BY <1>2 DEF Needed, p

LEMMA PaidSect ==
    ASSUME Tables(World), NEW me \in Nations, NEW at \in Sectors, NEW effic \in Nat,
           NEW chr, chr.bwork \in Nat, chr.lcm \in Nat, chr.hcm \in Nat, NEW types,
           Yard(me, at, chr, effic, types)
    PROVE  Paid(me, sect[at], chr, effic) \in SectRows(at)
<1> DEFINE row == sect[at]
           work == Needed(chr.bwork, effic)
           lcm == Needed(chr.lcm, effic)
           hcm == Needed(chr.hcm, effic)
           avail == row.avail - work
           items == Shift(Shift(row.items, "lcm", -lcm), "hcm", -hcm)
           one == [row EXCEPT !.items = items]
           two == [one EXCEPT !.avail = avail]
<1>1. row \in SectRows(at) /\ row \in SectRow
  BY ThisSect
<1>2. CASE IsDeity(me)
  BY <1>1, <1>2 DEF Paid
<1>3. CASE ~IsDeity(me)
  <2>1. row.avail >= work /\ row.items["lcm"] >= lcm /\ row.items["hcm"] >= hcm
    BY <1>3 DEF Yard
  <2>2. work \in Nat /\ lcm \in Nat /\ hcm \in Nat
    BY NeededNat
  <2> HIDE DEF work, lcm, hcm
  <2>3. "lcm" \in Items /\ "hcm" \in Items /\ "lcm" # "hcm"
    BY ForcesAssumption DEF Special
  <2>4. row.avail \in Nat /\ row.items \in Stock
        /\ row.items["lcm"] \in Nat /\ row.items["hcm"] \in Nat
    BY <1>1, <2>3 DEF SectRow, Stock
  <2> DEFINE a == -lcm
             b == -hcm
             first == Shift(row.items, "lcm", a)
             second == Shift(first, "hcm", b)
  <2>5. a \in Int /\ b \in Int /\ row.items["lcm"] + a >= 0 /\ row.items["hcm"] + b >= 0
    BY <2>1, <2>2, <2>4
  <2> HIDE DEF a, b
  <2>6. first \in Stock /\ \A j \in Items \ {"lcm"} : first[j] = row.items[j]
    BY <2>3, <2>4, <2>5, ShiftStock
  <2> HIDE DEF first
  <2>7. first["hcm"] + b >= 0
    BY <2>3, <2>5, <2>6
  <2>8. second \in Stock
    BY <2>3, <2>5, <2>6, <2>7, ShiftStock
  <2>9. items \in Stock
    BY <2>8 DEF first, a, b
  <2>10. avail \in Nat
    BY <2>1, <2>2, <2>4
  <2>11. Paid(me, row, chr, effic) = two
    <3>1. Paid(me, row, chr, effic) = [row EXCEPT !.avail = avail, !.items = items]
      BY <1>3 DEF Paid, work, lcm, hcm
    <3> HIDE DEF avail, items, row
    <3> QED
      BY <1>1, <3>1 DEF SectRow
  <2> HIDE DEF avail, items, row, two
  <2>12. one \in SectRow /\ one.type = row.type
    BY <1>1, <2>9, SectItems
  <2> HIDE DEF one
  <2>13. two \in SectRow /\ two.type = row.type
    BY <2>10, <2>12 DEF SectRow, two
  <2>14. two \in SectRows(at)
    BY <1>1, <2>13 DEF SectRows
  <2> QED
    BY <2>11, <2>14 DEF row
<1> QED
  BY <1>2, <1>3

-----------------------------------------------------------------------------
(* build: the new unit. *)

\* The rows with a unit more.
WithNewShip(w, new) == [w EXCEPT !.ship = Added(@, new)]
WithNewPlane(w, new) == [w EXCEPT !.plane = Added(@, new)]
WithNewLand(w, new) == [w EXCEPT !.land = Added(@, new)]

\* A ship without planes has berths for all.
LEMMA EmptyHoused ==
    ASSUME NEW w, NEW s, PlanesOn(w, s) = {}, w.ship[s].type \in DOMAIN ShipChr
    PROVE  Housed(w, s)
<1> DEFINE chr == ShipChr[w.ship[s].type]
           room == Berth(chr)
           none == [p \in {} |-> "deck"]
<1>1. chr.nplanes \in Nat /\ chr.nchoppers \in Nat /\ chr.nxlight \in Nat
  BY TablesAssumption
<1>2. \A b \in DOMAIN room : room[b] \in Nat
  <2> HIDE DEF chr
  <2> QED
    BY <1>1 DEF Berth
<1> HIDE DEF room
<1>3. none \in [PlanesOn(w, s) -> {"chopper", "xlight", "deck"}] /\ DOMAIN none = {}
  OBVIOUS
<1> HIDE DEF none
<1>4. \A b \in DOMAIN room : Cardinality({p \in DOMAIN none : none[p] = b}) <= room[b]
  <2> SUFFICES ASSUME NEW b \in DOMAIN room
               PROVE  Cardinality({p \in DOMAIN none : none[p] = b}) <= room[b]
    OBVIOUS
  <2>1. {p \in DOMAIN none : none[p] = b} = {}
    BY <1>3
  <2>2. Cardinality({}) = 0
    BY FS_EmptySet
  <2> QED
    BY <1>2, <2>1, <2>2
<1>5. \A p \in DOMAIN none : MayLie(chr.flags, Bucket(w, p), none[p])
  BY <1>3
<1> HIDE DEF chr
<1>6. \E b_ \in [PlanesOn(w, s) -> {"chopper", "xlight", "deck"}] :
            /\ \A p \in DOMAIN b_ : MayLie(chr.flags, Bucket(w, p), b_[p])
            /\ \A b \in DOMAIN room : Cardinality({p \in DOMAIN b_ : b_[p] = b}) <= room[b]
  BY <1>3, <1>4, <1>5
<1> QED
  BY <1>6 DEF Housed, chr, room

LEMMA NewShipKeeps ==
    ASSUME WorldInv(World), NEW v \in Quiet, NEW new \in HullRow
    PROVE  WorldInv(WithNewShip(v, new)) /\ Fair(WithNewShip(v, new))
<1> DEFINE n == Next1(v.ship)
           ships == Added(v.ship, new)
           D == DOMAIN ship
           E == D \cup {n}
           w == [v EXCEPT !.ship = ships]
<1>1. WorldInv(v) /\ Tables(World)
  BY FoughtKeeps, QuietIsFought DEF WorldInv
<1>2. /\ v \in Now /\ DOMAIN v.ship = D /\ DOMAIN v.plane = DOMAIN plane /\ DOMAIN v.land = DOMAIN land
      /\ \A s \in D : v.ship[s] \in ShipRow /\ Fits(v.ship[s])
      /\ \A p \in DOMAIN plane : v.plane[p] \in PlaneRow(D)
      /\ \A u \in DOMAIN land : v.land[u] \in LandRow(D)
  BY FoughtRows, QuietIsFought
<1>3. IsFiniteSet(D) /\ D \subseteq Nat
  BY <1>1 DEF Tables, World
<1>4. /\ n \in Nat /\ n \notin D /\ DOMAIN ships = E /\ IsFiniteSet(E)
      /\ ships = [u \in E |-> ships[u]]
      /\ (\A s \in D : ships[s] = v.ship[s]) /\ ships[n] = new
  BY <1>2, <1>3, AddedRows
<1>5. new \in ShipRow /\ Fits(new)
  BY DEF HullRow
<1>6. WithNewShip(v, new) = w
  BY <1>2 DEF WithNewShip, Now, Worlds
<1> HIDE DEF n, ships
<1>7. ships \in [E -> ShipRow]
  <2>1. \A s \in E : ships[s] \in ShipRow
    BY <1>2, <1>4, <1>5
  <2> QED
    BY <1>4, <2>1
<1>8. PlaneRow(D) \subseteq PlaneRow(E) /\ LandRow(D) \subseteq LandRow(E)
  BY DEF PlaneRow, LandRow
<1>9. v.plane \in [DOMAIN plane -> PlaneRow(E)] /\ v.land \in [DOMAIN land -> LandRow(E)]
  <2>1. v.plane \in [DOMAIN plane -> PlaneRow(D)] /\ v.land \in [DOMAIN land -> LandRow(D)]
    BY <1>2 DEF Now, Worlds
  <2> QED
    BY <1>8, <2>1
<1>10. /\ w \in Worlds(E, DOMAIN plane, DOMAIN land)
       /\ w.ship = ships /\ w.plane = v.plane /\ w.land = v.land /\ w.sect = v.sect
  BY <1>2, <1>7, <1>9 DEF Now, Worlds
<1> HIDE DEF w
<1>11. DOMAIN w.ship = E /\ DOMAIN w.plane = DOMAIN plane /\ DOMAIN w.land = DOMAIN land
  BY <1>4, <1>9, <1>10
<1>12. Tables(w)
  <2>1. E \subseteq Nat
    BY <1>3, <1>4
  <2>2. /\ IsFiniteSet(DOMAIN plane) /\ DOMAIN plane \subseteq Nat
        /\ IsFiniteSet(DOMAIN land) /\ DOMAIN land \subseteq Nat
    BY <1>1 DEF Tables, World
  <2> QED
    BY <1>4, <1>10, <1>11, <2>1, <2>2 DEF Tables
<1>13. HoldsFit(w)
  <2>1. \A s \in E : Fits(ships[s])
    BY <1>2, <1>4, <1>5
  <2> QED
    BY <1>10, <1>11, <2>1 DEF HoldsFit, Fits
<1>14. Moored(w)
  <2>1. Moored(v)
    BY <1>1 DEF WorldInv
  <2>2. \A p \in DOMAIN plane : v.plane[p].ship \in D \cup {None}
    BY <1>2 DEF PlaneRow
  <2> QED
    BY <1>2, <1>4, <1>10, <1>11, <2>1, <2>2 DEF Moored
<1>15. HangarFits(w)
  <2>1. \A s \in E : PlanesOn(w, s) = PlanesOn(v, s)
    BY <1>10 DEF PlanesOn
  <2>2. ASSUME NEW s \in D PROVE Housed(w, s)
    <3>1. Housed(v, s)
      BY <1>1, <1>2, <2>2 DEF WorldInv, HangarFits
    <3>2. SameHangar(v, w, s)
      BY <1>4, <1>10, <2>1, <2>2 DEF SameHangar
    <3> QED
      BY <3>1, <3>2, HousedAlike
  <2>3. Housed(w, n)
    <3>1. n # None
      BY <1>4 DEF None
    <3>2. PlanesOn(w, n) = {}
      BY <1>2, <1>4, <1>10, <3>1 DEF PlanesOn, PlaneRow
    <3>3. w.ship[n].type \in DOMAIN ShipChr
      BY <1>4, <1>5, <1>10 DEF ShipRow
    <3> QED
      BY <3>2, <3>3, EmptyHoused
  <2> QED
    BY <1>11, <2>2, <2>3 DEF HangarFits
<1>16. Fair(w)
  <2>1. \A s \in D : v.ship[s].effic \in {ship[s].effic, 0}
    BY DEF Quiet, ShipRows
  <2>2. \A s \in D : w.ship[s].effic \in {ship[s].effic, 0}
    BY <1>4, <1>10, <2>1
  <2> QED
    BY <2>2 DEF Fair
<1> QED
  BY <1>6, <1>12, <1>13, <1>14, <1>15, <1>16 DEF WorldInv

LEMMA NewPlaneKeeps ==
    ASSUME WorldInv(World), NEW v \in Quiet, NEW new \in PlaneRow(DOMAIN ship), new.ship = None
    PROVE  WorldInv(WithNewPlane(v, new)) /\ Fair(WithNewPlane(v, new))
<1> DEFINE n == Next1(v.plane)
           planes == Added(v.plane, new)
           D == DOMAIN plane
           E == D \cup {n}
           w == [v EXCEPT !.plane = planes]
<1>1. WorldInv(v) /\ Tables(World)
  BY FoughtKeeps, QuietIsFought DEF WorldInv
<1>2. /\ v \in Now /\ DOMAIN v.ship = DOMAIN ship /\ DOMAIN v.plane = D /\ DOMAIN v.land = DOMAIN land
      /\ \A p \in D : v.plane[p] \in PlaneRow(DOMAIN ship)
  BY FoughtRows, QuietIsFought
<1>3. IsFiniteSet(D) /\ D \subseteq Nat
  BY <1>1 DEF Tables, World
<1>4. /\ n \in Nat /\ n \notin D /\ DOMAIN planes = E /\ IsFiniteSet(E)
      /\ planes = [u \in E |-> planes[u]]
      /\ (\A s \in D : planes[s] = v.plane[s]) /\ planes[n] = new
  BY <1>2, <1>3, AddedRows
<1>6. WithNewPlane(v, new) = w
  BY <1>2 DEF WithNewPlane, Now, Worlds
<1> HIDE DEF n, planes
<1>7. planes \in [E -> PlaneRow(DOMAIN ship)]
  <2>1. \A p \in E : planes[p] \in PlaneRow(DOMAIN ship)
    BY <1>2, <1>4
  <2> QED
    BY <1>4, <2>1
<1>10. /\ w \in Worlds(DOMAIN ship, E, DOMAIN land)
       /\ w.ship = v.ship /\ w.plane = planes /\ w.land = v.land /\ w.sect = v.sect
  BY <1>2, <1>7 DEF Now, Worlds
<1> HIDE DEF w
<1>11. DOMAIN w.ship = DOMAIN ship /\ DOMAIN w.plane = E /\ DOMAIN w.land = DOMAIN land
  BY <1>2, <1>4, <1>10
<1>12. Tables(w)
  <2>1. E \subseteq Nat
    BY <1>3, <1>4
  <2>2. /\ IsFiniteSet(DOMAIN ship) /\ DOMAIN ship \subseteq Nat
        /\ IsFiniteSet(DOMAIN land) /\ DOMAIN land \subseteq Nat
    BY <1>1 DEF Tables, World
  <2> QED
    BY <1>4, <1>10, <1>11, <2>1, <2>2 DEF Tables
<1>13. HoldsFit(w)
  BY <1>1, <1>2, <1>10, <1>11 DEF WorldInv, HoldsFit
<1>14. Moored(w)
  <2>1. Moored(v)
    BY <1>1 DEF WorldInv
  <2> QED
    BY <1>2, <1>4, <1>10, <1>11, <2>1 DEF Moored
<1>15. HangarFits(w)
  <2>1. ASSUME NEW s \in DOMAIN ship PROVE Housed(w, s)
    <3>1. Housed(v, s)
      BY <1>1, <1>2, <2>1 DEF WorldInv, HangarFits
    <3>2. s # None
      BY <1>1, <2>1 DEF Tables, World, None
    <3>3. PlanesOn(w, s) = PlanesOn(v, s) /\ PlanesOn(v, s) \subseteq D
      BY <1>2, <1>4, <1>10, <1>11, <3>2 DEF PlanesOn
    <3>4. SameHangar(v, w, s)
      BY <1>4, <1>10, <2>1, <3>3 DEF SameHangar
    <3> QED
      BY <3>1, <3>4, HousedAlike
  <2> QED
    BY <1>11, <2>1 DEF HangarFits
<1>16. Fair(w)
  BY <1>10 DEF Quiet, ShipRows, Fair
<1> QED
  BY <1>6, <1>12, <1>13, <1>14, <1>15, <1>16 DEF WorldInv

LEMMA NewLandKeeps ==
    ASSUME WorldInv(World), NEW v \in Quiet, NEW new \in LandRow(DOMAIN ship)
    PROVE  WorldInv(WithNewLand(v, new)) /\ Fair(WithNewLand(v, new))
<1> DEFINE n == Next1(v.land)
           units == Added(v.land, new)
           D == DOMAIN land
           E == D \cup {n}
           w == [v EXCEPT !.land = units]
<1>1. WorldInv(v) /\ Tables(World)
  BY FoughtKeeps, QuietIsFought DEF WorldInv
<1>2. /\ v \in Now /\ DOMAIN v.ship = DOMAIN ship /\ DOMAIN v.plane = DOMAIN plane /\ DOMAIN v.land = D
      /\ \A u \in D : v.land[u] \in LandRow(DOMAIN ship)
  BY FoughtRows, QuietIsFought
<1>3. IsFiniteSet(D) /\ D \subseteq Nat
  BY <1>1 DEF Tables, World
<1>4. /\ n \in Nat /\ n \notin D /\ DOMAIN units = E /\ IsFiniteSet(E)
      /\ units = [u \in E |-> units[u]]
      /\ (\A s \in D : units[s] = v.land[s]) /\ units[n] = new
  <2> DEFINE row == v.land
  <2>1. DOMAIN row = D
    BY <1>2
  <2> HIDE DEF row, D
  <2>2. IsFiniteSet(DOMAIN row) /\ DOMAIN row \subseteq Nat
    BY <1>3, <2>1
  <2>3. /\ Next1(row) \in Nat /\ Next1(row) \notin DOMAIN row
        /\ DOMAIN Added(row, new) = DOMAIN row \cup {Next1(row)}
        /\ Added(row, new) = [u \in DOMAIN row \cup {Next1(row)} |-> Added(row, new)[u]]
        /\ \A u \in DOMAIN row : Added(row, new)[u] = row[u]
        /\ Added(row, new)[Next1(row)] = new
        /\ IsFiniteSet(DOMAIN row \cup {Next1(row)})
    BY <2>2, AddedRows
  <2> QED
    BY <2>1, <2>3 DEF row
<1>6. WithNewLand(v, new) = w
  BY <1>2 DEF WithNewLand, Now, Worlds
<1> HIDE DEF n, units
<1>7. units \in [E -> LandRow(DOMAIN ship)]
  <2>1. \A u \in E : units[u] \in LandRow(DOMAIN ship)
    BY <1>2, <1>4
  <2> QED
    BY <1>4, <2>1
<1>10. /\ w \in Worlds(DOMAIN ship, DOMAIN plane, E)
       /\ w.ship = v.ship /\ w.plane = v.plane /\ w.land = units /\ w.sect = v.sect
  BY <1>2, <1>7 DEF Now, Worlds
<1> HIDE DEF w
<1>11. DOMAIN w.ship = DOMAIN ship /\ DOMAIN w.plane = DOMAIN plane /\ DOMAIN w.land = E
  BY <1>2, <1>4, <1>10
<1>12. Tables(w)
  <2>1. E \subseteq Nat
    BY <1>3, <1>4
  <2>2. /\ IsFiniteSet(DOMAIN ship) /\ DOMAIN ship \subseteq Nat
        /\ IsFiniteSet(DOMAIN plane) /\ DOMAIN plane \subseteq Nat
    BY <1>1 DEF Tables, World
  <2> QED
    BY <1>4, <1>10, <1>11, <2>1, <2>2 DEF Tables
<1>13. HoldsFit(w)
  BY <1>1, <1>2, <1>10, <1>11 DEF WorldInv, HoldsFit
<1>14. Moored(w)
  BY <1>1, <1>2, <1>10, <1>11 DEF WorldInv, Moored
<1>15. HangarFits(w)
  <2>1. ASSUME NEW s \in DOMAIN ship PROVE Housed(w, s)
    <3>1. Housed(v, s)
      BY <1>1, <1>2, <2>1 DEF WorldInv, HangarFits
    <3>2. SameHangar(v, w, s)
      BY <1>10 DEF SameHangar, PlanesOn
    <3> QED
      BY <3>1, <3>2, HousedAlike
  <2> QED
    BY <1>11, <2>1 DEF HangarFits
<1>16. Fair(w)
  BY <1>10 DEF Quiet, ShipRows, Fair
<1> QED
  BY <1>6, <1>12, <1>13, <1>14, <1>15, <1>16 DEF WorldInv

LEMMA BuildShipSound ==
    ASSUME WorldInv(World), NEW me \in Nations, NEW spec, spec \subseteq Sectors,
           NEW type \in DOMAIN ShipChr, BuildShip(me, spec, type)
    PROVE  Soundly
<1> DEFINE chr == ShipChr[type]
           yards == Yards(me, spec, chr, 20, {"harbor"})
           at == Head(yards)
           new == [own |-> me, at |-> at, type |-> type, effic |-> 20, mobil |-> 0, tech |-> Tech[me],
                   items |-> Empty]
           v == PutSect(World, at, Paid(me, sect[at], chr, 20))
           w == WithNewShip(v, new)
<1>1. yards # <<>> /\ Done(w, IsDeity(me))
  BY DEF BuildShip, WithNewShip
<1>2. at \in Sectors /\ Yard(me, at, chr, 20, {"harbor"})
  BY <1>1, YardFirst
<1> HIDE DEF yards, at
<1>3. Tables(World) /\ HoldsFit(World)
  BY DEF WorldInv
<1>4. /\ chr.bwork \in Nat /\ chr.lcm \in Nat /\ chr.hcm \in Nat
      /\ \A i \in Items : chr.cap[i] \in Nat
  BY TablesAssumption
<1> HIDE DEF chr
<1>5. Paid(me, sect[at], chr, 20) \in SectRows(at)
  BY <1>2, <1>3, <1>4, PaidSect
<1>6. v \in Quiet
  BY <1>2, <1>3, <1>5, WorldIsQuiet, PutSectQuiet
<1> HIDE DEF v
<1>7. new \in HullRow
  <2>1. Tech[me] \in Nat
    BY ForcesAssumption
  <2>2. Empty \in Stock /\ \A i \in Items : Empty[i] = 0
    BY DEF Empty, Stock
  <2>3. new \in ShipRow
    BY <1>2, <2>1, <2>2 DEF ShipRow
  <2>4. Fits(new)
    BY <1>4, <2>2 DEF Fits, chr
  <2> QED
    BY <2>3, <2>4 DEF HullRow
<1> HIDE DEF new
<1>8. WorldInv(w) /\ Fair(w)
  BY <1>6, <1>7, NewShipKeeps
<1>9. IsDeity(me) \in BOOLEAN
  BY DEF IsDeity
<1> HIDE DEF w
<1> QED
  BY <1>1, <1>8, <1>9 DEF Soundly

LEMMA BuildPlaneSound ==
    ASSUME WorldInv(World), NEW me \in Nations, NEW spec, spec \subseteq Sectors,
           NEW type \in DOMAIN PlaneChr, BuildPlane(me, spec, type)
    PROVE  Soundly
<1> DEFINE chr == PlaneChr[type]
           yards == Yards(me, spec, chr, 10, {"airfield"})
           at == Head(yards)
           new == [own |-> me, at |-> at, type |-> type, effic |-> 10, mobil |-> 0, range |-> 255,
                   ship |-> None, launched |-> FALSE]
           v == PutSect(World, at, Paid(me, sect[at], chr, 10))
           w == WithNewPlane(v, new)
<1>1. yards # <<>> /\ Done(w, IsDeity(me))
  BY DEF BuildPlane, WithNewPlane
<1>2. at \in Sectors /\ Yard(me, at, chr, 10, {"airfield"})
  BY <1>1, YardFirst
<1> HIDE DEF yards, at
<1>3. Tables(World) /\ HoldsFit(World)
  BY DEF WorldInv
<1>4. chr.bwork \in Nat /\ chr.lcm \in Nat /\ chr.hcm \in Nat
  BY TablesAssumption
<1> HIDE DEF chr
<1>5. Paid(me, sect[at], chr, 10) \in SectRows(at)
  BY <1>2, <1>3, <1>4, PaidSect
<1>6. v \in Quiet
  BY <1>2, <1>3, <1>5, WorldIsQuiet, PutSectQuiet
<1> HIDE DEF v
<1>7. new \in PlaneRow(DOMAIN ship) /\ new.ship = None
  BY <1>2 DEF PlaneRow
<1> HIDE DEF new
<1>8. WorldInv(w) /\ Fair(w)
  BY <1>6, <1>7, NewPlaneKeeps
<1>9. IsDeity(me) \in BOOLEAN
  BY DEF IsDeity
<1> HIDE DEF w
<1> QED
  BY <1>1, <1>8, <1>9 DEF Soundly

LEMMA BuildLandSound ==
    ASSUME WorldInv(World), NEW me \in Nations, NEW spec, spec \subseteq Sectors,
           NEW type \in DOMAIN LandChr, BuildLand(me, spec, type)
    PROVE  Soundly
<1> DEFINE chr == LandChr[type]
           yards == Yards(me, spec, chr, 10, DOMAIN SectChr)
           at == Head(yards)
           new == [own |-> me, at |-> at, type |-> type, effic |-> 10, mobil |-> 0, tech |-> Tech[me],
                   ship |-> None, items |-> Empty]
           v == PutSect(World, at, Paid(me, sect[at], chr, 10))
           w == WithNewLand(v, new)
<1>1. yards # <<>> /\ Done(w, IsDeity(me))
  BY DEF BuildLand, WithNewLand
<1>2. at \in Sectors /\ Yard(me, at, chr, 10, DOMAIN SectChr)
  BY <1>1, YardFirst
<1> HIDE DEF yards, at
<1>3. Tables(World) /\ HoldsFit(World)
  BY DEF WorldInv
<1>4. chr.bwork \in Nat /\ chr.lcm \in Nat /\ chr.hcm \in Nat
  BY TablesAssumption
<1> HIDE DEF chr
<1>5. Paid(me, sect[at], chr, 10) \in SectRows(at)
  BY <1>2, <1>3, <1>4, PaidSect
<1>6. v \in Quiet
  BY <1>2, <1>3, <1>5, WorldIsQuiet, PutSectQuiet
<1> HIDE DEF v
<1>7. new \in LandRow(DOMAIN ship)
  <2>1. Tech[me] \in Nat
    BY ForcesAssumption
  <2>2. Empty \in Stock
    BY DEF Empty, Stock
  <2> QED
    BY <1>2, <2>1, <2>2 DEF LandRow
<1> HIDE DEF new
<1>8. WorldInv(w) /\ Fair(w)
  BY <1>6, <1>7, NewLandKeeps
<1>9. IsDeity(me) \in BOOLEAN
  BY DEF IsDeity
<1> HIDE DEF w
<1> QED
  BY <1>1, <1>8, <1>9 DEF Soundly

-----------------------------------------------------------------------------
(* The theorems. *)

\* The three properties are inductive only together.
WarInv == RowsInRange /\ NothingOverloaded /\ NoneAdrift

LEMMA WarInvRows ==
    WarInv <=> /\ WorldInv(World)
               /\ relation \in [Nations -> [Nations -> AtWar..Allied]]
               /\ commands \in 0..MaxCommands /\ repeated \in BOOLEAN
BY DEF WarInv, RowsInRange, NothingOverloaded, NoneAdrift, WorldInv

\* A step that leaves the rows alone.
LEMMA WorldIsFair == Fair(World)
  BY DEF Fair, World

LEMMA SoundlyKeeps ==
    ASSUME WarInv, Soundly
    PROVE  WarInv' /\ Fair(World')
<1>1. PICK w : WorldInv(w) /\ Fair(w) /\ \E again \in BOOLEAN : Done(w, again)
  BY DEF Soundly
<1>2. PICK again \in BOOLEAN : Done(w, again)
  BY <1>1
<1>3. w = [ship |-> w.ship, plane |-> w.plane, land |-> w.land, sect |-> w.sect, nat |-> w.nat]
  BY <1>1 DEF WorldInv, Tables, Worlds
<1>4. World' = w
  BY <1>2, <1>3 DEF Done, World
<1>5. /\ commands' = commands + 1 /\ commands < MaxCommands
      /\ relation' = relation /\ repeated' = again
  BY <1>2 DEF Done
<1>6. /\ relation \in [Nations -> [Nations -> AtWar..Allied]] /\ commands \in 0..MaxCommands
  BY WarInvRows
<1>7. MaxCommands \in Nat
  BY ForcesAssumption
<1>8. commands' \in 0..MaxCommands /\ repeated' \in BOOLEAN
  BY <1>2, <1>5, <1>6, <1>7
<1>9. Tables(World') /\ HangarFits(World') /\ HoldsFit(World') /\ Moored(World')
  BY <1>1, <1>4 DEF WorldInv
<1>10. Fair(World')
  BY <1>1, <1>4
<1> QED
  BY <1>5, <1>6, <1>8, <1>9, <1>10 DEF WarInv, RowsInRange, NothingOverloaded, NoneAdrift

LEMMA InitEstablishes == Init => WarInv
<1> SUFFICES ASSUME Init PROVE WarInv
  OBVIOUS
<1>1. PICK w \in Starts :
        /\ ship = w.ship /\ plane = w.plane /\ land = w.land /\ sect = w.sect /\ nat = w.nat
        /\ relation = Relation /\ commands = 0 /\ repeated = FALSE
  BY DEF Init
<1>2. WorldInv(w)
  BY StartsAssumption DEF WorldInv
<1>3. w = [ship |-> w.ship, plane |-> w.plane, land |-> w.land, sect |-> w.sect, nat |-> w.nat]
  BY <1>2 DEF WorldInv, Tables, Worlds
<1>4. World = w
  BY <1>1, <1>3 DEF World
<1>5. relation \in [Nations -> [Nations -> AtWar..Allied]]
  BY <1>1, WarAssumption
<1>6. commands \in 0..MaxCommands
  BY <1>1, ForcesAssumption
<1>7. repeated \in BOOLEAN
  BY <1>1, Zenon
<1> QED
  BY <1>2, <1>4, <1>5, <1>6, <1>7, WarInvRows

LEMMA DeclareKeeps ==
    ASSUME WarInv, NEW me, NEW as, NEW targets, NEW stance \in Stances, commands < MaxCommands,
           Declare(me, as, targets, stance)
    PROVE  WarInv' /\ Fair(World')
<1>1. relation \in [Nations -> [Nations -> AtWar..Allied]] /\ commands \in 0..MaxCommands
  BY WarInvRows
<1>2. stance \in AtWar..Allied /\ MaxCommands \in Nat
  BY WarAssumption, ForcesAssumption
<1>3. relation' \in [Nations -> [Nations -> AtWar..Allied]]
  BY <1>1, <1>2 DEF Declare
<1>4. commands' \in 0..MaxCommands /\ repeated' \in BOOLEAN
  <2>1. commands' = commands + 1 /\ commands \in Int /\ commands >= 0
    BY <1>1 DEF Declare
  <2>2. commands' \in 0..MaxCommands
    BY <1>2, <2>1
  <2>3. repeated' \in BOOLEAN
    BY Zenon DEF Declare
  <2> QED
    BY <2>2, <2>3
<1>5. World' = World
  BY DEF Declare, rows, World
<1>6. Tables(World') /\ HangarFits(World') /\ HoldsFit(World') /\ Moored(World')
  BY <1>5, WarInvRows DEF WorldInv
<1>7. Fair(World')
  BY <1>5, WorldIsFair
<1> QED
  BY <1>3, <1>4, <1>6, <1>7 DEF WarInv, RowsInRange, NothingOverloaded, NoneAdrift

LEMMA Inputs ==
    ASSUME NEW me
    PROVE  /\ Goods \subseteq Items /\ Amounts \subseteq Int /\ Luck \subseteq 0..99
           /\ Types \subseteq DOMAIN SectChr /\ Players \subseteq Nations
           /\ \A area \in Areas : area \subseteq Sectors
           /\ \A row : \A spec \in Named(me, row) : spec \subseteq DOMAIN row
<1>1. \A area \in Areas : area \subseteq Sectors
  BY DEF Areas
<1>2. \A row : \A spec \in Named(me, row) : spec \subseteq DOMAIN row
  BY DEF Named, Matching
<1> QED
  BY <1>1, <1>2, WarAssumption, ForcesAssumption

LEMMA RuleKeeps ==
    ASSUME WarInv, commands < MaxCommands, NEW me \in Players, Rule(me)
    PROVE  WarInv' /\ Fair(World')
<1>1. WorldInv(World) /\ Tables(World) /\ HoldsFit(World)
  BY WarInvRows DEF WorldInv
<1>2. me \in Nations
  BY Inputs
<1>3. ASSUME NEW from \in Sectors, NEW i \in Goods, NEW n \in Amounts, NEW way \in Ways,
             Move(me, from, i, n, way) \/ Explore(me, from, i, n, way)
      PROVE  Soundly
  <2>1. i \in Items /\ n \in Int
    BY Inputs
  <2> QED
    BY <1>1, <1>2, <1>3, <2>1, MoveQuiet, QuietlySoundly
<1>4. ASSUME NEW from \in Sectors, NEW to \in Sectors, NEW i \in Goods, NEW n \in Amounts,
             MoveTo(me, from, i, n, to)
      PROVE  Soundly
  <2>1. i \in Items /\ n \in Int
    BY Inputs
  <2> QED
    BY <1>1, <1>2, <1>4, <2>1, MoveToQuiet, QuietlySoundly
<1>5. ASSUME NEW area \in Areas, NEW n \in Amounts, Enlist(me, area, n)
      PROVE  Soundly
  <2>1. area \subseteq Sectors /\ n \in Int
    BY Inputs
  <2> QED
    BY <1>1, <1>2, <1>5, <2>1, EnlistQuiet, QuietlySoundly
<1>6. ASSUME NEW area \in Areas, NEW n \in Amounts, NEW reserve \in BOOLEAN,
             Demobilize(me, area, n, reserve)
      PROVE  Soundly
  <2>1. area \subseteq Sectors /\ n \in Int
    BY Inputs
  <2> QED
    BY <1>1, <1>2, <1>6, <2>1, DemobilizeQuiet, QuietlySoundly
<1>7. ASSUME NEW area \in Areas, NEW type \in Types, Designate(me, area, type)
      PROVE  Soundly
  <2>1. area \subseteq Sectors /\ type \in DOMAIN SectChr
    BY Inputs
  <2> QED
    BY <1>1, <1>2, <1>7, <2>1, DesignateQuiet, QuietlySoundly
<1>8. ASSUME NEW area \in Areas, NEW type \in DOMAIN ShipChr, BuildShip(me, area, type)
      PROVE  Soundly
  <2>1. area \subseteq Sectors
    BY Inputs
  <2> QED
    BY <1>1, <1>2, <1>8, <2>1, BuildShipSound
<1>9. ASSUME NEW area \in Areas, NEW type \in DOMAIN PlaneChr, BuildPlane(me, area, type)
      PROVE  Soundly
  <2>1. area \subseteq Sectors
    BY Inputs
  <2> QED
    BY <1>1, <1>2, <1>9, <2>1, BuildPlaneSound
<1>10. ASSUME NEW area \in Areas, NEW type \in DOMAIN LandChr, BuildLand(me, area, type)
       PROVE  Soundly
  <2>1. area \subseteq Sectors
    BY Inputs
  <2> QED
    BY <1>1, <1>2, <1>10, <2>1, BuildLandSound
<1>11. ASSUME NEW area \in Areas, NEW d \in Directions,
              BuildBridgeSpan(me, area, d) \/ BuildBridgeTower(me, area, d)
       PROVE  Soundly
  <2>1. area \subseteq Sectors
    BY Inputs
  <2> QED
    BY <1>1, <1>2, <1>11, <2>1, SpanQuiet, TowerQuiet, QuietlySoundly
<1>12. ASSUME NEW targets, NEW stance \in Stances, NEW as, Declare(me, as, targets, stance)
       PROVE  WarInv' /\ Fair(World')
  BY <1>12, DeclareKeeps
<1> QED
  BY <1>3, <1>4, <1>5, <1>6, <1>7, <1>8, <1>9, <1>10, <1>11, <1>12, SoundlyKeeps DEF Rule

LEMMA SupplyKeeps ==
    ASSUME WarInv, NEW me \in Players, Supply(me)
    PROVE  WarInv' /\ Fair(World')
<1>1. WorldInv(World) /\ Tables(World) /\ HoldsFit(World)
  BY WarInvRows DEF WorldInv
<1>2. me \in Nations
  BY Inputs
<1>3. ASSUME NEW i \in Goods, NEW n \in Amounts, NEW spec \in Named(me, ship), Load(me, i, n, spec)
      PROVE  Soundly
  <2>1. i \in Items /\ n \in Int /\ spec \subseteq DOMAIN ship
    BY Inputs
  <2> QED
    BY <1>1, <1>2, <1>3, <2>1, LoadQuiet, QuietlySoundly
<1>4. ASSUME NEW spec \in Named(me, ship), NEW planes \in Named(me, plane),
             LoadPlanes(me, spec, planes) \/ UnloadPlanes(me, spec, planes)
      PROVE  Soundly
  <2>1. spec \subseteq DOMAIN ship /\ planes \subseteq DOMAIN plane
    BY Inputs
  <2> QED
    BY <1>1, <1>2, <1>4, <2>1, LoadPlanesSound, UnloadPlanesSound
<1>5. ASSUME NEW i \in Goods, NEW n \in Amounts, NEW tenders \in Named(me, ship),
             NEW targets \in SUBSET DOMAIN ship, Tend(me, i, tenders, n, targets)
      PROVE  Soundly
  <2>1. i \in Items /\ n \in Int /\ tenders \subseteq DOMAIN ship
    BY Inputs
  <2> QED
    BY <1>1, <1>2, <1>5, <2>1, TendQuiet, QuietlySoundly
<1>6. ASSUME NEW spec \in Named(me, ship), ScuttleShips(me, spec) \/ ScrapShips(me, spec)
      PROVE  Soundly
  <2>1. spec \subseteq DOMAIN ship
    BY Inputs
  <2> QED
    BY <1>1, <1>2, <1>6, <2>1, ScuttleShipsQuiet, ScrapShipsQuiet, QuietlySoundly
<1>7. ASSUME NEW spec \in Named(me, plane), ScuttlePlanes(me, spec) \/ ScrapPlanes(me, spec)
      PROVE  Soundly
  <2>1. spec \subseteq DOMAIN plane
    BY Inputs
  <2> QED
    BY <1>1, <1>2, <1>7, <2>1, ScuttlePlanesQuiet, ScrapPlanesQuiet, QuietlySoundly
<1>8. ASSUME NEW spec \in Named(me, land), ScuttleLand(me, spec) \/ ScrapLand(me, spec)
      PROVE  Soundly
  <2>1. spec \subseteq DOMAIN land
    BY Inputs
  <2> QED
    BY <1>1, <1>2, <1>8, <2>1, ScuttleLandQuiet, ScrapLandQuiet, QuietlySoundly
<1> QED
  BY <1>3, <1>4, <1>5, <1>6, <1>7, <1>8, SoundlyKeeps DEF Supply

LEMMA FleetKeeps ==
    ASSUME WarInv, NEW me \in Players, Fleet(me)
    PROVE  WarInv' /\ Fair(World')
<1>1. WorldInv(World) /\ Tables(World) /\ HoldsFit(World)
  BY WarInvRows DEF WorldInv
<1>2. me \in Nations
  BY Inputs
<1>3. ASSUME NEW spec \in Named(me, ship), NEW way \in Ways, NEW luck \in Luck,
             Navigate(me, spec, way, luck)
      PROVE  Soundly
  <2>1. spec \subseteq DOMAIN ship /\ luck \in Int
    BY Inputs
  <2> QED
    BY <1>1, <1>2, <1>3, <2>1, NavigateSound
<1>4. ASSUME NEW s \in DOMAIN ship, NEW to \in Sectors, NEW luck \in Luck,
             NavigateTo(me, s, to, luck)
      PROVE  Soundly
  <2>1. luck \in Int
    BY Inputs
  <2> QED
    BY <1>1, <1>2, <1>4, <2>1, NavigateToSound
<1>5. ASSUME NEW v \in DOMAIN ship, NEW b \in DOMAIN ship, NEW n \in Amounts,
             NEW luck \in Luck, NEW back \in Luck, Board(me, v, b, n, luck, back)
      PROVE  Soundly
  <2>1. n \in Int /\ luck \in 0..99 /\ back \in 0..99
    BY Inputs
  <2> QED
    BY <1>1, <1>2, <1>5, <2>1, BoardQuiet, QuietlySoundly
<1>6. ASSUME NEW spec \in Named(me, ship), NEW t \in DOMAIN ship, NEW luck \in Luck, NEW back \in Luck,
             ShipsFireAtShip(me, spec, t, luck, back)
      PROVE  Soundly
  <2>1. spec \subseteq DOMAIN ship /\ luck \in Int /\ back \in Int
    BY Inputs
  <2> QED
    BY <1>1, <1>2, <1>6, <2>1, ShipsFireAtShipFair, FairlySoundly
<1>7. ASSUME NEW spec \in Named(me, ship), NEW at \in Sectors, NEW luck \in Luck,
             ShipsFireAtSect(me, spec, at, luck)
      PROVE  Soundly
  <2>1. spec \subseteq DOMAIN ship /\ luck \in Int
    BY Inputs
  <2> QED
    BY <1>1, <1>2, <1>7, <2>1, ShipsFireAtSectQuiet, QuietlySoundly
<1>8. ASSUME NEW spec \in Named(me, ship), NEW t \in DOMAIN ship, NEW hits \in BOOLEAN,
             NEW answered \in BOOLEAN, NEW luck \in Luck, Torpedo(me, spec, t, hits, answered, luck)
      PROVE  Soundly
  <2>1. spec \subseteq DOMAIN ship /\ luck \in Int
    BY Inputs
  <2> QED
    BY <1>1, <1>2, <1>8, <2>1, TorpedoFair, FairlySoundly
<1> QED
  BY <1>3, <1>4, <1>5, <1>6, <1>7, <1>8, SoundlyKeeps DEF Fleet

LEMMA CampaignKeeps ==
    ASSUME WarInv, NEW me \in Players, Campaign(me)
    PROVE  WarInv' /\ Fair(World')
<1>1. WorldInv(World) /\ Tables(World) /\ HoldsFit(World)
  BY WarInvRows DEF WorldInv
<1>2. me \in Nations
  BY Inputs
<1>3. ASSUME NEW spec \in Named(me, land), NEW t \in DOMAIN ship, NEW luck \in Luck,
             LandFiresAtShip(me, spec, t, luck)
      PROVE  Soundly
  <2>1. spec \subseteq DOMAIN land /\ luck \in Int
    BY Inputs
  <2> QED
    BY <1>1, <1>2, <1>3, <2>1, LandFiresAtShipFair, FairlySoundly
<1>4. ASSUME NEW spec \in Named(me, land), NEW at \in Sectors, NEW luck \in Luck,
             LandFiresAtSect(me, spec, at, luck)
      PROVE  Soundly
  <2>1. spec \subseteq DOMAIN land /\ luck \in Int
    BY Inputs
  <2> QED
    BY <1>1, <1>2, <1>4, <2>1, LandFiresAtSectQuiet, QuietlySoundly
<1>5. ASSUME NEW f \in Sectors, NEW t \in DOMAIN ship, NEW luck \in Luck,
             FortFiresAtShip(me, f, t, luck)
      PROVE  Soundly
  <2>1. luck \in Int
    BY Inputs
  <2> QED
    BY <1>1, <1>2, <1>5, <2>1, FortFiresAtShipFair, FairlySoundly
<1>6. ASSUME NEW f \in Sectors, NEW at \in Sectors, NEW luck \in Luck,
             FortFiresAtSect(me, f, at, luck)
      PROVE  Soundly
  <2>1. luck \in Int
    BY Inputs
  <2> QED
    BY <1>1, <1>2, <1>6, <2>1, FortFiresAtSectQuiet, QuietlySoundly
<1>7. ASSUME NEW spec \in Named(me, land), NEW way \in Ways, March(me, spec, way)
      PROVE  Soundly
  <2>1. spec \subseteq DOMAIN land
    BY Inputs
  <2> QED
    BY <1>1, <1>2, <1>7, <2>1, MarchQuiet, QuietlySoundly
<1>8. ASSUME NEW u \in DOMAIN land, NEW to \in Sectors, MarchTo(me, u, to)
      PROVE  Soundly
  BY <1>1, <1>2, <1>8, MarchToQuiet, QuietlySoundly
<1>9. ASSUME NEW at \in Sectors, NEW spec, NEW n, NEW luck, NEW back, NEW roll \in Luck,
             Attack(me, at, spec, n, luck, back, roll)
      PROVE  Soundly
  <2>1. roll \in Int
    BY Inputs
  <2> QED
    BY <1>1, <1>2, <1>9, <2>1, AttackQuiet, QuietlySoundly
<1>10. ASSUME NEW at \in Sectors, NEW spec \in Named(me, ship), NEW n \in Amounts,
              Assault(me, at, spec, n)
       PROVE  Soundly
  <2>1. spec \subseteq DOMAIN ship /\ n \in Int
    BY Inputs
  <2> QED
    BY <1>1, <1>2, <1>10, <2>1, AssaultQuiet, QuietlySoundly
<1> QED
  BY <1>3, <1>4, <1>5, <1>6, <1>7, <1>8, <1>9, <1>10, SoundlyKeeps DEF Campaign

LEMMA SortieKeeps ==
    ASSUME WarInv, NEW me \in Players, Sortie(me)
    PROVE  WarInv' /\ Fair(World')
<1>1. WorldInv(World) /\ Tables(World) /\ HoldsFit(World)
  BY WarInvRows DEF WorldInv
<1>2. me \in Nations
  BY Inputs
<1>3. ASSUME NEW spec \in Named(me, plane), NEW at \in Sectors, Fly(me, spec, at)
      PROVE  Soundly
  <2>1. spec \subseteq DOMAIN plane
    BY Inputs
  <2> QED
    BY <1>1, <1>2, <1>3, <2>1, FlySound
<1>4. ASSUME NEW spec \in Named(me, plane), NEW at \in Sectors, NEW shots, NEW luck \in Luck,
             BombSect(me, spec, at, shots, luck)
      PROVE  Soundly
  <2>1. spec \subseteq DOMAIN plane /\ luck \in Int
    BY Inputs
  <2> QED
    BY <1>1, <1>2, <1>4, <2>1, BombSectQuiet, QuietlySoundly
<1>5. ASSUME NEW spec \in Named(me, plane), NEW t \in DOMAIN ship, NEW shots, NEW luck \in Luck,
             BombShip(me, spec, t, shots, luck)
      PROVE  Soundly
  <2>1. spec \subseteq DOMAIN plane /\ luck \in Int
    BY Inputs
  <2> QED
    BY <1>1, <1>2, <1>5, <2>1, BombShipFair, FairlySoundly
<1>6. ASSUME NEW spec \in Named(me, plane), NEW at \in Sectors, NEW orbit \in Orbits,
             Launch(me, spec, at, orbit)
      PROVE  Soundly
  <2>1. spec \subseteq DOMAIN plane
    BY Inputs
  <2> QED
    BY <1>1, <1>2, <1>6, <2>1, LaunchSound
<1>7. ASSUME NEW spies \in Named(me, plane) \cup {{}}, NEW escorts \in Named(me, plane) \cup {{}},
             NEW from \in Sectors, NEW way \in Ways, NEW luck \in Luck, NEW lucky, NEW shots,
             Recon(me, spies, escorts, from, way, lucky, shots, luck)
      PROVE  Soundly
  <2>1. spies \subseteq DOMAIN plane /\ escorts \subseteq DOMAIN plane /\ luck \in Int
    BY Inputs
  <2> QED
    BY <1>1, <1>2, <1>7, <2>1, ReconSound
<1> QED
  BY <1>3, <1>4, <1>5, <1>6, <1>7, SoundlyKeeps DEF Sortie

\* Every command keeps the three properties, and charges for its shots.
LEMMA NextKeeps ==
    ASSUME WarInv, [Next]_vars
    PROVE  WarInv' /\ Fair(World')
<1>1. CASE UNCHANGED vars
  <2>1. World' = World
    BY <1>1 DEF vars, rows, World
  <2>2. relation' = relation /\ commands' = commands /\ repeated' = repeated
    BY <1>1 DEF vars
  <2>3. Tables(World') /\ HangarFits(World') /\ HoldsFit(World') /\ Moored(World')
    BY <2>1, WarInvRows DEF WorldInv
  <2>4. /\ relation' \in [Nations -> [Nations -> AtWar..Allied]]
        /\ commands' \in 0..MaxCommands /\ repeated' \in BOOLEAN
    BY <2>2, WarInvRows
  <2>5. Fair(World')
    BY <2>1, WorldIsFair
  <2> QED
    BY <2>3, <2>4, <2>5 DEF WarInv, RowsInRange, NothingOverloaded, NoneAdrift
<1>2. CASE Exhausted
  BY <1>1, <1>2 DEF Exhausted
<1>3. ASSUME commands < MaxCommands, NEW me \in Players,
             Rule(me) \/ Supply(me) \/ Fleet(me) \/ Campaign(me) \/ Sortie(me)
      PROVE  WarInv' /\ Fair(World')
  BY <1>3, RuleKeeps, SupplyKeeps, FleetKeeps, CampaignKeeps, SortieKeeps
<1> QED
  BY <1>1, <1>2, <1>3 DEF Next

LEMMA WarInductive == Spec => []WarInv
<1>1. Init => WarInv
  BY InitEstablishes
<1>2. WarInv /\ [Next]_vars => WarInv'
  BY NextKeeps
<1> QED
  BY <1>1, <1>2, PTL DEF Spec

\* Whatever the players order, the rows that a command puts are rows of their
\* tables: a command that spends for many sectors or units, of which it has read
\* the rows before, brings no stock, treasury, work force, mobility or efficiency
\* below zero or above its bound (enlist, demobilize, build, scrap, load, assault).
THEOREM RowsStayInRange == Spec => []RowsInRange
<1>1. WarInv => RowsInRange
  BY DEF WarInv
<1> QED
  BY <1>1, WarInductive, PTL

\* Whichever commands put planes and goods aboard, and in which order, a ship has
\* berths for its planes, counted as shipcarry counts them, and its holds take
\* what is in them (load, tend, board, fly, recon, assault).
THEOREM NothingIsOverloaded == Spec => []NothingOverloaded
<1>1. WarInv => NothingOverloaded
  BY DEF WarInv
<1> QED
  BY <1>1, WarInductive, PTL

\* A plane aboard is where its ship is, or has come down on land: ships that sail,
\* are mined, sunk, boarded or scrapped, and planes that land elsewhere, leave none
\* at sea (navigate, fly, recon, torpedo, bomb, scrap).
THEOREM NoPlaneIsAdrift == Spec => []NoneAdrift
<1>1. WarInv => NoneAdrift
  BY DEF WarInv
<1> QED
  BY <1>1, WarInductive, PTL

\* Whoever fires pays: a ship that is hit and stays afloat has cost a sector,
\* another ship or a land unit a shell, or a plane its mobility, though a handler
\* puts the row of the shooter several times in a command, some of them from a copy
\* it read before (fire and the answers to it, torpedo, navigate, bomb).
THEOREM NoShotIsFree == Spec => NoFreeShot
<1>1. ASSUME WarInv, [Next]_vars
      PROVE  \A s \in DOMAIN ship :
                ship'[s].effic < ship[s].effic /\ ship'[s].effic > 0 =>
                    \/ \E f \in Sectors : sect'[f].items["shell"] < sect[f].items["shell"]
                    \/ \E t \in DOMAIN ship \ {s} : ship'[t].items["shell"] < ship[t].items["shell"]
                    \/ \E u \in DOMAIN land : land'[u].items["shell"] < land[u].items["shell"]
                    \/ \E p \in DOMAIN plane : plane'[p].mobil < plane[p].mobil
  <2> SUFFICES ASSUME NEW s \in DOMAIN ship, ship'[s].effic < ship[s].effic, ship'[s].effic > 0
               PROVE  Charged(World', s)
    BY DEF Charged, World
  <2>1. Fair(World')
    BY <1>1, NextKeeps
  <2>2. World'.ship[s].effic \in {ship[s].effic, 0} \/ Charged(World', s)
    BY <2>1 DEF Fair
  <2>3. World'.ship = ship'
    BY DEF World
  <2>4. ship[s].effic \in Int
    <3>1. ship \in [DOMAIN ship -> ShipRow]
      BY <1>1, WarInvRows DEF WorldInv, Tables, Worlds, World
    <3> QED
      BY <3>1 DEF ShipRow
  <2>5. ~(ship'[s].effic \in {ship[s].effic, 0})
    BY <2>4
  <2> QED
    BY <2>2, <2>3, <2>5
<1> QED
  BY <1>1, WarInductive, PTL DEF Spec, NoFreeShot

=============================================================================
