----------------------------- MODULE WorldProofs -----------------------------
(***************************************************************************)
(* Proofs about module World, for a torus of any even size from six by     *)
(* four, any command lines, any number of tries and of iterations.         *)
(***************************************************************************)
EXTENDS World, SetLemmas, SequenceTheorems

-----------------------------------------------------------------------------
(* Numbers on a ring. *)

\* A remainder is what a step of at most one round leaves.
LEMMA Wrapped ==
    ASSUME NEW n \in Nat \ {0}, NEW x \in 0..n - 1, NEW d \in -n..n
    PROVE  (x + d) % n = IF x + d < 0 THEN x + d + n ELSE IF x + d >= n THEN x + d - n ELSE x + d
<1> DEFINE a == x + d
           q == a \div n
           r == a % n
<1>1. a \in Int /\ -n <= a /\ a < 2 * n /\ n > 0 /\ n \in Int
  OBVIOUS
<1> HIDE DEF a
<1>2. a = n * q + r /\ 0 <= r /\ r < n /\ q \in Int /\ r \in Int
  BY <1>1
<1> HIDE DEF q, r
<1>3. q \in {-1, 0, 1}
  <2>1. ASSUME q >= 2 PROVE FALSE
    <3>1. n * q >= n * 2
      BY <1>1, <1>2, <2>1
    <3> QED
      BY <1>1, <1>2, <3>1
  <2>2. ASSUME q <= -2 PROVE FALSE
    <3>1. n * q <= n * (-2)
      BY <1>1, <1>2, <2>2
    <3>2. n * (-2) = -(2 * n)
      BY <1>1
    <3> QED
      BY <1>1, <1>2, <3>1, <3>2
  <2> QED
    BY <1>2, <2>1, <2>2
<1>4. n * q = IF q = 0 THEN 0 ELSE IF q = 1 THEN n ELSE -n
  BY <1>1, <1>3
<1>5. r = IF a < 0 THEN a + n ELSE IF a >= n THEN a - n ELSE a
  BY <1>1, <1>2, <1>3, <1>4
<1> QED
  BY <1>5 DEF a, r

\* The length of a ring: even, and more than the way a step may go back.
Ringlike(n) == n \in Nat /\ n % 2 = 0 /\ n >= 4

LEMMA HalfARing ==
    ASSUME NEW n, Ringlike(n)
    PROVE  n \div 2 \in Nat /\ 2 * (n \div 2) = n /\ n \div 2 >= 2
BY DEF Ringlike

\* Numbers apart from one another on a ring.
LEMMA ApartRange ==
    ASSUME NEW n, Ringlike(n), NEW i \in 0..n - 1, NEW j \in 0..n - 1
    PROVE  /\ Apart(i, j, n) \in Nat
           /\ 2 * Apart(i, j, n) <= n
           /\ Apart(i, j, n) = Apart(j, i, n)
           /\ Apart(i, j, n) = 0 <=> i = j
           /\ (Apart(i, j, n) + i + j) % 2 = 0
<1> DEFINE h == n \div 2
<1>1. h \in Nat /\ 2 * h = n /\ n \in Nat
  BY HalfARing DEF Ringlike
<1> HIDE DEF h
<1>2. Apart(i, j, n) = LET d == IF i > j THEN i - j ELSE j - i
                       IN  IF d > h THEN 2 * h - d ELSE d
  BY <1>1 DEF Apart, h
<1>3. Apart(j, i, n) = LET d == IF j > i THEN j - i ELSE i - j
                       IN  IF d > h THEN 2 * h - d ELSE d
  BY <1>1 DEF Apart, h
<1>4. i \in 0..2 * h - 1 /\ j \in 0..2 * h - 1
  BY <1>1
<1>5. /\ Apart(i, j, n) \in Nat
      /\ 2 * Apart(i, j, n) <= n
      /\ Apart(i, j, n) = Apart(j, i, n)
      /\ Apart(i, j, n) = 0 <=> i = j
  BY <1>1, <1>2, <1>3, <1>4
<1>6. (Apart(i, j, n) + i + j) % 2 = 0
  BY <1>1, <1>2, <1>4
<1> QED
  BY <1>5, <1>6

\* A step of at most two changes a distance by no more.
LEMMA ApartSteps ==
    ASSUME NEW n, Ringlike(n), NEW i \in 0..n - 1, NEW j \in 0..n - 1, NEW d \in -2..2
    PROVE  /\ (j + d) % n \in 0..n - 1
           /\ Apart(i, (j + d) % n, n) <= Apart(i, j, n) + (IF d < 0 THEN -d ELSE d)
<1> DEFINE h == n \div 2
           k == (j + d) % n
<1>1. h \in Nat /\ 2 * h = n /\ n \in Nat /\ h >= 2
  BY HalfARing DEF Ringlike
<1>2. k = IF j + d < 0 THEN j + d + n ELSE IF j + d >= n THEN j + d - n ELSE j + d
  <2>1. n \in Nat \ {0} /\ d \in -n..n
    BY <1>1
  <2> QED
    BY <2>1, Wrapped
<1>3. Apart(i, j, n) = LET e == IF i > j THEN i - j ELSE j - i
                       IN  IF e > h THEN 2 * h - e ELSE e
  BY <1>1 DEF Apart, h
<1>4. Apart(i, k, n) = LET e == IF i > k THEN i - k ELSE k - i
                       IN  IF e > h THEN 2 * h - e ELSE e
  BY <1>1 DEF Apart, h
<1> HIDE DEF h, k
<1>5. k \in 0..n - 1
  BY <1>1, <1>2
<1>6. Apart(i, k, n) <= Apart(i, j, n) + (IF d < 0 THEN -d ELSE d)
  BY <1>1, <1>2, <1>3, <1>4
<1> QED
  BY <1>5, <1>6 DEF k

\* There is a way to get nearer, and from where it is nothing away both lead off by one.
LEMMA ApartNearer ==
    ASSUME NEW n, Ringlike(n), NEW i \in 0..n - 1, NEW j \in 0..n - 1
    PROVE  \E e \in {-1, 1} :
             /\ Apart(i, j, n) >= 1 => Apart(i, (j + e) % n, n) = Apart(i, j, n) - 1
             /\ Apart(i, j, n) >= 2 => Apart(i, (j + 2 * e) % n, n) = Apart(i, j, n) - 2
             /\ Apart(i, j, n) = 0 => Apart(i, (j + e) % n, n) = 1
<1> DEFINE h == n \div 2
           To(e) == IF j + e < 0 THEN j + e + n ELSE IF j + e >= n THEN j + e - n ELSE j + e
           Is(k) == LET d == IF i > k THEN i - k ELSE k - i IN IF d > h THEN 2 * h - d ELSE d
<1>1. h \in Nat /\ 2 * h = n /\ n \in Nat /\ h >= 2
  BY HalfARing DEF Ringlike
<1>2. \A e \in {-2, -1, 1, 2} : (j + e) % n = To(e)
  <2>1. n \in Nat \ {0} /\ \A e \in {-2, -1, 1, 2} : e \in -n..n
    BY <1>1
  <2> QED
    BY <2>1, Wrapped
<1>3. \A k : Apart(i, k, n) = Is(k)
  BY <1>1 DEF Apart, h
<1> HIDE DEF h
<1>4. \E e \in {-1, 1} : /\ Is(j) >= 1 => Is(To(e)) = Is(j) - 1
                         /\ Is(j) >= 2 => Is(To(2 * e)) = Is(j) - 2
                         /\ Is(j) = 0 => Is(To(e)) = 1
  <2>1. CASE (i > j /\ i - j <= h) \/ (j > i /\ j - i > h)
    <3>1. /\ Is(j) >= 1 => Is(To(1)) = Is(j) - 1
          /\ Is(j) >= 2 => Is(To(2)) = Is(j) - 2
          /\ Is(j) = 0 => Is(To(1)) = 1
      BY <1>1, <2>1
    <3> QED
      BY <3>1
  <2>2. CASE ~((i > j /\ i - j <= h) \/ (j > i /\ j - i > h))
    <3>1. /\ Is(j) >= 1 => Is(To(-1)) = Is(j) - 1
          /\ Is(j) >= 2 => Is(To(-2)) = Is(j) - 2
          /\ Is(j) = 0 => Is(To(-1)) = 1
      BY <1>1, <2>2
    <3> QED
      BY <3>1
  <2> QED
    BY <2>1, <2>2
<1> HIDE DEF To, Is
<1>5. PICK e \in {-1, 1} : /\ Is(j) >= 1 => Is(To(e)) = Is(j) - 1
                           /\ Is(j) >= 2 => Is(To(2 * e)) = Is(j) - 2
                           /\ Is(j) = 0 => Is(To(e)) = 1
  BY <1>4
<1>6. (j + e) % n = To(e) /\ (j + 2 * e) % n = To(2 * e)
  BY <1>2
<1> QED
  BY <1>3, <1>5, <1>6

-----------------------------------------------------------------------------
(* The map: a torus of hexes. *)

LEMMA WorldIsARing == Ringlike(WorldX) /\ Ringlike(WorldY) /\ WorldX >= 6
BY WorldAssumption DEF Ringlike

LEMMA Sector ==
    ASSUME NEW s
    PROVE  s \in Sectors <=> /\ s = <<s[1], s[2]>>
                             /\ s[1] \in 0..WorldX - 1 /\ s[2] \in 0..WorldY - 1
                             /\ (s[1] + s[2]) % 2 = 0
BY DEF Sectors

LEMMA Below ==
    ASSUME NEW n \in Nat
    PROVE  IsFiniteSet(0..n - 1) /\ Cardinality(0..n - 1) = n
<1>1. 0 \in Int /\ n - 1 \in Int
  OBVIOUS
<1>2. IsFiniteSet(0..n - 1) /\ Cardinality(0..n - 1) = (IF 0 > n - 1 THEN 0 ELSE n - 1 - 0 + 1)
  BY <1>1, FS_Interval
<1> QED
  BY <1>2

LEMMA UpTo ==
    ASSUME NEW n \in Nat
    PROVE  IsFiniteSet(1..n) /\ Cardinality(1..n) = n
<1>1. 1 \in Int /\ n \in Int
  OBVIOUS
<1>2. IsFiniteSet(1..n) /\ Cardinality(1..n) = (IF 1 > n THEN 0 ELSE n - 1 + 1)
  BY <1>1, FS_Interval
<1> QED
  BY <1>2

LEMMA SectorsFinite == IsFiniteSet(Sectors) /\ Cardinality(Sectors) <= WorldX * WorldY
<1>1. /\ IsFiniteSet(0..WorldX - 1) /\ Cardinality(0..WorldX - 1) = WorldX
      /\ IsFiniteSet(0..WorldY - 1) /\ Cardinality(0..WorldY - 1) = WorldY
  BY Below, WorldAssumption
<1>2. /\ IsFiniteSet((0..WorldX - 1) \X (0..WorldY - 1))
      /\ Cardinality((0..WorldX - 1) \X (0..WorldY - 1)) = WorldX * WorldY
  <2> DEFINE A == 0..WorldX - 1
             B == 0..WorldY - 1
  <2>1. /\ IsFiniteSet(A) /\ Cardinality(A) = WorldX
        /\ IsFiniteSet(B) /\ Cardinality(B) = WorldY
    BY <1>1
  <2> HIDE DEF A, B
  <2>2. IsFiniteSet(A \X B) /\ Cardinality(A \X B) = WorldX * WorldY
    BY <2>1, FS_Product
  <2> QED
    BY <2>2 DEF A, B
<1>3. Sectors \subseteq (0..WorldX - 1) \X (0..WorldY - 1)
  BY DEF Sectors
<1> QED
  BY <1>2, <1>3, FS_Subset

LEMMA Offsets ==
    /\ Directions = {1, 2, 3, 4, 5, 6}
    /\ DirOff[1][1] = 1 /\ DirOff[1][2] = -1
    /\ DirOff[2][1] = 2 /\ DirOff[2][2] = 0
    /\ DirOff[3][1] = 1 /\ DirOff[3][2] = 1
    /\ DirOff[4][1] = -1 /\ DirOff[4][2] = 1
    /\ DirOff[5][1] = -2 /\ DirOff[5][2] = 0
    /\ DirOff[6][1] = -1 /\ DirOff[6][2] = -1
BY DEF Directions, DirOff

LEMMA OffsetRange ==
    \A d \in Directions : /\ DirOff[d][1] \in -2..2 /\ DirOff[d][2] \in -1..1
                          /\ (DirOff[d][1] + DirOff[d][2]) % 2 = 0
<1>1. \A d \in {1, 2, 3, 4, 5, 6} : /\ DirOff[d][1] \in -2..2 /\ DirOff[d][2] \in -1..1
                                    /\ (DirOff[d][1] + DirOff[d][2]) % 2 = 0
  BY Offsets
<1> QED
  BY <1>1, Offsets

\* Whatever a sector is moved by, it is a sector, if the way is one of hexes.
LEMMA PlusSector ==
    ASSUME NEW s \in Sectors, NEW dx \in -WorldX..WorldX, NEW dy \in -WorldY..WorldY,
           (dx + dy) % 2 = 0
    PROVE  Plus(s, dx, dy) \in Sectors
<1>1. /\ s[1] \in 0..WorldX - 1 /\ s[2] \in 0..WorldY - 1 /\ (s[1] + s[2]) % 2 = 0
      /\ WorldX \in Nat \ {0} /\ WorldX % 2 = 0 /\ WorldY \in Nat \ {0} /\ WorldY % 2 = 0
  BY Sector, WorldAssumption
<1> DEFINE x == s[1]
           y == s[2]
           u == (x + dx) % WorldX
           v == (y + dy) % WorldY
<1>2. u = IF x + dx < 0 THEN x + dx + WorldX ELSE IF x + dx >= WorldX THEN x + dx - WorldX ELSE x + dx
  BY <1>1, Wrapped
<1>3. v = IF y + dy < 0 THEN y + dy + WorldY ELSE IF y + dy >= WorldY THEN y + dy - WorldY ELSE y + dy
  BY <1>1, Wrapped
<1>4. Plus(s, dx, dy) = <<u, v>>
  BY DEF Plus
<1>5. x \in 0..WorldX - 1 /\ y \in 0..WorldY - 1 /\ (x + y) % 2 = 0
  BY <1>1
<1> HIDE DEF x, y, u, v
<1>6. u \in 0..WorldX - 1 /\ v \in 0..WorldY - 1
  BY <1>1, <1>2, <1>3, <1>5
<1>7. (u + v) % 2 = 0
  BY <1>1, <1>2, <1>3, <1>5
<1> QED
  BY <1>4, <1>6, <1>7, Sector

LEMMA StepSector ==
    ASSUME NEW s \in Sectors, NEW d \in Directions
    PROVE  Step(s, d) \in Sectors
<1>1. /\ DirOff[d][1] \in -WorldX..WorldX /\ DirOff[d][2] \in -WorldY..WorldY
      /\ (DirOff[d][1] + DirOff[d][2]) % 2 = 0
  <2> DEFINE a == DirOff[d][1]
             b == DirOff[d][2]
  <2>1. a \in -2..2 /\ b \in -1..1 /\ (a + b) % 2 = 0
    BY OffsetRange
  <2> HIDE DEF a, b
  <2>2. a \in -WorldX..WorldX /\ b \in -WorldY..WorldY
    BY <2>1, WorldAssumption
  <2> QED
    BY <2>1, <2>2 DEF a, b
<1> QED
  BY <1>1, PlusSector DEF Step

\* One step on, and one step back.
LEMMA StepBack ==
    ASSUME NEW s \in Sectors, NEW d \in Directions
    PROVE  DirBack(d) \in Directions /\ Step(Step(s, d), DirBack(d)) = s
<1>1. /\ s = <<s[1], s[2]>> /\ s[1] \in 0..WorldX - 1 /\ s[2] \in 0..WorldY - 1
  BY Sector
<1>2. /\ WorldX \in Nat \ {0} /\ WorldX >= 6 /\ WorldY \in Nat \ {0} /\ WorldY >= 4
  BY WorldAssumption
<1>3. /\ DirBack(d) \in Directions
      /\ DirOff[DirBack(d)][1] = -DirOff[d][1] /\ DirOff[DirBack(d)][2] = -DirOff[d][2]
  <2>1. \A e \in {1, 2, 3, 4, 5, 6} : /\ DirBack(e) \in {1, 2, 3, 4, 5, 6}
                                      /\ DirOff[DirBack(e)][1] = -DirOff[e][1]
                                      /\ DirOff[DirBack(e)][2] = -DirOff[e][2]
    BY Offsets DEF DirBack
  <2> QED
    BY <2>1, Offsets
<1> DEFINE x == s[1]
           y == s[2]
           dx == DirOff[d][1]
           dy == DirOff[d][2]
           u == (x + dx) % WorldX
           v == (y + dy) % WorldY
<1>4. dx \in -2..2 /\ dy \in -1..1
  BY OffsetRange
<1>5. Step(s, d) = <<u, v>>
  BY DEF Step, Plus
<1>6. Step(Step(s, d), DirBack(d)) = <<(u + (-dx)) % WorldX, (v + (-dy)) % WorldY>>
  BY <1>3, <1>5 DEF Step, Plus
<1>7. u = IF x + dx < 0 THEN x + dx + WorldX ELSE IF x + dx >= WorldX THEN x + dx - WorldX ELSE x + dx
  <2>1. dx \in -WorldX..WorldX
    BY <1>2, <1>4
  <2> QED
    BY <1>1, <1>2, <2>1, Wrapped
<1>8. v = IF y + dy < 0 THEN y + dy + WorldY ELSE IF y + dy >= WorldY THEN y + dy - WorldY ELSE y + dy
  <2>1. dy \in -WorldY..WorldY
    BY <1>2, <1>4
  <2> QED
    BY <1>1, <1>2, <2>1, Wrapped
<1>9. x \in 0..WorldX - 1 /\ y \in 0..WorldY - 1 /\ s = <<x, y>>
  BY <1>1
<1> HIDE DEF x, y, dx, dy, u, v
<1>10. /\ u \in 0..WorldX - 1 /\ v \in 0..WorldY - 1
       /\ -dx \in -WorldX..WorldX /\ -dy \in -WorldY..WorldY
  BY <1>2, <1>4, <1>7, <1>8, <1>9
<1>11. /\ (u + (-dx)) % WorldX = IF u + (-dx) < 0 THEN u + (-dx) + WorldX
                                 ELSE IF u + (-dx) >= WorldX THEN u + (-dx) - WorldX ELSE u + (-dx)
       /\ (v + (-dy)) % WorldY = IF v + (-dy) < 0 THEN v + (-dy) + WorldY
                                 ELSE IF v + (-dy) >= WorldY THEN v + (-dy) - WorldY ELSE v + (-dy)
  BY <1>2, <1>10, Wrapped
<1>12. (u + (-dx)) % WorldX = x
  BY <1>2, <1>4, <1>7, <1>9, <1>11
<1>13. (v + (-dy)) % WorldY = y
  BY <1>2, <1>4, <1>8, <1>9, <1>11
<1> QED
  BY <1>3, <1>6, <1>9, <1>12, <1>13

LEMMA BackAndForth ==
    ASSUME NEW d \in Directions
    PROVE  DirBack(d) \in Directions /\ DirBack(DirBack(d)) = d
BY DEF Directions, DirBack

\* The six neighbours are different, and none is the sector itself.
LEMMA StepsDiffer ==
    ASSUME NEW s \in Sectors, NEW d \in Directions, NEW e \in Directions
    PROVE  /\ Step(s, d) = Step(s, e) => d = e
           /\ Step(s, d) # s
<1>1. /\ s = <<s[1], s[2]>> /\ s[1] \in 0..WorldX - 1 /\ s[2] \in 0..WorldY - 1
  BY Sector
<1>2. /\ WorldX \in Nat \ {0} /\ WorldX >= 6 /\ WorldY \in Nat \ {0} /\ WorldY >= 4
  BY WorldAssumption
<1> DEFINE x == s[1]
           y == s[2]
           X(a) == IF x + a < 0 THEN x + a + WorldX ELSE IF x + a >= WorldX THEN x + a - WorldX ELSE x + a
           Y(a) == IF y + a < 0 THEN y + a + WorldY ELSE IF y + a >= WorldY THEN y + a - WorldY ELSE y + a
<1>3. \A a \in -2..2 : (x + a) % WorldX = X(a)
  <2>1. \A a \in -2..2 : a \in -WorldX..WorldX
    BY <1>2
  <2> QED
    BY <1>1, <1>2, <2>1, Wrapped
<1>4. \A a \in -1..1 : (y + a) % WorldY = Y(a)
  <2>1. \A a \in -1..1 : a \in -WorldY..WorldY
    BY <1>2
  <2> QED
    BY <1>1, <1>2, <2>1, Wrapped
<1>5. x \in 0..WorldX - 1 /\ y \in 0..WorldY - 1 /\ s = <<x, y>>
  BY <1>1
<1>6. \A a \in {1, 2, 3, 4, 5, 6} : Step(s, a) = <<X(DirOff[a][1]), Y(DirOff[a][2])>>
  <2>1. \A a \in Directions : Step(s, a) = <<(x + DirOff[a][1]) % WorldX, (y + DirOff[a][2]) % WorldY>>
    BY DEF Step, Plus
  <2> HIDE DEF x, y, X, Y
  <2> QED
    BY <1>3, <1>4, <2>1, OffsetRange, Offsets
<1> HIDE DEF x, y
<1>7. \A a, b \in -2..2 : X(a) = X(b) => a = b
  BY <1>2, <1>5
<1>8. \A a, b \in -1..1 : Y(a) = Y(b) => a = b
  BY <1>2, <1>5
<1>9. X(0) = x /\ Y(0) = y
  BY <1>2, <1>5
<1> HIDE DEF X, Y
<1>10. Step(s, d) = Step(s, e) => DirOff[d][1] = DirOff[e][1] /\ DirOff[d][2] = DirOff[e][2]
  BY <1>6, <1>7, <1>8, OffsetRange, Offsets
<1>11. Step(s, d) = s => DirOff[d][1] = 0 /\ DirOff[d][2] = 0
  <2>1. 0 \in -2..2 /\ 0 \in -1..1
    OBVIOUS
  <2> QED
    BY <1>5, <1>6, <1>7, <1>8, <1>9, <2>1, OffsetRange, Offsets
<1>12. d \in {1, 2, 3, 4, 5, 6} /\ e \in {1, 2, 3, 4, 5, 6}
  BY Offsets
<1> QED
  BY <1>10, <1>11, <1>12, Offsets

-----------------------------------------------------------------------------
(* Distances on the map. *)

Hex(dx, dy) == IF dx > dy THEN (dx - dy) \div 2 + dy ELSE dy

\* The greater of dy and half the sum, which is whole.
LEMMA HexIs ==
    ASSUME NEW dx \in Nat, NEW dy \in Nat, (dx + dy) % 2 = 0
    PROVE  /\ Hex(dx, dy) \in Nat
           /\ dy <= Hex(dx, dy) /\ dx + dy <= 2 * Hex(dx, dy)
           /\ Hex(dx, dy) = dy \/ 2 * Hex(dx, dy) = dx + dy
BY DEF Hex

LEMMA MapDistIs ==
    ASSUME NEW s \in Sectors, NEW t \in Sectors
    PROVE  /\ MapDist(s, t) = Hex(Apart(s[1], t[1], WorldX), Apart(s[2], t[2], WorldY))
           /\ Apart(s[1], t[1], WorldX) \in Nat /\ Apart(s[2], t[2], WorldY) \in Nat
           /\ (Apart(s[1], t[1], WorldX) + Apart(s[2], t[2], WorldY)) % 2 = 0
<1>1. /\ s[1] \in 0..WorldX - 1 /\ s[2] \in 0..WorldY - 1 /\ (s[1] + s[2]) % 2 = 0
      /\ t[1] \in 0..WorldX - 1 /\ t[2] \in 0..WorldY - 1 /\ (t[1] + t[2]) % 2 = 0
  BY Sector
<1> DEFINE a == Apart(s[1], t[1], WorldX)
           b == Apart(s[2], t[2], WorldY)
<1>2. a \in Nat /\ b \in Nat /\ (a + s[1] + t[1]) % 2 = 0 /\ (b + s[2] + t[2]) % 2 = 0
  <2>1. \A i, j \in 0..WorldX - 1 : /\ Apart(i, j, WorldX) \in Nat
                                    /\ (Apart(i, j, WorldX) + i + j) % 2 = 0
    BY ApartRange, WorldIsARing
  <2>2. \A i, j \in 0..WorldY - 1 : /\ Apart(i, j, WorldY) \in Nat
                                    /\ (Apart(i, j, WorldY) + i + j) % 2 = 0
    BY ApartRange, WorldIsARing
  <2> QED
    BY <1>1, <2>1, <2>2
<1>3. MapDist(s, t) = Hex(a, b)
  BY DEF MapDist, Hex
<1> HIDE DEF a, b
<1>4. s[1] \in Int /\ s[2] \in Int /\ t[1] \in Int /\ t[2] \in Int
  BY <1>1
<1>5. (a + b) % 2 = 0
  BY <1>1, <1>2, <1>4
<1> QED
  BY <1>2, <1>3, <1>5 DEF a, b

LEMMA Distances ==
    ASSUME NEW s \in Sectors, NEW t \in Sectors
    PROVE  /\ MapDist(s, t) \in Nat
           /\ MapDist(s, t) = MapDist(t, s)
           /\ MapDist(s, t) = 0 <=> s = t
           /\ MapDist(s, t) < Far
<1>1. /\ s = <<s[1], s[2]>> /\ s[1] \in 0..WorldX - 1 /\ s[2] \in 0..WorldY - 1
      /\ t = <<t[1], t[2]>> /\ t[1] \in 0..WorldX - 1 /\ t[2] \in 0..WorldY - 1
  BY Sector
<1> DEFINE a == Apart(s[1], t[1], WorldX)
           b == Apart(s[2], t[2], WorldY)
           m == MapDist(s, t)
<1>2. a \in Nat /\ b \in Nat /\ m = Hex(a, b) /\ (a + b) % 2 = 0
  BY MapDistIs
<1>3. /\ 2 * a <= WorldX /\ 2 * b <= WorldY
      /\ a = 0 <=> s[1] = t[1]
      /\ b = 0 <=> s[2] = t[2]
      /\ a = Apart(t[1], s[1], WorldX) /\ b = Apart(t[2], s[2], WorldY)
  BY <1>1, ApartRange, WorldIsARing
<1>4. m = MapDist(t, s)
  BY <1>2, <1>3, MapDistIs
<1>5. m \in Nat /\ b <= m /\ a + b <= 2 * m /\ (m = b \/ 2 * m = a + b)
  BY <1>2, HexIs
<1>6. m = 0 <=> s = t
  <2>1. m = 0 <=> a = 0 /\ b = 0
    <3> HIDE DEF a, b, m
    <3> QED
      BY <1>2, <1>5
  <2> QED
    BY <1>1, <1>3, <2>1
<1>7. m < Far
  <2>1. 4 * m <= WorldX + 2 * WorldY
    <3> HIDE DEF a, b, m
    <3> QED
      BY <1>2, <1>3, <1>5, WorldAssumption
  <2>2. WorldX * 4 <= WorldX * WorldY /\ 6 * WorldY <= WorldX * WorldY
    BY WorldAssumption
  <2>3. WorldX \in Nat /\ WorldX >= 6 /\ WorldY \in Nat /\ WorldY >= 4 /\ WorldX * WorldY \in Nat
    BY WorldAssumption
  <2> HIDE DEF m
  <2>4. m \in Nat
    BY <1>5
  <2> QED
    BY <2>1, <2>2, <2>3, <2>4 DEF Far
<1> QED
  BY <1>4, <1>5, <1>6, <1>7

\* A step changes no distance by more than one.
LEMMA DistanceOfStep ==
    ASSUME NEW s \in Sectors, NEW t \in Sectors, NEW d \in Directions
    PROVE  MapDist(s, Step(t, d)) <= MapDist(s, t) + 1
<1>1. /\ s[1] \in 0..WorldX - 1 /\ s[2] \in 0..WorldY - 1
      /\ t[1] \in 0..WorldX - 1 /\ t[2] \in 0..WorldY - 1
  BY Sector
<1> DEFINE u == Step(t, d)
           dx == DirOff[d][1]
           dy == DirOff[d][2]
           a == Apart(s[1], t[1], WorldX)
           b == Apart(s[2], t[2], WorldY)
           c == Apart(s[1], u[1], WorldX)
           e == Apart(s[2], u[2], WorldY)
           m == MapDist(s, t)
           k == MapDist(s, u)
<1>2. u[1] = (t[1] + dx) % WorldX /\ u[2] = (t[2] + dy) % WorldY
  BY DEF Step, Plus
<1>3. dx \in -2..2 /\ dy \in -1..1 /\ (dx \in {-2, 2} => dy = 0) /\ (dx \in {-1, 1} => dy \in {-1, 1})
      /\ dx # 0
  <2>1. \A f \in {1, 2, 3, 4, 5, 6} : LET x == DirOff[f][1]
                                          y == DirOff[f][2]
                                      IN  /\ x \in -2..2 /\ y \in -1..1 /\ (x \in {-2, 2} => y = 0)
                                          /\ (x \in {-1, 1} => y \in {-1, 1}) /\ x # 0
    BY Offsets
  <2> QED
    BY <2>1, Offsets
<1>4. c <= a + (IF dx < 0 THEN -dx ELSE dx) /\ e <= b + (IF dy < 0 THEN -dy ELSE dy)
  <2> HIDE DEF dx, dy, u
  <2>1. dy \in -2..2
    BY <1>3
  <2> QED
    BY <1>1, <1>2, <1>3, <2>1, ApartSteps, WorldIsARing
<1>5. a \in Nat /\ b \in Nat /\ m = Hex(a, b) /\ (a + b) % 2 = 0
  BY MapDistIs
<1>6. c \in Nat /\ e \in Nat /\ k = Hex(c, e) /\ (c + e) % 2 = 0
  <2>1. u \in Sectors
    BY StepSector
  <2> HIDE DEF u
  <2> QED
    BY <2>1, MapDistIs
<1> HIDE DEF u, dx, dy, a, b, c, e, m, k
<1>7. m \in Nat /\ b <= m /\ a + b <= 2 * m
  BY <1>5, HexIs
<1>8. k \in Nat /\ (k = e \/ 2 * k = c + e)
  BY <1>6, HexIs
<1>9. k <= m + 1
  BY <1>3, <1>4, <1>5, <1>6, <1>7, <1>8
<1> QED
  BY <1>9 DEF k, m, u

\* From anywhere there is a step towards a sector.
LEMMA StepNearer ==
    ASSUME NEW s \in Sectors, NEW t \in Sectors, s # t
    PROVE  \E d \in Directions : MapDist(s, Step(t, d)) = MapDist(s, t) - 1
<1>1. /\ s[1] \in 0..WorldX - 1 /\ s[2] \in 0..WorldY - 1
      /\ t[1] \in 0..WorldX - 1 /\ t[2] \in 0..WorldY - 1
  BY Sector
<1> DEFINE a == Apart(s[1], t[1], WorldX)
           b == Apart(s[2], t[2], WorldY)
           m == MapDist(s, t)
           A(x) == Apart(s[1], (t[1] + x) % WorldX, WorldX)
           B(y) == Apart(s[2], (t[2] + y) % WorldY, WorldY)
           D(d) == MapDist(s, Step(t, d))
<1>2. a \in Nat /\ b \in Nat /\ m = Hex(a, b) /\ (a + b) % 2 = 0
  BY MapDistIs
<1>3. m \in Nat /\ m > 0 /\ b <= m /\ a + b <= 2 * m /\ (m = b \/ 2 * m = a + b)
  <2>1. m # 0
    BY Distances
  <2> HIDE DEF m, a, b
  <2>2. m \in Nat /\ b <= m /\ a + b <= 2 * m /\ (m = b \/ 2 * m = a + b)
    BY <1>2, HexIs
  <2> QED
    BY <2>1, <2>2
<1>4. PICK x \in {-1, 1} : /\ a >= 1 => A(x) = a - 1
                           /\ a >= 2 => A(2 * x) = a - 2
                           /\ a = 0 => A(x) = 1
  BY <1>1, ApartNearer, WorldIsARing
<1>5. PICK y \in {-1, 1} : b >= 1 => B(y) = b - 1
  BY <1>1, ApartNearer, WorldIsARing
<1>6. B(0) = b
  <2>1. t[2] + 0 = t[2] /\ t[2] % WorldY = t[2]
    <3>1. 0 \in -WorldY..WorldY /\ WorldY \in Nat \ {0}
      BY WorldAssumption
    <3>2. (t[2] + 0) % WorldY = t[2]
      BY <1>1, <3>1, Wrapped
    <3> QED
      BY <1>1, <3>2
  <2> QED
    BY <2>1
<1>7. \A d \in Directions : LET c == A(DirOff[d][1])
                                e == B(DirOff[d][2])
                            IN  c \in Nat /\ e \in Nat /\ D(d) = Hex(c, e) /\ (c + e) % 2 = 0
  <2> SUFFICES ASSUME NEW d \in Directions
               PROVE  LET c == A(DirOff[d][1])
                          e == B(DirOff[d][2])
                      IN  c \in Nat /\ e \in Nat /\ D(d) = Hex(c, e) /\ (c + e) % 2 = 0
    OBVIOUS
  <2>1. Step(t, d) \in Sectors
    BY StepSector
  <2>2. /\ Step(t, d)[1] = (t[1] + DirOff[d][1]) % WorldX
        /\ Step(t, d)[2] = (t[2] + DirOff[d][2]) % WorldY
    BY DEF Step, Plus
  <2>3. LET c == Apart(s[1], Step(t, d)[1], WorldX)
            e == Apart(s[2], Step(t, d)[2], WorldY)
        IN  c \in Nat /\ e \in Nat /\ D(d) = Hex(c, e) /\ (c + e) % 2 = 0
    BY <2>1, MapDistIs
  <2> QED
    BY <2>2, <2>3
<1> HIDE DEF a, b, m, A, B, D
<1>8. CASE b = 0
  <2>1. a >= 2 /\ 2 * m = a
    BY <1>2, <1>3, <1>8
  <2>2. PICK d \in Directions : DirOff[d][1] = 2 * x /\ DirOff[d][2] = 0
    BY Offsets
  <2>3. A(2 * x) = a - 2
    BY <1>4, <2>1
  <2>4. D(d) = Hex(a - 2, 0)
    BY <1>6, <1>7, <1>8, <2>2, <2>3
  <2>5. D(d) = m - 1
    BY <1>2, <2>1, <2>4 DEF Hex
  <2> QED
    BY <2>5 DEF D, m
<1>9. CASE b >= 1
  <2>1. PICK d \in Directions : DirOff[d][1] = x /\ DirOff[d][2] = y
    BY Offsets
  <2>2. D(d) = Hex(A(x), b - 1) /\ (A(x) + (b - 1)) % 2 = 0
    BY <1>5, <1>7, <1>9, <2>1
  <2>3. A(x) \in Nat /\ b - 1 \in Nat /\ (a = 0 => A(x) = 1) /\ (a > 0 => A(x) = a - 1)
    BY <1>2, <1>4, <1>9
  <2> DEFINE c == A(x)
             k == D(d)
  <2> HIDE DEF c, k
  <2>4. k \in Nat /\ b - 1 <= k /\ c + (b - 1) <= 2 * k /\ (k = b - 1 \/ 2 * k = c + (b - 1))
    BY <2>2, <2>3, HexIs DEF c, k
  <2>5. (a = 0 => c = 1) /\ (a > 0 => c = a - 1)
    BY <2>3 DEF c
  <2>6. k = m - 1
    BY <1>2, <1>3, <1>9, <2>4, <2>5
  <2> QED
    BY <2>6 DEF k, D, m
<1> QED
  BY <1>2, <1>8, <1>9

LEMMA Neighbours ==
    ASSUME NEW s \in Sectors, NEW t
    PROVE  /\ t \in Around(s) <=> \E d \in Directions : t = Step(s, d)
           /\ t \in Around(s) => t \in Sectors /\ s \in Around(t) /\ MapDist(s, t) = 1
<1>1. t \in Around(s) <=> \E d \in Directions : t = Step(s, d)
  BY DEF Around
<1>2. ASSUME NEW d \in Directions, t = Step(s, d)
      PROVE  t \in Sectors /\ s \in Around(t) /\ MapDist(s, t) = 1
  <2>1. t \in Sectors
    BY <1>2, StepSector
  <2>2. s \in Around(t)
    BY <1>2, StepBack DEF Around
  <2>3. MapDist(s, t) <= MapDist(s, s) + 1 /\ MapDist(s, s) = 0
    BY <1>2, DistanceOfStep, Distances
  <2>4. t # s
    BY <1>2, StepsDiffer
  <2>5. MapDist(s, t) \in Nat /\ MapDist(s, t) # 0
    BY <2>1, <2>4, Distances
  <2>6. MapDist(s, t) = 1
    BY <2>3, <2>5
  <2> QED
    BY <2>1, <2>2, <2>6
<1> QED
  BY <1>1, <1>2

\* The same two facts about the sectors around one.
LEMMA NeighbourDistance ==
    ASSUME NEW s \in Sectors, NEW t \in Sectors, NEW u \in Around(t)
    PROVE  MapDist(u, s) <= MapDist(t, s) + 1
BY DistanceOfStep, Distances, Neighbours

LEMMA NearerNeighbour ==
    ASSUME NEW s \in Sectors, NEW t \in Sectors, s # t
    PROVE  \E u \in Around(t) : u \in Sectors /\ MapDist(u, s) = MapDist(t, s) - 1
<1>1. PICK d \in Directions : MapDist(s, Step(t, d)) = MapDist(s, t) - 1
  BY StepNearer
<1>2. Step(t, d) \in Around(t) /\ Step(t, d) \in Sectors
  BY StepSector DEF Around
<1> QED
  BY <1>1, <1>2, Distances

-----------------------------------------------------------------------------
(* Least numbers, and sets put in order. *)

LEMMA LeastExists ==
    ASSUME NEW S, S \subseteq Nat, S # {}
    PROVE  Min(S) \in S /\ \A y \in S : Min(S) <= y
<1>1. PICK x \in S : \A y \in S : ~(<<y, x>> \in OpToRel(<, Nat))
  BY NatLessThanWellFounded, WFMin
<1>2. \A y \in S : ~(y < x)
  BY <1>1 DEF OpToRel
<1>3. \A y \in S : x <= y
  <2>1. \A y \in S : y \in Nat
    OBVIOUS
  <2> QED
    BY <1>2, <2>1
<1> QED
  BY <1>3 DEF Min

\* A subset of a finite set that leaves something out is smaller.
LEMMA Fewer ==
    ASSUME NEW S, IsFiniteSet(S), NEW T, T \subseteq S, NEW x \in S, x \notin T
    PROVE  Cardinality(T) \in Nat /\ Cardinality(S) \in Nat /\ Cardinality(T) < Cardinality(S)
<1>1. IsFiniteSet(T) /\ Cardinality(T) <= Cardinality(S) /\ Cardinality(S) # Cardinality(T)
  BY FS_Subset
<1> QED
  BY <1>1, FS_CardinalityType

\* The pairs put the elements of S one after another.
Orders(pairs, S) ==
    /\ \A s \in S : <<s, s>> \notin pairs
    /\ \A s, t \in S : s # t => <<s, t>> \in pairs \/ <<t, s>> \in pairs
    /\ \A s, t, u \in S : <<s, t>> \in pairs /\ <<t, u>> \in pairs => <<s, u>> \in pairs

RankIn(S, pairs, s) == Cardinality({t \in S : <<t, s>> \in pairs})

\* Ranks count from 0, grow, and are all taken.
LEMMA Ranks ==
    ASSUME NEW S, IsFiniteSet(S), NEW pairs, Orders(pairs, S)
    PROVE  /\ \A s \in S : RankIn(S, pairs, s) \in 0..Cardinality(S) - 1
           /\ \A s, t \in S : RankIn(S, pairs, s) < RankIn(S, pairs, t) <=> <<s, t>> \in pairs
           /\ \A s, t \in S : RankIn(S, pairs, s) = RankIn(S, pairs, t) => s = t
           /\ \A i \in 0..Cardinality(S) - 1 : \E s \in S : RankIn(S, pairs, s) = i
<1> DEFINE n == Cardinality(S)
           below(s) == {t \in S : <<t, s>> \in pairs}
           rank(s) == RankIn(S, pairs, s)
<1>1. n \in Nat
  BY FS_CardinalityType
<1>2. \A s \in S : rank(s) \in 0..n - 1
  <2> SUFFICES ASSUME NEW s \in S
               PROVE  rank(s) \in 0..n - 1
    OBVIOUS
  <2>1. below(s) \subseteq S /\ s \notin below(s)
    BY DEF Orders
  <2> HIDE DEF below
  <2>2. Cardinality(below(s)) \in Nat /\ Cardinality(below(s)) < n
    BY <2>1, Fewer
  <2>3. rank(s) = Cardinality(below(s))
    BY DEF RankIn, below
  <2> QED
    BY <1>1, <2>2, <2>3
<1>3. ASSUME NEW s \in S, NEW t \in S, <<s, t>> \in pairs
      PROVE  rank(s) < rank(t)
  <2>1. below(s) \subseteq below(t) /\ s \in below(t) /\ s \notin below(s)
    BY <1>3 DEF Orders
  <2>2. IsFiniteSet(below(t))
    <3>1. below(t) \subseteq S
      OBVIOUS
    <3> HIDE DEF below
    <3> QED
      BY <3>1, FS_Subset
  <2>3. rank(s) = Cardinality(below(s)) /\ rank(t) = Cardinality(below(t))
    BY DEF RankIn
  <2> HIDE DEF below
  <2> QED
    BY <2>1, <2>2, <2>3, Fewer
<1> DEFINE f == [s \in S |-> rank(s)]
<1> HIDE DEF rank
<1>4. \A s, t \in S : rank(s) = rank(t) => s = t
  <2> SUFFICES ASSUME NEW s \in S, NEW t \in S, rank(s) = rank(t), s # t
               PROVE  FALSE
    OBVIOUS
  <2>1. rank(s) < rank(t) \/ rank(t) < rank(s)
    BY <1>3 DEF Orders
  <2> QED
    BY <1>1, <1>2, <2>1
<1>5. \A s, t \in S : rank(s) < rank(t) => <<s, t>> \in pairs
  <2> SUFFICES ASSUME NEW s \in S, NEW t \in S, rank(s) < rank(t), <<s, t>> \notin pairs
               PROVE  FALSE
    OBVIOUS
  <2>1. s = t \/ <<t, s>> \in pairs
    BY DEF Orders
  <2>2. rank(t) <= rank(s)
    BY <1>1, <1>2, <1>3, <2>1
  <2> QED
    BY <1>1, <1>2, <2>2
<1>6. f \in Injection(S, 0..n - 1)
  BY <1>2, <1>4 DEF Injection, IsInjective
<1>7. IsFiniteSet(0..n - 1) /\ Cardinality(0..n - 1) = n
  BY <1>1, Below
<1>8. f \in Surjection(S, 0..n - 1)
  <2> DEFINE T == 0..n - 1
  <2>1. IsFiniteSet(T) /\ Cardinality(T) = Cardinality(S) /\ f \in Injection(S, T)
    BY <1>6, <1>7
  <2> HIDE DEF T, f
  <2>2. f \in Surjection(S, T)
    BY <2>1, FS_Injection
  <2> QED
    BY <2>2 DEF T
<1>9. \A i \in 0..n - 1 : \E s \in S : rank(s) = i
  BY <1>8 DEF Surjection
<1> QED
  BY <1>2, <1>3, <1>4, <1>5, <1>9 DEF rank

\* What InOrder gives: every element of S once, each before those after it.
LEMMA Ordered ==
    ASSUME NEW S, IsFiniteSet(S), NEW pairs, Orders(pairs, S)
    PROVE  /\ Cardinality(S) \in Nat
           /\ InOrder(S, pairs) \in [1..Cardinality(S) -> S]
           /\ \A s \in S : \E i \in 1..Cardinality(S) : InOrder(S, pairs)[i] = s
           /\ \A i, j \in 1..Cardinality(S) : InOrder(S, pairs)[i] = InOrder(S, pairs)[j] => i = j
           /\ \A i, j \in 1..Cardinality(S) :
                i < j => <<InOrder(S, pairs)[i], InOrder(S, pairs)[j]>> \in pairs
<1> DEFINE n == Cardinality(S)
           rank(s) == RankIn(S, pairs, s)
           Nth(i) == CHOOSE s \in S : rank(s) = i - 1
           q == InOrder(S, pairs)
<1>1. n \in Nat
  BY FS_CardinalityType
<1>2. q = [i \in 1..n |-> Nth(i)]
  BY DEF InOrder, RankIn
<1>3. /\ \A s \in S : rank(s) \in 0..n - 1
      /\ \A s, t \in S : rank(s) < rank(t) <=> <<s, t>> \in pairs
      /\ \A s, t \in S : rank(s) = rank(t) => s = t
      /\ \A i \in 0..n - 1 : \E s \in S : rank(s) = i
  BY Ranks
<1> HIDE DEF n, rank, q
<1>4. \A i \in 1..n : Nth(i) \in S /\ rank(Nth(i)) = i - 1
  <2> SUFFICES ASSUME NEW i \in 1..n
               PROVE  Nth(i) \in S /\ rank(Nth(i)) = i - 1
    OBVIOUS
  <2>1. i - 1 \in 0..n - 1
    BY <1>1
  <2>2. \E s \in S : rank(s) = i - 1
    BY <1>3, <2>1
  <2> QED
    BY <2>2
<1>5. \A i \in 1..n : q[i] \in S /\ rank(q[i]) = i - 1
  BY <1>2, <1>4
<1> HIDE DEF Nth
<1>6. q \in [1..n -> S]
  BY <1>2, <1>4
<1>7. \A s \in S : \E i \in 1..n : q[i] = s
  <2> SUFFICES ASSUME NEW s \in S
               PROVE  \E i \in 1..n : q[i] = s
    OBVIOUS
  <2>1. rank(s) + 1 \in 1..n
    BY <1>1, <1>3
  <2>2. rank(q[rank(s) + 1]) = rank(s) /\ q[rank(s) + 1] \in S
    BY <1>3, <1>5, <2>1
  <2> QED
    BY <1>3, <2>1, <2>2
<1>8. \A i, j \in 1..n : (q[i] = q[j] => i = j) /\ (i < j => <<q[i], q[j]>> \in pairs)
  <2> SUFFICES ASSUME NEW i \in 1..n, NEW j \in 1..n
               PROVE  (q[i] = q[j] => i = j) /\ (i < j => <<q[i], q[j]>> \in pairs)
    OBVIOUS
  <2>1. q[i] \in S /\ rank(q[i]) = i - 1 /\ q[j] \in S /\ rank(q[j]) = j - 1
    BY <1>5
  <2>2. q[i] = q[j] => i = j
    BY <1>1, <2>1
  <2>3. i < j => rank(q[i]) < rank(q[j])
    BY <1>1, <2>1
  <2> QED
    BY <1>3, <2>1, <2>2, <2>3
<1>9. \A i, j \in 1..n : q[i] = q[j] => i = j
  BY <1>8, Zenon
<1>10. \A i, j \in 1..n : i < j => <<q[i], q[j]>> \in pairs
  BY <1>8, Zenon
<1> QED
  BY <1>1, <1>6, <1>7, <1>9, <1>10 DEF n, q

-----------------------------------------------------------------------------
(* The invariant. *)

Running == {"drift"} \cup Grown
Group(i) == args.nc + i * args.nc

Typed ==
    /\ cap \in [Continents -> Sectors]
    /\ own \in [Sectors -> Islands \cup {Sea}]
    /\ xzone \in [Sectors -> Int]
    /\ sect \in [Islands -> Seq(Sectors)]
    /\ closest \in [Sectors -> -1..args.nc + args.ni - 1]
    /\ distance \in [Sectors -> 0..Far]
    /\ bfs \in Seq(Sectors)
    /\ isiz \in Seq(Nat \ {0})
    /\ turn \in 0..args.nc /\ group \in Nat /\ secs \in Nat
    /\ done \in BOOLEAN /\ carry \in Int
    /\ elev \in [Sectors -> Int] /\ odd \in Int
WellTyped ==
    /\ args \in Arguments /\ try \in 0..NumTries - 1
    /\ phase \in Grown \cup {"started", "refused", "drift", "failed"}
    /\ phase \notin {"started", "refused"} => ValidateArgs(args)
    /\ phase \in Running => Typed

\* What is known of neighbours, of owners and of the lists is the same.
Mapped ==
    /\ adjLand = [s \in Sectors |-> {d \in Directions : IsLand(Step(s, d))}]
    /\ \A s \in Sectors : IsLand(s) => s \in SectorsOf(own[s])
    /\ \A c \in Islands : /\ \A k \in 1..Len(sect[c]) : own[sect[c][k]] = c
                          /\ \A k, l \in 1..Len(sect[c]) : sect[c][k] = sect[c][l] => k = l
Land == phase \in Running => Mapped

\* How far the loops have come, and how many sectors everybody has by then.
Grew(c) == IF c < turn THEN 1 ELSE 0
ContinentSizes ==
    \A c \in Continents : Len(sect[c]) =
        CASE phase = "drift" -> 0
          [] phase = "continents" -> IF secs = 0 THEN 2 * Grew(c) ELSE secs + Grew(c)
          [] OTHER -> args.sc
GroupsDone ==
    /\ \A i \in 0..group - 1 : \A j \in 0..args.nc - 1 :
         /\ Len(sect[Group(i) + j]) = Len(sect[Group(i)])
         /\ Len(sect[Group(i)]) \in 1..2 * args.is
    /\ \A i \in (IF phase = "islands" THEN group + 1 ELSE group)..args.ni \div args.nc - 1 :
         \A j \in 0..args.nc - 1 : Len(sect[Group(i) + j]) = 0
GroupGrowing ==
    phase = "islands" =>
      /\ group < Len(isiz) /\ secs <= IslandSize
      /\ turn > 0 => secs < IslandSize
      /\ ~done => secs >= (IF turn = 0 THEN 2 ELSE 1)
      /\ \A j \in 0..args.nc - 1 :
           LET n == Len(sect[Group(group) + j])
           IN  IF done THEN n = secs + Grew(j)
               ELSE IF turn = 0 THEN n \in {secs - 1, secs}
               ELSE IF j < turn THEN n \in {secs, secs + 1} ELSE n = secs
Carried == SumFunctionOnSet([i \in 0..group - 1 |-> isiz[i + 1] - Len(sect[Group(i)])], 0..group - 1)
CarryKept ==
    /\ carry >= 0
    /\ phase = "islands" => carry >= 1
    /\ phase \in Grown => carry = IF phase = "islands" THEN Carried + isiz[group + 1] ELSE Carried
Loops ==
    /\ phase # "drift" => turn < args.nc
    /\ phase \notin {"drift", "continents", "islands"} => turn = 0
    /\ phase \in {"drift", "spheres", "borders"} => secs = 0
    /\ phase = "continents" => /\ secs = 0 \/ secs \in 2..args.sc
                               /\ secs = args.sc => turn = 0
    /\ phase \in {"drift", "continents", "sizes", "spheres"} => group = 0 /\ carry = 0
    /\ phase \in {"spheres", "borders", "islands", "coast", "written"} =>
         Len(isiz) = args.ni \div args.nc /\ group <= Len(isiz)
    /\ phase \in {"coast", "written"} => group = Len(isiz)
Progress ==
    phase \in Running => Loops /\ ContinentSizes /\ GroupsDone /\ GroupGrowing /\ CarryKept

\* The queue of the search holds no sector twice, the nearer before the farther.
Queue ==
    phase \in Running =>
      \A i, j \in 1..Len(bfs) :
        /\ bfs[i] = bfs[j] => i = j
        /\ distance[bfs[i]] < Far
        /\ i <= j => /\ distance[bfs[i]] <= distance[bfs[j]]
                     /\ distance[bfs[j]] <= distance[bfs[i]] + 1
        /\ phase \in {"spheres", "borders", "coast"}

\* Where the search began, how far it has come, and whom it has met.
Sources == IF phase = "spheres" THEN Coast(Continents) ELSE Coast(Islands)
Waiting == {bfs[k] : k \in 1..Len(bfs)}
Preds(t) == {o \in Around(t) : o \notin Waiting /\ distance[o] + 1 = distance[t]}
Reach ==
    phase \in {"spheres", "coast"} =>
      /\ \A t \in Sectors : distance[t] < Far => \E u \in Sources : MapDist(t, u) <= distance[t]
      /\ \A u \in Sources : distance[u] = 0
      /\ \A o \in Sectors : distance[o] < Far /\ o \notin Waiting =>
           \A t \in Around(o) : distance[t] <= distance[o] + 1
      /\ bfs # << >> => \A t \in Sectors :
           distance[t] < Far /\ t \notin Waiting => distance[t] <= distance[Head(bfs)]
Claims ==
    phase = "spheres" =>
      /\ \A u \in Sources : closest[u] = own[u]
      /\ \A t \in Sectors :
           /\ distance[t] = Far => closest[t] = -1
           /\ distance[t] \in 1..Far - 1 =>
                IF closest[t] # -1
                THEN Preds(t) # {} /\ \A o \in Preds(t) : closest[o] = closest[t]
                ELSE \E o, p \in Preds(t) : closest[o] = -1 \/ closest[o] # closest[p]

\* Zones cover what is too near, and so nothing that is too near has been taken.
ContinentZones ==
    \A t, q \in Sectors :
      own[q] \in Continents /\ MapDist(t, q) <= args.di => xzone[t] \in {own[q], Contested}
IslandZones ==
    \A t, q \in Sectors :
      /\ own[t] = Sea /\ (own[q] \in Continents \/ (own[q] # Sea /\ args.distinct))
      /\ MapDist(t, q) <= args.id
      => xzone[t] \in {own[q], Contested}
ZonesKept ==
    /\ phase \in {"drift", "continents"} => ContinentZones
    /\ phase = "islands" \/ (phase = "borders" /\ done) => IslandZones

\* The distance m is enough between sectors of a and of b.
Clear(a, b, m) ==
    /\ a \in Continents /\ b \in Continents /\ a # b => m > args.di
    /\ (a \in Continents /\ b >= args.nc) \/ (b \in Continents /\ a >= args.nc) => m > args.id
    /\ a >= args.nc /\ b >= args.nc /\ a # b /\ args.distinct => m > args.id
AllApart ==
    phase \in Running => \A s, t \in Sectors : Clear(own[s], own[t], MapDist(s, t))

\* A sector that one continent alone is nearest to is never given to another.
Alone(t, c) == \A b \in Continents \ {c} : ShoreDist(t, c) < ShoreDist(t, b)
SpheresKept ==
    /\ phase \in {"borders", "islands"} =>
         \A t \in Sectors : own[t] \notin Continents =>
           \A c \in Continents : Alone(t, c) =>
             /\ closest[t] = c
             /\ \/ distance[t] <= args.id + 1
                \/ \A o \in Around(t) : own[o] \notin Continents /\ Alone(o, c)
    /\ phase = "borders" => \A k \in 1..Len(bfs) : distance[bfs[k]] > args.id
NearOwn ==
    phase \in Running \ {"drift", "continents"} =>
      \A s \in Sectors : own[s] >= args.nc =>
        \A c \in Continents \ {own[s] % args.nc} : ~Alone(s, c)

-----------------------------------------------------------------------------
(* Numbers of islands. *)

\* Island j of group i, of m groups of n islands that follow n continents.
LEMMA NumberInGroup ==
    ASSUME NEW n \in Nat \ {0}, NEW m \in Nat, NEW i \in 0..m - 1, NEW j \in 0..n - 1
    PROVE  /\ n + i * n \in Nat
           /\ n + i * n + j \in n..n + m * n - 1
           /\ (n + i * n + j) % n = j
           /\ (n + i * n + j) \div n = i + 1
<1>1. n + i * n + j = n * (i + 1) + j /\ i + 1 \in Int
  OBVIOUS
<1>2. (n * (i + 1) + j) % n = j /\ (n * (i + 1) + j) \div n = i + 1
  BY <1>1, Division
<1>3. i * n + n <= m * n /\ i * n >= 0 /\ i * n \in Int /\ m * n \in Int
  <2>1. (i + 1) * n <= m * n
    OBVIOUS
  <2> QED
    BY <2>1
<1>4. n + i * n + j \in n..n + m * n - 1 /\ n + i * n \in Nat
  <2> DEFINE a == i * n
             b == m * n
  <2>1. a + n <= b /\ a >= 0 /\ a \in Int /\ b \in Int
    BY <1>3
  <2> HIDE DEF a, b
  <2>2. n + a + j \in n..n + b - 1 /\ n + a \in Nat
    BY <2>1
  <2> QED
    BY <2>2 DEF a, b
<1> QED
  BY <1>1, <1>2, <1>4

LEMMA GroupOfNumber ==
    ASSUME NEW n \in Nat \ {0}, NEW m \in Nat, NEW c \in n..n + m * n - 1
    PROVE  \E i \in 0..m - 1, j \in 0..n - 1 : c = n + i * n + j
<1> DEFINE q == c \div n
           r == c % n
<1>1. m * n \in Nat
  OBVIOUS
<1>2. c \in Int /\ c >= n /\ c <= n + m * n - 1
  BY <1>1
<1>3. c = n * q + r /\ 0 <= r /\ r < n /\ q \in Int /\ r \in Int
  BY <1>2
<1> HIDE DEF q, r
<1>4. q >= 1
  <2>1. ASSUME q <= 0 PROVE FALSE
    <3>1. n * q <= 0 /\ n * q \in Int
      BY <1>3, <2>1
    <3> QED
      BY <1>2, <1>3, <3>1
  <2> QED
    BY <1>3, <2>1
<1>5. q <= m
  <2>1. ASSUME q >= m + 1 PROVE FALSE
    <3>1. n * q >= n * (m + 1) /\ n * (m + 1) = n + m * n
      BY <1>3, <2>1
    <3> QED
      BY <1>1, <1>2, <1>3, <3>1
  <2> QED
    BY <1>3, <2>1
<1>6. n + (q - 1) * n + r = n * q + r
  BY <1>3
<1>7. q - 1 \in 0..m - 1 /\ r \in 0..n - 1
  BY <1>3, <1>4, <1>5
<1> QED
  BY <1>3, <1>6, <1>7

-----------------------------------------------------------------------------
(* Types. *)

LEMMA FarIs == Far \in Nat /\ Far > 0
BY WorldAssumption DEF Far

LEMMA Command ==
    ASSUME args \in Arguments, ValidateArgs(args)
    PROVE  /\ args.nc \in Nat \ {0} /\ args.sc \in Nat /\ args.sc >= 2
           /\ args.ni \in Nat /\ args.is \in Nat \ {0}
           /\ args.sp \in 0..100 /\ args.pm \in 0..100 /\ args.di \in Nat /\ args.id \in Nat
           /\ args.distinct \in BOOLEAN
           /\ 2 * args.nc <= WorldX * WorldY
           /\ args.ni \div args.nc \in Nat
           /\ args.ni = (args.ni \div args.nc) * args.nc
<1>1. /\ args.nc \in Nat /\ args.sc \in Nat /\ args.ni \in Nat /\ args.is \in Nat
      /\ args.sp \in Int /\ args.pm \in Int /\ args.di \in Int /\ args.id \in Int
      /\ args.distinct \in BOOLEAN
      /\ 2 * args.nc <= WorldX * WorldY
  BY WorldAssumption
<1>2. /\ args.nc >= 1 /\ args.sc >= 2 /\ args.ni % args.nc = 0 /\ args.is >= 1
      /\ args.sp \in 0..100 /\ args.pm \in 0..100
  BY DEF ValidateArgs
<1>3. args.di \in Nat /\ args.id \in Nat
  <2> DEFINE far == MapDist(<<0, 0>>, <<WorldX \div 2, WorldY \div 2>>)
  <2>1. far \in Int
    BY WorldAssumption DEF MapDist, Apart
  <2>2. args.di \in 0..far /\ args.id \in 0..far
    BY DEF ValidateArgs
  <2> HIDE DEF far
  <2> QED
    BY <2>1, <2>2
<1>4. args.ni \div args.nc \in Nat /\ args.ni = (args.ni \div args.nc) * args.nc
  <2> DEFINE n == args.nc
             a == args.ni
             q == a \div n
  <2>1. n \in Nat /\ n >= 1 /\ a \in Nat /\ a % n = 0
    BY <1>1, <1>2
  <2> HIDE DEF n, a
  <2>2. a = n * q + (a % n) /\ q \in Int
    BY <2>1
  <2> HIDE DEF q
  <2>3. a = n * q
    BY <2>1, <2>2
  <2>4. q >= 0
    <3>1. ASSUME q <= -1 PROVE FALSE
      <4>1. n * q <= n * (-1)
        BY <2>1, <2>2, <3>1
      <4> QED
        BY <2>1, <2>3, <4>1
    <3> QED
      BY <2>2, <3>1
  <2>5. q \in Nat /\ a = q * n
    BY <2>1, <2>2, <2>3, <2>4
  <2> QED
    BY <2>5 DEF q, a, n
<1> QED
  BY <1>1, <1>2, <1>3, <1>4

\* The islands that are no continents, by groups.
LEMMA IslandNumbers ==
    ASSUME args \in Arguments, ValidateArgs(args)
    PROVE  /\ \A i \in 0..args.ni \div args.nc - 1, j \in 0..args.nc - 1 :
                /\ Group(i) \in Nat
                /\ Group(i) + j \in Islands /\ Group(i) + j >= args.nc
                /\ (Group(i) + j) % args.nc = j
                /\ (Group(i) + j) \div args.nc = i + 1
           /\ \A c \in Islands : c \notin Continents =>
                \E i \in 0..args.ni \div args.nc - 1, j \in 0..args.nc - 1 : c = Group(i) + j
           /\ Continents \subseteq Islands
           /\ Islands \subseteq Nat
           /\ \A c \in Islands : c \in Continents <=> c < args.nc
<1> DEFINE n == args.nc
           m == args.ni \div args.nc
<1>1. n \in Nat \ {0} /\ m \in Nat /\ args.ni = m * n /\ args.ni \in Nat
  BY Command
<1>2. Islands = 0..n + m * n - 1 /\ Continents = 0..n - 1
  BY <1>1 DEF Islands, Continents
<1>3. \A i : Group(i) = n + i * n
  BY DEF Group
<1> HIDE DEF n, m
<1>4. m * n \in Nat
  BY <1>1
<1>5. ASSUME NEW i \in 0..m - 1, NEW j \in 0..n - 1
      PROVE  /\ Group(i) \in Nat /\ Group(i) + j \in Islands /\ Group(i) + j >= n
             /\ (Group(i) + j) % n = j /\ (Group(i) + j) \div n = i + 1
  <2>1. /\ n + i * n \in Nat /\ n + i * n + j \in n..n + m * n - 1
        /\ (n + i * n + j) % n = j /\ (n + i * n + j) \div n = i + 1
    BY <1>1, NumberInGroup
  <2>2. n..n + m * n - 1 \subseteq 0..n + m * n - 1 /\ \A x \in n..n + m * n - 1 : x >= n
    BY <1>1, <1>4
  <2> QED
    BY <1>2, <1>3, <2>1, <2>2
<1>6. ASSUME NEW c \in Islands, c \notin Continents
      PROVE  \E i \in 0..m - 1, j \in 0..n - 1 : c = Group(i) + j
  <2>1. c \in n..n + m * n - 1
    <3> DEFINE b == m * n
    <3>1. c \in 0..n + b - 1 /\ c \notin 0..n - 1 /\ b \in Nat
      BY <1>2, <1>4, <1>6
    <3> HIDE DEF b
    <3>2. c \in n..n + b - 1
      BY <1>1, <3>1
    <3> QED
      BY <3>2 DEF b
  <2>2. \E i \in 0..m - 1, j \in 0..n - 1 : c = n + i * n + j
    BY <1>1, <2>1, GroupOfNumber
  <2> QED
    BY <1>3, <2>2
<1>7. /\ Continents \subseteq Islands /\ Islands \subseteq Nat
      /\ \A c \in Islands : c \in Continents <=> c < n
  <2> DEFINE b == m * n
  <2>1. Islands = 0..n + b - 1 /\ b \in Nat
    BY <1>2, <1>4
  <2> HIDE DEF b
  <2> QED
    BY <1>1, <1>2, <2>1
<1> QED
  BY <1>5, <1>6, <1>7 DEF n, m

\* Where the capitals are put first.
LEMMA FirstCapitals ==
    ASSUME NEW n \in Nat, 2 * n <= WorldX * WorldY, NEW i \in 0..n - 1
    PROVE  LET y == (2 * i) \div WorldX
           IN  <<((2 * i) % WorldX) + (y % 2), y>> \in Sectors
<1> DEFINE y == (2 * i) \div WorldX
           r == (2 * i) % WorldX
           s == <<r + (y % 2), y>>
<1>1. WorldX \in Nat /\ WorldX % 2 = 0 /\ WorldX > 0 /\ WorldY \in Nat
  BY WorldAssumption
<1>2. 2 * i = WorldX * y + r /\ 0 <= r /\ r < WorldX /\ y \in Int /\ r \in Int
  BY <1>1
<1> HIDE DEF y, r
<1>3. y \in 0..WorldY - 1
  <2>1. ASSUME y <= -1 PROVE FALSE
    <3>1. WorldX * y <= WorldX * (-1)
      BY <1>1, <1>2, <2>1
    <3> QED
      BY <1>1, <1>2, <3>1
  <2>2. ASSUME y >= WorldY PROVE FALSE
    <3>1. WorldX * y >= WorldX * WorldY /\ WorldX * WorldY \in Int /\ WorldX * y \in Int
      BY <1>1, <1>2, <2>2
    <3> QED
      BY <1>1, <1>2, <3>1
  <2> QED
    BY <1>1, <1>2, <2>1, <2>2
<1>4. r % 2 = 0
  <2> DEFINE h == WorldX \div 2
  <2>1. h \in Int /\ WorldX = 2 * h
    BY <1>1
  <2> HIDE DEF h
  <2>2. WorldX * y = 2 * (h * y) /\ h * y \in Int
    BY <1>2, <2>1
  <2> DEFINE k == h * y
  <2>3. 2 * i = 2 * k + r /\ k \in Int
    BY <1>2, <2>2
  <2> HIDE DEF k
  <2> QED
    BY <1>2, <2>3
<1>5. r + (y % 2) \in 0..WorldX - 1
  BY <1>1, <1>2, <1>3, <1>4
<1>6. (r + (y % 2) + y) % 2 = 0
  BY <1>2, <1>3, <1>4
<1>7. s[1] = r + (y % 2) /\ s[2] = y
  OBVIOUS
<1>8. s \in Sectors
  BY <1>3, <1>5, <1>6, <1>7, Sector
<1> QED
  BY <1>8 DEF y, r

-----------------------------------------------------------------------------
(* What the operations leave is of its type. *)

LEMMA Phases ==
    /\ Grown = {"continents", "islands", "written", "sizes", "spheres", "borders", "coast"}
    /\ Running = {"drift", "continents", "islands", "written", "sizes", "spheres", "borders", "coast"}
BY DEF Grown, Growing, Running

\* In every phase that runs.
LEMMA RunningTyped ==
    ASSUME WellTyped, phase \in Running
    PROVE  Typed /\ args \in Arguments /\ ValidateArgs(args)
BY Phases DEF WellTyped

LEMMA ListedSectors ==
    ASSUME sect \in [Islands -> Seq(Sectors)], NEW c \in Islands
    PROVE  /\ Len(sect[c]) \in Nat
           /\ \A s : s \in SectorsOf(c) <=> \E k \in 1..Len(sect[c]) : sect[c][k] = s
           /\ SectorsOf(c) \subseteq Sectors
           /\ \A k \in 1..Len(sect[c]) : sect[c][k] \in SectorsOf(c) /\ sect[c][k] \in Sectors
<1>1. sect[c] \in Seq(Sectors)
  OBVIOUS
<1>2. DOMAIN sect[c] = 1..Len(sect[c]) /\ Len(sect[c]) \in Nat
      /\ \A k \in 1..Len(sect[c]) : sect[c][k] \in Sectors
  BY <1>1
<1> QED
  BY <1>2 DEF SectorsOf, ToSet

\* Only sectors next to one's own are grown.
LEMMA GrowthIs ==
    ASSUME sect \in [Islands -> Seq(Sectors)], NEW c \in Islands, NEW spike, NEW t \in Candidates(c, spike)
    PROVE  t \in Sectors /\ CanGrowAt(c, t)
<1>1. PICK s \in SectorsOf(c) : t \in Around(s)
  BY DEF Candidates, Growable
<1>2. s \in Sectors
  BY <1>1, ListedSectors
<1>3. t \in Sectors
  BY <1>1, <1>2, Neighbours
<1> QED
  BY <1>3 DEF Candidates, Growable

LEMMA ZonedTyped ==
    ASSUME NEW zone \in [Sectors -> Int], NEW c \in Int, NEW s, NEW dist
    PROVE  Zoned(zone, c, s, dist) \in [Sectors -> Int]
BY DEF Zoned, Contested

LEMMA AddTyped ==
    ASSUME Typed, args \in Arguments, ValidateArgs(args), UNCHANGED args,
           NEW c \in Islands, NEW t \in Sectors, AddSector(c, t)
    PROVE  /\ own' \in [Sectors -> Islands \cup {Sea}]
           /\ xzone' \in [Sectors -> Int]
           /\ sect' \in [Islands -> Seq(Sectors)]
<1>1. c \in Int
  BY IslandNumbers
<1>2. xzone' \in [Sectors -> Int]
  BY <1>1, ZonedTyped DEF AddSector, Typed
<1>3. Append(sect[c], t) \in Seq(Sectors)
  BY DEF Typed
<1> QED
  BY <1>2, <1>3 DEF AddSector, Typed

\* The coast in the order of the lists.
LEMMA CoastIs ==
    ASSUME Typed, args \in Arguments, ValidateArgs(args), Land, phase \in Running,
           NEW n \in 0..args.nc + args.ni
    PROVE  /\ Coast(0..n - 1) \subseteq Sectors /\ IsFiniteSet(Coast(0..n - 1))
           /\ \A s : s \in Coast(0..n - 1) <=> s \in Sectors /\ own[s] \in 0..n - 1 /\ IsCoastal(s)
<1>1. \A c \in 0..n - 1 : c \in Islands
  BY Command DEF Islands
<1>2. \A c \in Islands : \A s \in SectorsOf(c) : s \in Sectors /\ own[s] = c
  <2>1. \A c \in Islands : \A s \in SectorsOf(c) : \E k \in 1..Len(sect[c]) : sect[c][k] = s
    BY ListedSectors DEF Typed
  <2>2. \A c \in Islands : SectorsOf(c) \subseteq Sectors
    BY ListedSectors DEF Typed
  <2> QED
    BY <2>1, <2>2 DEF Land, Mapped
<1>3. \A s \in Sectors : own[s] \in 0..n - 1 => s \in SectorsOf(own[s])
  <2>1. \A s \in Sectors : own[s] \in 0..n - 1 => IsLand(s)
    BY DEF IsLand, Sea
  <2> QED
    BY <2>1 DEF Land, Mapped
<1>4. \A s : s \in Coast(0..n - 1) <=> s \in Sectors /\ own[s] \in 0..n - 1 /\ IsCoastal(s)
  BY <1>1, <1>2, <1>3 DEF Coast
<1>5. Coast(0..n - 1) \subseteq Sectors
  BY <1>4
<1>6. IsFiniteSet(Coast(0..n - 1))
  BY <1>5, SectorsFinite, FS_Subset
<1> QED
  BY <1>4, <1>5, <1>6

LEMMA CoastOrder ==
    ASSUME Typed, args \in Arguments, ValidateArgs(args), Land, phase \in Running,
           NEW n \in 0..args.nc + args.ni
    PROVE  LET coast == Coast(0..n - 1)
           IN  Orders({p \in coast \X coast : Sooner(p[1], p[2])}, coast)
<1> DEFINE coast == Coast(0..n - 1)
           pairs == {p \in coast \X coast : Sooner(p[1], p[2])}
<1>1. \A s \in coast : s \in Sectors /\ own[s] \in Nat /\ own[s] \in Islands /\ s \in SectorsOf(own[s])
  <2>1. \A s \in coast : s \in Sectors /\ own[s] \in 0..n - 1
    BY CoastIs
  <2>2. \A i \in 0..n - 1 : i \in Nat /\ i \in Islands /\ i # Sea
    BY Command DEF Islands, Sea
  <2> QED
    BY <2>1, <2>2 DEF Land, Mapped, IsLand
<1>2. \A s \in coast : Place(s) \in Nat /\ sect[own[s]][Place(s)] = s
  <2> SUFFICES ASSUME NEW s \in coast
               PROVE  Place(s) \in Nat /\ sect[own[s]][Place(s)] = s
    OBVIOUS
  <2>1. own[s] \in Islands /\ s \in SectorsOf(own[s])
    BY <1>1
  <2>2. sect[own[s]] \in Seq(Sectors)
    BY <2>1 DEF Typed
  <2>3. DOMAIN sect[own[s]] = 1..Len(sect[own[s]]) /\ Len(sect[own[s]]) \in Nat
    BY <2>2
  <2>4. \E k \in DOMAIN sect[own[s]] : sect[own[s]][k] = s
    BY <2>1, <2>3, ListedSectors DEF Typed
  <2>5. Place(s) \in DOMAIN sect[own[s]] /\ sect[own[s]][Place(s)] = s
    BY <2>4 DEF Place
  <2> QED
    BY <2>3, <2>5
<1>3. \A s, t \in coast : <<s, t>> \in pairs <=> Sooner(s, t)
  OBVIOUS
<1> HIDE DEF pairs, coast
<1>4. \A s \in coast : <<s, s>> \notin pairs
  BY <1>1, <1>2, <1>3 DEF Sooner
<1>5. \A s, t \in coast : s # t => <<s, t>> \in pairs \/ <<t, s>> \in pairs
  <2>1. \A s, t \in coast : own[s] = own[t] /\ Place(s) = Place(t) => s = t
    BY <1>2
  <2> QED
    BY <1>1, <1>2, <1>3, <2>1 DEF Sooner
<1>6. \A s, t, u \in coast : <<s, t>> \in pairs /\ <<t, u>> \in pairs => <<s, u>> \in pairs
  BY <1>1, <1>2, <1>3 DEF Sooner
<1>7. Orders(pairs, coast)
  BY <1>4, <1>5, <1>6 DEF Orders
<1> QED
  BY <1>7 DEF pairs, coast

\* A sequence that holds every element of S once, as one of elements of U.
Lists(q, S, U) ==
    /\ q \in Seq(U)
    /\ Len(q) = Cardinality(S)
    /\ \A i, j \in 1..Len(q) : q[i] = q[j] => i = j
    /\ \A s : s \in S <=> \E i \in 1..Len(q) : q[i] = s
LEMMA OrderedList ==
    ASSUME NEW U, NEW S, S \subseteq U, IsFiniteSet(S), NEW pairs, Orders(pairs, S)
    PROVE  Lists(InOrder(S, pairs), S, U)
<1> DEFINE q == InOrder(S, pairs)
<1>1. /\ Cardinality(S) \in Nat
      /\ q \in [1..Cardinality(S) -> S]
      /\ \A s \in S : \E i \in 1..Cardinality(S) : q[i] = s
      /\ \A i, j \in 1..Cardinality(S) : q[i] = q[j] => i = j
  BY Ordered, Zenon
<1> HIDE DEF q
<1>2. q \in Seq(S) /\ Len(q) = Cardinality(S)
  BY <1>1
<1>3. q \in Seq(U)
  BY <1>1, <1>2
<1>4. \A s : s \in S <=> \E i \in 1..Len(q) : q[i] = s
  BY <1>1, <1>2
<1>5. \A i, j \in 1..Len(q) : q[i] = q[j] => i = j
  BY <1>1, <1>2
<1> QED
  BY <1>2, <1>3, <1>4, <1>5 DEF q, Lists

\* A sequence without repetitions is as long as its set is large.
LEMMA DistinctList ==
    ASSUME NEW U, NEW q \in Seq(U), NEW S,
           \A i, j \in 1..Len(q) : q[i] = q[j] => i = j,
           \A s : s \in S <=> \E i \in 1..Len(q) : q[i] = s
    PROVE  IsFiniteSet(S) /\ Len(q) = Cardinality(S) /\ Lists(q, S, U)
<1> DEFINE D == 1..Len(q)
<1>1. Len(q) \in Nat /\ IsFiniteSet(D) /\ Cardinality(D) = Len(q)
  <2>1. Len(q) \in Nat
    OBVIOUS
  <2> QED
    BY <2>1, UpTo
<1> DEFINE f == [i \in D |-> q[i]]
<1>2. f \in Bijection(D, S)
  BY DEF Bijection, Injection, Surjection, IsInjective
<1> HIDE DEF f, D
<1>3. ExistsBijection(D, S)
  BY <1>2 DEF ExistsBijection
<1>4. IsFiniteSet(S) /\ Cardinality(S) = Cardinality(D)
  BY <1>1, <1>3, FS_Bijection
<1> QED
  BY <1>1, <1>4 DEF Lists

\* The queue of the coast holds each of its sectors once.
CoastPairs(coast) == {p \in coast \X coast : Sooner(p[1], p[2])}
LEMMA CoastInOrder ==
    ASSUME Typed, args \in Arguments, ValidateArgs(args), Land, phase \in Running,
           NEW n \in 0..args.nc + args.ni
    PROVE  Lists(InOrder(Coast(0..n - 1), CoastPairs(Coast(0..n - 1))), Coast(0..n - 1), Sectors)
<1>1. Coast(0..n - 1) \subseteq Sectors /\ IsFiniteSet(Coast(0..n - 1))
  BY CoastIs
<1>2. Orders(CoastPairs(Coast(0..n - 1)), Coast(0..n - 1))
  BY CoastOrder DEF CoastPairs
<1> QED
  BY <1>1, <1>2, OrderedList

\* What the search begins with.
LEMMA SearchBegins ==
    ASSUME Typed, args \in Arguments, ValidateArgs(args), Land, phase \in Running,
           NEW n \in 0..args.nc + args.ni, SearchFrom(n)
    PROVE  /\ Lists(bfs', Coast(0..n - 1), Sectors)
           /\ closest' = [s \in Sectors |-> IF s \in Coast(0..n - 1) THEN own[s] ELSE -1]
           /\ distance' = [s \in Sectors |-> IF s \in Coast(0..n - 1) THEN 0 ELSE Far]
           /\ closest' \in [Sectors -> -1..args.nc + args.ni - 1]
           /\ distance' \in [Sectors -> 0..Far]
<1> DEFINE coast == Coast(0..n - 1)
           q == InOrder(coast, CoastPairs(coast))
<1>1. \A s \in coast : own[s] \in 0..n - 1
  BY CoastIs
<1>2. Lists(q, coast, Sectors)
  BY CoastInOrder
<1>3. /\ bfs' = q
      /\ closest' = [s \in Sectors |-> IF s \in coast THEN own[s] ELSE -1]
      /\ distance' = [s \in Sectors |-> IF s \in coast THEN 0 ELSE Far]
  BY DEF SearchFrom, CoastPairs
<1> HIDE DEF q
<1>4. closest' \in [Sectors -> -1..args.nc + args.ni - 1] /\ distance' \in [Sectors -> 0..Far]
  <2>1. 0..n - 1 \subseteq -1..args.nc + args.ni - 1 /\ -1 \in -1..args.nc + args.ni - 1
    BY Command
  <2> HIDE DEF coast
  <2> QED
    BY <1>1, <1>3, <2>1, FarIs
<1> QED
  BY <1>2, <1>3, <1>4

LEMMA DirectionsFinite == IsFiniteSet(Directions) /\ Cardinality(Directions) = 6
<1>1. IsFiniteSet(1..6) /\ Cardinality(1..6) = (IF 1 > 6 THEN 0 ELSE 6 - 1 + 1)
  <2>1. 1 \in Int /\ 6 \in Int
    OBVIOUS
  <2> QED
    BY <2>1, FS_Interval
<1> QED
  BY <1>1 DEF Directions

LEMMA NumbersAreOrdered ==
    ASSUME NEW D, D \subseteq Directions
    PROVE  IsFiniteSet(D) /\ Orders(NumberOrder, D)
<1>1. IsFiniteSet(D)
  BY DirectionsFinite, FS_Subset
<1>2. \A d, e \in Directions : <<d, e>> \in NumberOrder <=> d < e
  BY DEF NumberOrder
<1>3. \A d \in D : d \in Int /\ d \in Directions
  BY DEF Directions
<1>4. \A d \in D : <<d, d>> \notin NumberOrder
  BY <1>2, <1>3
<1>5. \A d, e \in D : d # e => <<d, e>> \in NumberOrder \/ <<e, d>> \in NumberOrder
  BY <1>2, <1>3
<1>6. \A d, e, f \in D : <<d, e>> \in NumberOrder /\ <<e, f>> \in NumberOrder => <<d, f>> \in NumberOrder
  BY <1>2, <1>3
<1> QED
  BY <1>1, <1>4, <1>5, <1>6 DEF Orders

LEMMA OffsetsAreOrdered ==
    ASSUME NEW S, S \subseteq Sectors
    PROVE  IsFiniteSet(S) /\ Orders(OffsetOrder, S)
<1>1. IsFiniteSet(S)
  BY SectorsFinite, FS_Subset
<1>2. \A s, t \in Sectors : <<s, t>> \in OffsetOrder <=> Before(s, t)
  BY DEF OffsetOrder
<1>3. \A s \in S : s \in Sectors /\ s = <<s[1], s[2]>> /\ s[1] \in Int /\ s[2] \in Int
  BY Sector
<1>4. \A s \in S : <<s, s>> \notin OffsetOrder
  BY <1>2, <1>3 DEF Before
<1>5. \A s, t \in S : s # t => <<s, t>> \in OffsetOrder \/ <<t, s>> \in OffsetOrder
  <2>1. \A s, t \in S : s # t => Before(s, t) \/ Before(t, s)
    <3> SUFFICES ASSUME NEW s \in S, NEW t \in S, s # t
                 PROVE  Before(s, t) \/ Before(t, s)
      OBVIOUS
    <3>1. s[1] # t[1] \/ s[2] # t[2]
      BY <1>3
    <3> QED
      BY <1>3, <3>1 DEF Before
  <2> QED
    BY <1>2, <1>3, <2>1
<1>6. \A s, t, u \in S : <<s, t>> \in OffsetOrder /\ <<t, u>> \in OffsetOrder => <<s, u>> \in OffsetOrder
  <2>1. \A s, t, u \in S : Before(s, t) /\ Before(t, u) => Before(s, u)
    BY <1>3 DEF Before
  <2> QED
    BY <1>2, <1>3, <2>1
<1> QED
  BY <1>1, <1>4, <1>5, <1>6 DEF Orders

\* Directions in the order of their numbers.
LEMMA NumberedDirections ==
    ASSUME NEW D, D \subseteq Directions
    PROVE  Lists(InOrder(D, NumberOrder), D, Directions)
BY NumbersAreOrdered, OrderedList

\* What a sector of the queue adds: each sector found, once.
LEMMA FoundIs ==
    ASSUME NEW o \in Sectors
    PROVE  /\ Lists(Found(o), FoundAt(o), Sectors)
           /\ \A t : t \in FoundAt(o) <=> t \in Around(o) /\ distance[o] + 1 < distance[t]
<1> DEFINE F == Fresh(o)
           q == InOrder(F, NumberOrder)
<1>1. F \subseteq Directions
  BY DEF Fresh
<1>2. Lists(q, F, Directions)
  BY <1>1, NumberedDirections
<1>3. /\ q \in Seq(Directions)
      /\ \A i, j \in 1..Len(q) : q[i] = q[j] => i = j
      /\ \A d : d \in F <=> \E i \in 1..Len(q) : q[i] = d
      /\ Len(q) = Cardinality(F)
  BY <1>2 DEF Lists
<1>4. Found(o) = [i \in 1..Len(q) |-> Step(o, q[i])]
  BY <1>3 DEF Found
<1>5. FoundAt(o) = {Step(o, d) : d \in F}
  BY DEF FoundAt
<1>6. \A t : t \in FoundAt(o) <=> t \in Around(o) /\ distance[o] + 1 < distance[t]
  BY DEF FoundAt, Fresh, Around
<1> HIDE DEF F, q
<1>7. Len(q) \in Nat /\ \A i \in 1..Len(q) : q[i] \in Directions
  BY <1>3
<1>8. \A i \in 1..Len(q) : Step(o, q[i]) \in Sectors
  BY <1>7, StepSector
<1>9. Found(o) \in Seq(Sectors) /\ Len(Found(o)) = Len(q)
  BY <1>4, <1>7, <1>8
<1>10. \A i, j \in 1..Len(q) : Found(o)[i] = Found(o)[j] => i = j
  BY <1>3, <1>4, <1>7, StepsDiffer
<1>11. \A t : t \in FoundAt(o) <=> \E i \in 1..Len(q) : Found(o)[i] = t
  BY <1>3, <1>4, <1>5
<1>12. \A t : t \in FoundAt(o) <=> \E i \in 1..Len(Found(o)) : Found(o)[i] = t
  BY <1>9, <1>11
<1>13. \A i, j \in 1..Len(Found(o)) : Found(o)[i] = Found(o)[j] => i = j
  BY <1>9, <1>10
<1>14. Lists(Found(o), FoundAt(o), Sectors)
  BY <1>9, <1>12, <1>13, DistinctList
<1> QED
  BY <1>6, <1>14

\* Every size is positive, for it is above the average by less than it.
LEMMA SizesAre ==
    ASSUME args \in Arguments, ValidateArgs(args),
           NEW roll \in [1..args.ni \div args.nc -> 0..args.is - 1]
    PROVE  Sizes(roll) \in Seq(Nat \ {0}) /\ Len(Sizes(roll)) = args.ni \div args.nc
<1> DEFINE n == args.ni \div args.nc
           size == [i \in 1..n |-> args.is + roll[i] - roll[IF i = 1 THEN n ELSE i - 1]]
           larger == {p \in (1..n) \X (1..n) :
                        size[p[1]] > size[p[2]] \/ (size[p[1]] = size[p[2]] /\ p[1] < p[2])}
           q == InOrder(1..n, larger)
<1>1. n \in Nat /\ args.is \in Nat \ {0}
  BY Command
<1>2. Sizes(roll) = [k \in 1..n |-> size[q[k]]]
  BY DEF Sizes
<1>3. \A i \in 1..n : size[i] \in Nat \ {0}
  <2> DEFINE m == n
  <2>1. m \in Nat /\ roll \in [1..m -> 0..args.is - 1]
    BY <1>1
  <2>2. \A i \in 1..m : size[i] = args.is + roll[i] - roll[IF i = 1 THEN m ELSE i - 1]
    OBVIOUS
  <2> HIDE DEF m, size
  <2>3. \A i \in 1..m : (IF i = 1 THEN m ELSE i - 1) \in 1..m
    BY <2>1
  <2>4. \A i \in 1..m : roll[i] \in 0..args.is - 1 /\ roll[IF i = 1 THEN m ELSE i - 1] \in 0..args.is - 1
    BY <2>1, <2>3
  <2>5. \A i \in 1..m : size[i] \in Nat \ {0}
    BY <1>1, <2>2, <2>4
  <2> QED
    BY <2>5 DEF m
<1>4. \A i, j \in 1..n : <<i, j>> \in larger <=> size[i] > size[j] \/ (size[i] = size[j] /\ i < j)
  OBVIOUS
<1> HIDE DEF size, larger
<1>5. Orders(larger, 1..n)
  <2> DEFINE N == 1..n
  <2>1. \A i \in N : i \in Int /\ size[i] \in Int
    BY <1>1, <1>3
  <2>2. \A i, j \in N : <<i, j>> \in larger <=> size[i] > size[j] \/ (size[i] = size[j] /\ i < j)
    BY <1>4
  <2> HIDE DEF N
  <2>3. \A i \in N : <<i, i>> \notin larger
    BY <2>1, <2>2
  <2>4. \A i, j \in N : i # j => <<i, j>> \in larger \/ <<j, i>> \in larger
    BY <2>1, <2>2
  <2>5. \A i, j, k \in N : <<i, j>> \in larger /\ <<j, k>> \in larger => <<i, k>> \in larger
    BY <2>1, <2>2
  <2>6. Orders(larger, N)
    BY <2>3, <2>4, <2>5 DEF Orders
  <2> QED
    BY <2>6 DEF N
<1>6. IsFiniteSet(1..n) /\ Cardinality(1..n) = n
  BY <1>1, UpTo
<1>7. q \in Seq(1..n) /\ Len(q) = n
  <2>1. Lists(q, 1..n, 1..n)
    BY <1>5, <1>6, OrderedList
  <2> QED
    BY <1>6, <2>1 DEF Lists
<1> HIDE DEF n, q
<1>8. \A k \in 1..n : q[k] \in 1..n
  BY <1>7
<1>9. \A k \in 1..n : size[q[k]] \in Nat \ {0}
  BY <1>3, <1>8
<1>10. Sizes(roll) \in Seq(Nat \ {0}) /\ Len(Sizes(roll)) = n
  BY <1>1, <1>2, <1>9
<1> QED
  BY <1>10 DEF n

LEMMA ContinentsFixed == UNCHANGED args => Continents' = Continents /\ Islands' = Islands
BY DEF Continents, Islands

LEMMA BlankTyped ==
    ASSUME args \in Arguments, ValidateArgs(args), UNCHANGED args, Blank(args)
    PROVE  Typed'
<1>1. args.nc \in Nat \ {0} /\ args.ni \in Nat /\ 2 * args.nc <= WorldX * WorldY
  BY Command
<1>2. cap' \in [Continents -> Sectors]
  <2>1. \A i \in 0..args.nc - 1 :
          LET y == (2 * i) \div WorldX IN <<((2 * i) % WorldX) + (y % 2), y>> \in Sectors
    BY <1>1, FirstCapitals
  <2> QED
    BY <2>1 DEF Blank, Continents
<1>3. own' \in [Sectors -> Islands \cup {Sea}] /\ xzone' \in [Sectors -> Int]
  BY DEF Blank
<1>4. sect' \in [Islands -> Seq(Sectors)]
  BY DEF Blank, Islands
<1>5. /\ closest' \in [Sectors -> -1..args.nc + args.ni - 1] /\ distance' \in [Sectors -> 0..Far]
  <2>1. -1 \in -1..args.nc + args.ni - 1 /\ Far \in 0..Far
    BY <1>1, FarIs
  <2> QED
    BY <2>1 DEF Blank
<1>6. bfs' \in Seq(Sectors) /\ isiz' \in Seq(Nat \ {0})
  BY DEF Blank
<1>7. /\ turn' \in 0..args.nc /\ group' \in Nat /\ secs' \in Nat
      /\ done' \in BOOLEAN /\ carry' \in Int
      /\ elev' \in [Sectors -> Int] /\ odd' \in Int
  BY <1>1 DEF Blank
<1> QED
  BY <1>2, <1>3, <1>4, <1>5, <1>6, <1>7, ContinentsFixed DEF Typed

LEMMA StartTyped == WellTyped /\ (Start \/ Retry) => WellTyped'
<1> SUFFICES ASSUME WellTyped, Start \/ Retry
             PROVE  WellTyped'
  OBVIOUS
<1>1. UNCHANGED args /\ args \in Arguments /\ ValidateArgs(args) /\ ValidateArgs(args)'
  BY DEF WellTyped, Start, Retry, ValidateArgs
<1>2. phase' \in {"drift", "refused"} /\ try' \in 0..NumTries - 1
  BY WorldAssumption DEF WellTyped, Start, Retry
<1>3. phase' = "drift" => Typed'
  BY <1>1, BlankTyped DEF Start, Retry
<1> QED
  BY <1>1, <1>2, <1>3, Phases DEF WellTyped

\* The actions that keep to types of their own: those that change no land.
LEMMA SettleTyped == WellTyped /\ Progress /\ Settle => WellTyped'
<1> SUFFICES ASSUME WellTyped, Progress, Settle
             PROVE  WellTyped'
  OBVIOUS
<1>1. Typed /\ args \in Arguments /\ ValidateArgs(args)
  BY RunningTyped, Phases DEF Settle
<1>2. phase' \in {"drift", "continents"} /\ turn' \in 0..args.nc
  <2>1. args.nc \in Nat \ {0} /\ turn \in 0..args.nc
    BY <1>1, Command DEF Typed
  <2>2. \/ phase' = "continents" /\ turn' = turn
        \/ phase' = "drift" /\ turn' = 1
    BY DEF Settle
  <2> QED
    BY <2>1, <2>2
<1>3. UNCHANGED <<args, try, cap, land, search, isiz, group, secs, done, carry, heights>>
  BY DEF Settle
<1>4. Typed'
  BY <1>1, <1>2, <1>3, ContinentsFixed DEF Typed, land, search, heights
<1> QED
  BY <1>1, <1>2, <1>3, <1>4, Phases DEF WellTyped, ValidateArgs

LEMMA DriftTyped == WellTyped /\ DriftCapital => WellTyped'
<1> SUFFICES ASSUME WellTyped, DriftCapital
             PROVE  WellTyped'
  OBVIOUS
<1>1. Typed /\ args \in Arguments /\ ValidateArgs(args)
  BY RunningTyped, Phases DEF DriftCapital
<1>2. turn' \in 0..args.nc /\ turn \in 1..args.nc /\ args.nc \in Nat \ {0}
  <2>1. args.nc \in Nat \ {0} /\ turn \in 1..args.nc
    BY <1>1, Command DEF DriftCapital
  <2>2. turn' = 0 \/ (turn # args.nc /\ turn' = turn + 1)
    BY DEF DriftCapital
  <2> QED
    BY <2>1, <2>2
<1>3. UNCHANGED <<args, try, phase, land, search, isiz, group, secs, done, carry, heights>>
  BY DEF DriftCapital
<1>4. cap' \in [Continents -> Sectors]
  <2> DEFINE j == turn - 1
             To(start, k) == Step(cap[j], ((start + k - 1) % 6) + 1)
             good(start) == {k \in 0..5 : Iso(j, To(start, k)) >= Iso(j, cap[j])}
  <2>1. PICK start \in Directions \ {4} :
          cap' = IF good(start) = {} THEN cap ELSE [cap EXCEPT ![j] = To(start, Min(good(start)))]
    BY DEF DriftCapital
  <2>2. j \in Continents /\ cap[j] \in Sectors
    <3>1. turn - 1 \in 0..args.nc - 1
      BY <1>2
    <3>2. j \in Continents
      BY <3>1 DEF Continents
    <3> QED
      BY <1>1, <3>2 DEF Typed
  <2>3. \A k \in 0..5 : To(start, k) \in Sectors
    <3>1. \A k \in 0..5 : ((start + k - 1) % 6) + 1 \in Directions
      BY DEF Directions
    <3> QED
      BY <2>2, <3>1, StepSector
  <2>4. good(start) # {} => Min(good(start)) \in 0..5
    <3>1. good(start) \subseteq 0..5 /\ 0..5 \subseteq Nat
      OBVIOUS
    <3> HIDE DEF good
    <3> QED
      BY <3>1, LeastExists
  <2>5. cap \in [Continents -> Sectors]
    BY <1>1 DEF Typed
  <2> HIDE DEF good, To
  <2> QED
    BY <2>1, <2>2, <2>3, <2>4, <2>5
<1>5. Typed'
  BY <1>1, <1>2, <1>3, <1>4, ContinentsFixed DEF Typed, land, search, heights
<1> QED
  BY <1>1, <1>3, <1>5, Phases DEF WellTyped, ValidateArgs

LEMMA ContinentsDoneTyped == WellTyped /\ ContinentsDone => WellTyped'
<1> SUFFICES ASSUME WellTyped, ContinentsDone
             PROVE  WellTyped'
  OBVIOUS
<1>1. Typed /\ args \in Arguments /\ ValidateArgs(args)
  BY RunningTyped, Phases DEF ContinentsDone
<1>2. phase' = "sizes" /\ UNCHANGED <<args, try, drifting, land, search, loops, heights>>
  BY DEF ContinentsDone
<1>3. Typed'
  BY <1>1, <1>2, ContinentsFixed DEF Typed, drifting, land, search, loops, heights
<1> QED
  BY <1>1, <1>2, <1>3, Phases DEF WellTyped, ValidateArgs

\* How high a sector is raised: land up, sea down, or neither.
LEMMA RaisedIs ==
    ASSUME elev \in [Sectors -> Int], distance \in [Sectors -> 0..Far],
           NEW s \in Sectors, NEW r \in Radii(s)
    PROVE  /\ Raised(s, r) \in [Sectors -> Int]
           /\ r \in 1..4
           /\ \A t \in Sectors : /\ own[s] = Sea => Raised(s, r)[t] <= elev[t]
                                 /\ own[s] # Sea => Raised(s, r)[t] >= elev[t]
<1>1. r \in 1..4
  <2>1. distance[s] \in Nat
    BY FarIs
  <2>2. Min({3, distance[s]}) \in 0..3
    BY <2>1, MinOfTwo
  <2>3. Max({1, Min({3, distance[s]})}) \in 0..3
    <3> DEFINE m == Min({3, distance[s]})
    <3>1. m \in 0..3
      BY <2>2
    <3> HIDE DEF m
    <3>2. Max({1, m}) \in {1, m}
      <4>1. 1 \in Int /\ m \in Int
        BY <3>1
      <4> QED
        BY <4>1, MaxOfTwo
    <3>3. Max({1, m}) \in 0..3
      BY <3>1, <3>2
    <3> QED
      BY <3>3 DEF m
  <2> QED
    BY <2>2, <2>3 DEF Radii
<1> DEFINE sign == IF own[s] = Sea THEN -1 ELSE 1
           Hits(t, d) == Cardinality({w \in Steps(d) : At(s, d, w) = t})
           f(t) == [d \in 1..r - 1 |-> Hits(t, d) * (r * r - d * d)]
           Delta(t) == (IF t = s THEN r * r ELSE 0) + SumFunctionOnSet(f(t), 1..r - 1)
<1>2. \A t, d : d \in 1..r - 1 => Hits(t, d) \in Nat
  <2> SUFFICES ASSUME NEW t, NEW d \in 1..r - 1
               PROVE  Hits(t, d) \in Nat
    OBVIOUS
  <2>1. IsFiniteSet(Steps(d))
    <3>1. d \in Nat
      BY <1>1
    <3>2. IsFiniteSet(0..d - 1)
      BY <3>1, Below
    <3> QED
      BY <3>2, DirectionsFinite, FS_Product DEF Steps
  <2>2. {w \in Steps(d) : At(s, d, w) = t} \subseteq Steps(d)
    OBVIOUS
  <2> QED
    BY <2>1, <2>2, FS_Subset, FS_CardinalityType
<1>3. \A t : \A d \in 1..r - 1 : f(t)[d] \in Nat
  <2> SUFFICES ASSUME NEW t, NEW d \in 1..r - 1
               PROVE  f(t)[d] \in Nat
    OBVIOUS
  <2>1. r * r - d * d \in Nat
    BY <1>1
  <2>2. Hits(t, d) \in Nat
    BY <1>2
  <2> HIDE DEF Hits
  <2> QED
    BY <2>1, <2>2
<1>4. IsFiniteSet(1..r - 1)
  <2>1. r - 1 \in Nat
    BY <1>1
  <2> QED
    BY <2>1, UpTo
<1> HIDE DEF f
<1>5. \A t : SumFunctionOnSet(f(t), 1..r - 1) \in Nat
  BY <1>3, <1>4, SumIsNat
<1>6. \A t : Delta(t) \in Nat
  BY <1>1, <1>5
<1>7. Raised(s, r) = [t \in Sectors |-> elev[t] + sign * Delta(t)]
  BY DEF Raised, f
<1> HIDE DEF Delta
<1>8. Raised(s, r) \in [Sectors -> Int]
  BY <1>6, <1>7
<1>9. \A t \in Sectors : /\ own[s] = Sea => Raised(s, r)[t] <= elev[t]
                         /\ own[s] # Sea => Raised(s, r)[t] >= elev[t]
  BY <1>6, <1>7
<1> QED
  BY <1>1, <1>8, <1>9

LEMMA RaiseTyped == WellTyped /\ Raise => WellTyped'
<1> SUFFICES ASSUME WellTyped, Raise
             PROVE  WellTyped'
  OBVIOUS
<1>1. Typed /\ args \in Arguments /\ ValidateArgs(args)
  BY RunningTyped, Phases DEF Raise
<1>2. UNCHANGED <<args, try, phase, drifting, land, search, loops>>
  BY DEF Raise
<1>3. elev' \in [Sectors -> Int] /\ odd' \in Int
  BY <1>1, RaisedIs DEF Raise, Typed
<1>4. Typed'
  BY <1>1, <1>2, <1>3, ContinentsFixed DEF Typed, drifting, land, search, loops
<1> QED
  BY <1>1, <1>2, <1>4, Phases DEF WellTyped, ValidateArgs

LEMMA WriteTyped == WellTyped /\ Write => WellTyped'
<1> SUFFICES ASSUME WellTyped, Write
             PROVE  WellTyped'
  OBVIOUS
<1>1. Typed /\ args \in Arguments /\ ValidateArgs(args)
  BY RunningTyped, Phases DEF Write
<1>2. phase' = "written" /\ UNCHANGED <<args, try, drifting, land, search, loops, heights>>
  BY DEF Write
<1>3. Typed'
  BY <1>1, <1>2, ContinentsFixed DEF Typed, drifting, land, search, loops, heights
<1> QED
  BY <1>1, <1>2, <1>3, Phases DEF WellTyped, ValidateArgs

LEMMA RefuseTyped == WellTyped /\ Refuse => WellTyped'
BY Phases DEF WellTyped, Refuse

\* Whose turn it is.
LEMMA TurnOfContinent ==
    ASSUME Typed, Progress, args \in Arguments, ValidateArgs(args), phase \in Running \ {"drift"}
    PROVE  turn \in 0..args.nc - 1 /\ turn \in Continents /\ turn \in Islands
<1>1. args.nc \in Nat \ {0} /\ turn \in 0..args.nc
  BY Command DEF Typed
<1>2. turn < args.nc
  BY DEF Progress, Loops
<1>3. turn \in 0..args.nc - 1
  BY <1>1, <1>2
<1> QED
  BY <1>3, IslandNumbers DEF Continents

LEMMA TurnOfIsland ==
    ASSUME Typed, Progress, args \in Arguments, ValidateArgs(args), phase = "islands"
    PROVE  /\ group \in 0..args.ni \div args.nc - 1 /\ Len(isiz) = args.ni \div args.nc
           /\ FirstIsland = Group(group) /\ FirstIsland \in Nat
           /\ \A j \in 0..args.nc - 1 : /\ FirstIsland + j \in Islands /\ FirstIsland + j >= args.nc
                                        /\ (FirstIsland + j) % args.nc = j
           /\ isiz[group + 1] \in Nat \ {0}
<1>1. /\ Len(isiz) = args.ni \div args.nc
      /\ group < Len(isiz)
  BY Phases DEF Progress, Loops, GroupGrowing
<1>2. args.ni \div args.nc \in Nat /\ group \in Nat /\ isiz \in Seq(Nat \ {0})
  BY Command DEF Typed
<1>3. group \in 0..args.ni \div args.nc - 1 /\ group + 1 \in 1..Len(isiz)
  BY <1>1, <1>2
<1>4. FirstIsland = Group(group)
  BY DEF FirstIsland, Group
<1>5. isiz[group + 1] \in Nat \ {0}
  BY <1>2, <1>3
<1>6. 0 \in 0..args.nc - 1
  BY Command
<1> QED
  BY <1>1, <1>3, <1>4, <1>5, <1>6, IslandNumbers

LEMMA NextTurn ==
    ASSUME NEW n \in Nat \ {0}, NEW i \in 0..n - 1
    PROVE  (i + 1) % n = (IF i + 1 = n THEN 0 ELSE i + 1) /\ (i + 1) % n \in 0..n - 1
<1>1. 1 \in -n..n
  OBVIOUS
<1>2. (i + 1) % n = IF i + 1 < 0 THEN i + 1 + n ELSE IF i + 1 >= n THEN i + 1 - n ELSE i + 1
  BY <1>1, Wrapped
<1> QED
  BY <1>2

LEMMA TwinSector ==
    ASSUME NEW s \in Sectors
    PROVE  Plus(s, 2, 0) \in Sectors /\ Plus(s, 2, 0) = Step(s, 2) /\ Plus(s, 2, 0) # s
<1>1. Plus(s, 2, 0) = Step(s, 2) /\ 2 \in Directions
  BY Offsets DEF Step
<1> QED
  BY <1>1, StepSector, StepsDiffer

LEMMA PlaceCapitalTyped == WellTyped /\ Progress /\ PlaceCapital => WellTyped'
<1> SUFFICES ASSUME WellTyped, Progress, PlaceCapital
             PROVE  WellTyped'
  OBVIOUS
<1>1. Typed /\ args \in Arguments /\ ValidateArgs(args) /\ phase \in Running \ {"drift"}
  BY RunningTyped, Phases DEF PlaceCapital
<1>2. turn \in 0..args.nc - 1 /\ turn \in Continents /\ turn \in Islands /\ args.nc \in Nat \ {0}
  BY <1>1, TurnOfContinent, Command
<1>3. UNCHANGED <<args, try, drifting, search, isiz, group, done, carry, heights>>
  BY DEF PlaceCapital
<1>4. CASE phase' = "failed"
  BY <1>1, <1>3, <1>4, Phases DEF WellTyped, ValidateArgs
<1>5. CASE phase' # "failed"
  <2> DEFINE first == cap[turn]
             second == Plus(first, 2, 0)
  <2>1. first \in Sectors /\ second \in Sectors
    BY <1>1, <1>2, TwinSector DEF Typed
  <2>2. /\ sect' = [sect EXCEPT ![turn] = <<first, second>>]
        /\ own' = [own EXCEPT ![first] = turn, ![second] = turn]
        /\ xzone' = Zoned(Zoned(xzone, turn, first, args.di), turn, second, args.di)
        /\ turn' = (turn + 1) % args.nc
        /\ secs' \in {0, 2} /\ UNCHANGED phase
    BY <1>5 DEF PlaceCapital
  <2> HIDE DEF first, second
  <2>3. sect' \in [Islands -> Seq(Sectors)] /\ own' \in [Sectors -> Islands \cup {Sea}]
    <3>1. own' \in [Sectors -> Islands \cup {Sea}]
      BY <1>1, <1>2, <2>1, <2>2 DEF Typed
    <3>2. <<first, second>> \in Seq(Sectors)
      BY <2>1
    <3>3. sect' \in [Islands -> Seq(Sectors)]
      BY <1>1, <1>2, <2>2, <3>2 DEF Typed
    <3> QED
      BY <3>1, <3>3
  <2>4. xzone' \in [Sectors -> Int]
    <3>1. turn \in Int /\ xzone \in [Sectors -> Int]
      BY <1>1, <1>2 DEF Typed
    <3>2. Zoned(xzone, turn, first, args.di) \in [Sectors -> Int]
      BY <3>1, ZonedTyped
    <3>3. Zoned(Zoned(xzone, turn, first, args.di), turn, second, args.di) \in [Sectors -> Int]
      BY <3>1, <3>2, ZonedTyped
    <3> QED
      BY <2>2, <3>3
  <2>5. turn' \in 0..args.nc /\ secs' \in Nat
    BY <1>2, <2>2, NextTurn
  <2>6. Typed'
    BY <1>1, <1>3, <2>3, <2>4, <2>5, ContinentsFixed DEF Typed, drifting, search, heights
  <2> QED
    BY <1>1, <1>3, <2>2, <2>6 DEF WellTyped, ValidateArgs
<1> QED
  BY <1>4, <1>5

LEMMA GrowContinentTyped == WellTyped /\ Progress /\ GrowContinent => WellTyped'
<1> SUFFICES ASSUME WellTyped, Progress, GrowContinent
             PROVE  WellTyped'
  OBVIOUS
<1>1. Typed /\ args \in Arguments /\ ValidateArgs(args) /\ phase \in Running \ {"drift"}
  BY RunningTyped, Phases DEF GrowContinent
<1>2. turn \in 0..args.nc - 1 /\ turn \in Islands /\ args.nc \in Nat \ {0}
  BY <1>1, TurnOfContinent, Command
<1>3. UNCHANGED <<args, try, drifting, search, isiz, group, done, carry, heights>>
  BY DEF GrowContinent
<1>4. CASE phase' = "failed"
  BY <1>1, <1>3, <1>4, Phases DEF WellTyped, ValidateArgs
<1>5. CASE phase' # "failed"
  <2>1. /\ \E spike \in Spikes : \E t \in Candidates(turn, spike) : AddSector(turn, t)
        /\ turn' = (turn + 1) % args.nc
        /\ secs' \in {secs, secs + 1} /\ UNCHANGED phase
    BY <1>5 DEF GrowContinent
  <2>2. PICK t \in Sectors : AddSector(turn, t)
    BY <1>1, <1>2, <2>1, GrowthIs DEF Typed
  <2>3. own' \in [Sectors -> Islands \cup {Sea}] /\ xzone' \in [Sectors -> Int]
        /\ sect' \in [Islands -> Seq(Sectors)]
    BY <1>1, <1>2, <1>3, <2>2, AddTyped
  <2>4. turn' \in 0..args.nc /\ secs' \in Nat
    <3>1. turn' \in 0..args.nc - 1
      BY <1>2, <2>1, NextTurn
    <3>2. secs' \in Nat
      BY <1>1, <2>1 DEF Typed
    <3> QED
      BY <1>2, <3>1, <3>2
  <2>5. Typed'
    BY <1>1, <1>3, <2>3, <2>4, ContinentsFixed DEF Typed, drifting, search, heights
  <2> QED
    BY <1>1, <1>3, <2>1, <2>5 DEF WellTyped, ValidateArgs
<1> QED
  BY <1>4, <1>5

LEMMA PlaceIslandTyped == WellTyped /\ Progress /\ PlaceIsland => WellTyped'
<1> SUFFICES ASSUME WellTyped, Progress, PlaceIsland
             PROVE  WellTyped'
  OBVIOUS
<1>1. Typed /\ args \in Arguments /\ ValidateArgs(args) /\ phase \in Running \ {"drift"} /\ phase = "islands"
  BY RunningTyped, Phases DEF PlaceIsland
<1>2. turn \in 0..args.nc - 1 /\ FirstIsland + turn \in Islands /\ args.nc \in Nat \ {0}
  BY <1>1, TurnOfContinent, TurnOfIsland, Command
<1>3. UNCHANGED <<args, try, drifting, search, isiz, group, done, carry, heights>>
  BY DEF PlaceIsland
<1>4. CASE phase' = "failed"
  BY <1>1, <1>3, <1>4, Phases DEF WellTyped, ValidateArgs
<1>5. CASE phase' # "failed"
  <2>1. /\ \E t \in Places(FirstIsland + turn) : AddSector(FirstIsland + turn, t)
        /\ turn' = (turn + 1) % args.nc
        /\ secs' \in {0, 1} /\ UNCHANGED phase
    BY <1>5 DEF PlaceIsland
  <2>2. PICK t \in Sectors : AddSector(FirstIsland + turn, t)
    BY <2>1 DEF Places
  <2>3. own' \in [Sectors -> Islands \cup {Sea}] /\ xzone' \in [Sectors -> Int]
        /\ sect' \in [Islands -> Seq(Sectors)]
    BY <1>1, <1>2, <1>3, <2>2, AddTyped
  <2>4. turn' \in 0..args.nc /\ secs' \in Nat
    <3>1. turn' \in 0..args.nc - 1
      BY <1>2, <2>1, NextTurn
    <3>2. secs' \in Nat
      BY <1>1, <2>1 DEF Typed
    <3> QED
      BY <1>2, <3>1, <3>2
  <2>5. Typed'
    BY <1>1, <1>3, <2>3, <2>4, ContinentsFixed DEF Typed, drifting, search, heights
  <2> QED
    BY <1>1, <1>3, <2>1, <2>5 DEF WellTyped, ValidateArgs
<1> QED
  BY <1>4, <1>5

LEMMA GrowIslandTyped == WellTyped /\ Progress /\ GrowIsland => WellTyped'
<1> SUFFICES ASSUME WellTyped, Progress, GrowIsland
             PROVE  WellTyped'
  OBVIOUS
<1>1. Typed /\ args \in Arguments /\ ValidateArgs(args) /\ phase \in Running \ {"drift"} /\ phase = "islands"
  BY RunningTyped, Phases DEF GrowIsland
<1> DEFINE c == FirstIsland + turn
<1>2. turn \in 0..args.nc - 1 /\ c \in Islands /\ args.nc \in Nat \ {0}
  BY <1>1, TurnOfContinent, TurnOfIsland, Command
<1>3. UNCHANGED <<args, try, phase, drifting, search, isiz, group, carry, heights>>
  BY DEF GrowIsland
<1>4. /\ \/ done' = FALSE /\ UNCHANGED land
         \/ (\E spike \in Spikes : \E t \in Candidates(c, spike) : AddSector(c, t)) /\ UNCHANGED done
      /\ turn' = (turn + 1) % args.nc
      /\ secs' \in {secs, secs + 1}
  BY DEF GrowIsland
<1> HIDE DEF c
<1>5. /\ own' \in [Sectors -> Islands \cup {Sea}] /\ xzone' \in [Sectors -> Int]
      /\ sect' \in [Islands -> Seq(Sectors)] /\ done' \in BOOLEAN
  <2>1. CASE done' = FALSE /\ UNCHANGED land
    BY <1>1, <2>1 DEF Typed, land
  <2>2. CASE (\E spike \in Spikes : \E t \in Candidates(c, spike) : AddSector(c, t)) /\ UNCHANGED done
    <3>1. PICK t \in Sectors : AddSector(c, t)
      BY <1>1, <1>2, <2>2, GrowthIs DEF Typed
    <3>2. done' \in BOOLEAN
      BY <1>1, <2>2 DEF Typed
    <3> QED
      BY <1>1, <1>2, <1>3, <3>1, <3>2, AddTyped
  <2> QED
    BY <1>4, <2>1, <2>2
<1>6. turn' \in 0..args.nc /\ secs' \in Nat
  <2>1. turn' \in 0..args.nc - 1
    BY <1>2, <1>4, NextTurn
  <2>2. secs' \in Nat
    BY <1>1, <1>4 DEF Typed
  <2> QED
    BY <1>2, <2>1, <2>2
<1>7. Typed'
  BY <1>1, <1>3, <1>5, <1>6, ContinentsFixed DEF Typed, drifting, search, heights
<1> QED
  BY <1>1, <1>3, <1>7 DEF WellTyped, ValidateArgs

LEMMA HeadOfQueue ==
    ASSUME Typed, bfs # << >>
    PROVE  /\ Head(bfs) \in Sectors /\ Head(bfs) = bfs[1] /\ Len(bfs) \in Nat /\ Len(bfs) >= 1
           /\ Tail(bfs) \in Seq(Sectors) /\ Len(Tail(bfs)) = Len(bfs) - 1
           /\ \A i \in 1..Len(bfs) - 1 : Tail(bfs)[i] = bfs[i + 1]
BY DEF Typed

LEMMA SearchTyped == WellTyped /\ Search => WellTyped'
<1> SUFFICES ASSUME WellTyped, Search
             PROVE  WellTyped'
  OBVIOUS
<1>1. Typed /\ args \in Arguments /\ ValidateArgs(args) /\ phase \in Running
  BY RunningTyped, Phases DEF Search
<1>2. UNCHANGED <<args, try, phase, drifting, land, loops, heights>>
  BY DEF Search
<1> DEFINE o == Head(bfs)
<1>3. o \in Sectors /\ Tail(bfs) \in Seq(Sectors)
  BY <1>1, HeadOfQueue DEF Search
<1>4. Found(o) \in Seq(Sectors) /\ \A t \in FoundAt(o) : distance[o] + 1 < distance[t] \/ t \notin Sectors
  BY <1>3, FoundIs DEF Lists
<1>5. /\ bfs' = Tail(bfs) \o Found(o)
      /\ closest' = [t \in Sectors |-> IF t \in FoundAt(o) THEN closest[o]
                        ELSE IF t \in Around(o) /\ distance[t] = distance[o] + 1 /\ closest[t] # closest[o]
                             THEN -1 ELSE closest[t]]
      /\ distance' = [t \in Sectors |-> IF t \in FoundAt(o) THEN distance[o] + 1 ELSE distance[t]]
  BY DEF Search
<1> HIDE DEF o
<1>6. bfs' \in Seq(Sectors)
  BY <1>3, <1>4, <1>5
<1>7. closest' \in [Sectors -> -1..args.nc + args.ni - 1]
  <2>1. -1 \in -1..args.nc + args.ni - 1
    BY <1>1, Command
  <2> QED
    BY <1>1, <1>3, <1>5, <2>1 DEF Typed
<1>8. distance' \in [Sectors -> 0..Far]
  <2>2. distance \in [Sectors -> 0..Far]
    BY <1>1 DEF Typed
  <2>1. \A t \in Sectors : t \in FoundAt(o) => distance[o] + 1 \in 0..Far
    <3>1. \A t \in Sectors : distance[t] \in 0..Far
      BY <2>2
    <3> QED
      BY <1>3, <1>4, <3>1, FarIs
  <2> QED
    BY <1>5, <2>1, <2>2
<1>9. Typed'
  BY <1>1, <1>2, <1>6, <1>7, <1>8, ContinentsFixed DEF Typed, drifting, land, loops, heights
<1> QED
  BY <1>1, <1>2, <1>9 DEF WellTyped, ValidateArgs

\* The rims of the spheres.
LEMMA BorderInOrder == Lists(InOrder(Border, OffsetOrder), Border, Sectors)
<1>1. Border \subseteq Sectors
  BY DEF Border
<1> QED
  BY <1>1, OffsetsAreOrdered, OrderedList

LEMMA BordersTyped == WellTyped /\ SearchFromBorders => WellTyped'
<1> SUFFICES ASSUME WellTyped, SearchFromBorders
             PROVE  WellTyped'
  OBVIOUS
<1>1. Typed /\ args \in Arguments /\ ValidateArgs(args) /\ phase \in Running
  BY RunningTyped, Phases DEF SearchFromBorders
<1>2. /\ UNCHANGED <<args, try, drifting, land, closest, isiz, group, turn, secs, carry, heights>>
      /\ phase' = "borders" /\ done' = FALSE
      /\ distance' = [s \in Sectors |-> IF s \in Border THEN args.id + 1 ELSE distance[s]]
  BY DEF SearchFromBorders
<1>3. bfs' \in Seq(Sectors)
  BY BorderInOrder DEF SearchFromBorders, Lists
<1>4. distance' \in [Sectors -> 0..Far]
  <2>1. args.id \in Nat
    BY <1>1, Command
  <2>2. \A s \in Border : args.id + 1 < distance[s] /\ distance[s] \in 0..Far
    BY <1>1, <2>1, FarIs DEF Border, Typed
  <2>3. \A s \in Border : args.id + 1 \in 0..Far
    BY <2>1, <2>2, FarIs
  <2>4. distance \in [Sectors -> 0..Far]
    BY <1>1 DEF Typed
  <2> QED
    BY <1>2, <2>3, <2>4
<1>5. Typed'
  BY <1>1, <1>2, <1>3, <1>4, ContinentsFixed DEF Typed, drifting, land, heights
<1> QED
  BY <1>1, <1>2, <1>5, Phases DEF WellTyped, ValidateArgs

LEMMA SizeIslandsTyped == WellTyped /\ Land /\ SizeIslands => WellTyped'
<1> SUFFICES ASSUME WellTyped, Land, SizeIslands
             PROVE  WellTyped'
  OBVIOUS
<1>1. Typed /\ args \in Arguments /\ ValidateArgs(args) /\ phase \in Running
  BY RunningTyped, Phases DEF SizeIslands
<1>2. /\ UNCHANGED <<args, try, drifting, land, group, done, carry, heights>>
      /\ phase' \in {"coast", "spheres"} /\ SearchFrom(args.nc) /\ secs' = 0 /\ turn' = 0
  BY DEF SizeIslands
<1>3. isiz' \in Seq(Nat \ {0})
  BY <1>1, SizesAre DEF SizeIslands
<1>4. args.nc \in 0..args.nc + args.ni /\ args.nc \in Nat
  BY <1>1, Command
<1>5. /\ closest' \in [Sectors -> -1..args.nc + args.ni - 1] /\ distance' \in [Sectors -> 0..Far]
      /\ bfs' \in Seq(Sectors)
  BY <1>1, <1>2, <1>4, SearchBegins DEF Lists
<1>6. turn' \in 0..args.nc /\ secs' \in Nat
  BY <1>2, <1>4
<1>7. Typed'
  BY <1>1, <1>2, <1>3, <1>5, <1>6, ContinentsFixed DEF Typed, drifting, land, heights
<1> QED
  BY <1>1, <1>2, <1>7, Phases DEF WellTyped, ValidateArgs

LEMMA MaxOfOne == \A x \in Int : Max({x}) = x
BY DEF Max

\* The zones computed anew are what the sectors of the first islands ask for.
LEMMA ZonesAroundIs ==
    ASSUME Typed, args \in Arguments, ValidateArgs(args), NEW n \in 0..args.nc + args.ni
    PROVE  /\ ZonesAround(n) \in [Sectors -> Int]
           /\ \A t \in Sectors : own[t] \notin 0..n - 1 =>
                \A c \in 0..n - 1 : \A s \in SectorsOf(c) :
                  t = s \/ (\E d \in 1..args.id : t \in Ring(s, d)) =>
                    ZonesAround(n)[t] \in {own[s], Contested}
<1> DEFINE Own == UNION {SectorsOf(c) : c \in 0..n - 1}
           zone(t) == {own[s] : s \in {s \in Own : t = s \/ \E d \in 1..args.id : t \in Ring(s, d)}}
           Z(t) == IF own[t] \in 0..n - 1 THEN own[t] ELSE IF zone(t) = {} THEN -1
                   ELSE IF Cardinality(zone(t)) = 1 THEN Max(zone(t)) ELSE Contested
<1>1. ZonesAround(n) = [t \in Sectors |-> Z(t)]
  BY DEF ZonesAround
<1>2. /\ \A c \in 0..n - 1 : c \in Islands
      /\ Islands \cup {Sea} \subseteq Int
  BY Command, IslandNumbers DEF Islands, Sea
<1>3. \A c \in 0..n - 1 : SectorsOf(c) \subseteq Sectors
  BY <1>2, ListedSectors DEF Typed
<1>4. \A t : zone(t) \subseteq Int
  <2>1. Own \subseteq Sectors
    BY <1>3
  <2>2. \A s \in Own : own[s] \in Int
    BY <1>2, <2>1 DEF Typed
  <2> QED
    BY <2>2
<1>5. \A t : Cardinality(zone(t)) = 1 => \E x \in Int : zone(t) = {x} /\ Max(zone(t)) = x
  <2> SUFFICES ASSUME NEW t, Cardinality(zone(t)) = 1
               PROVE  \E x \in Int : zone(t) = {x} /\ Max(zone(t)) = x
    OBVIOUS
  <2>1. IsFiniteSet(zone(t))
    <3>1. IsFiniteSet(Own)
      <4>1. Own \subseteq Sectors
        BY <1>3
      <4> HIDE DEF Own
      <4> QED
        BY <4>1, SectorsFinite, FS_Subset
    <3> DEFINE near == {s \in Own : t = s \/ \E d \in 1..args.id : t \in Ring(s, d)}
    <3>2. IsFiniteSet(near)
      <4>1. near \subseteq Own
        OBVIOUS
      <4> HIDE DEF near, Own
      <4> QED
        BY <3>1, <4>1, FS_Subset
    <3>3. zone(t) = {own[s] : s \in near}
      OBVIOUS
    <3> DEFINE f == [s \in near |-> own[s]]
    <3> HIDE DEF near, zone
    <3>4. f \in Surjection(near, zone(t))
      BY <3>3 DEF Surjection
    <3> HIDE DEF f
    <3> QED
      BY <3>2, <3>4, FS_Surjection
  <2> HIDE DEF zone
  <2>2. PICK x : zone(t) = {x}
    BY <2>1, FS_Singleton
  <2>3. x \in Int
    BY <1>4, <2>2
  <2> QED
    BY <2>2, <2>3, MaxOfOne
<1>6. ASSUME NEW t \in Sectors
      PROVE  Z(t) \in Int
  <2>1. own[t] \in Int
    BY <1>2 DEF Typed
  <2> HIDE DEF zone
  <2> QED
    BY <1>5, <2>1 DEF Contested
<1>7. ASSUME NEW t \in Sectors, own[t] \notin 0..n - 1, NEW c \in 0..n - 1, NEW s \in SectorsOf(c),
             t = s \/ \E d \in 1..args.id : t \in Ring(s, d)
      PROVE  Z(t) \in {own[s], Contested}
  <2>1. own[s] \in zone(t)
    BY <1>7
  <2> HIDE DEF zone
  <2> QED
    BY <1>5, <1>7, <2>1
<1> QED
  BY <1>1, <1>6, <1>7

LEMMA StartGroupTyped == WellTyped /\ Land /\ Progress /\ StartGroup => WellTyped'
<1> SUFFICES ASSUME WellTyped, Land, Progress, StartGroup
             PROVE  WellTyped'
  OBVIOUS
<1>1. Typed /\ args \in Arguments /\ ValidateArgs(args) /\ phase \in Running /\ phase = "borders"
  BY RunningTyped, Phases DEF StartGroup
<1>2. UNCHANGED <<args, try, drifting, own, adjLand, sect, isiz, group, turn, secs, heights>>
  BY DEF StartGroup
<1>3. CASE group = Len(isiz)
  <2>1. /\ phase' = "coast" /\ SearchFrom(args.nc + args.ni) /\ UNCHANGED <<xzone, done, carry>>
    BY <1>3 DEF StartGroup
  <2>2. args.nc + args.ni \in 0..args.nc + args.ni
    BY <1>1, Command
  <2>3. /\ closest' \in [Sectors -> -1..args.nc + args.ni - 1] /\ distance' \in [Sectors -> 0..Far]
        /\ bfs' \in Seq(Sectors)
    BY <1>1, <2>1, <2>2, SearchBegins DEF Lists
  <2>4. Typed'
    BY <1>1, <1>2, <2>1, <2>3, ContinentsFixed DEF Typed, drifting, heights
  <2> QED
    BY <1>1, <1>2, <2>1, <2>4, Phases DEF WellTyped, ValidateArgs
<1>4. CASE group # Len(isiz)
  <2>1. /\ phase' = "islands"
        /\ xzone' = IF done THEN xzone ELSE ZonesAround(FirstIsland)
        /\ carry' = carry + isiz[group + 1]
        /\ done' = TRUE
        /\ UNCHANGED search
    BY <1>4 DEF StartGroup
  <2>2. group \in 0..args.ni \div args.nc - 1 /\ Len(isiz) = args.ni \div args.nc
    BY <1>1, <1>4, Command, Phases DEF Typed, Progress, Loops
  <2>3. isiz[group + 1] \in Nat
    BY <1>1, <2>2, Command DEF Typed
  <2>4. FirstIsland \in 0..args.nc + args.ni
    <3>1. Group(group) + 0 \in Islands /\ Group(group) \in Nat /\ FirstIsland = Group(group)
      <4>1. 0 \in 0..args.nc - 1
        BY <1>1, Command
      <4>2. Group(group) + 0 \in Islands /\ Group(group) \in Nat
        BY <1>1, <2>2, <4>1, IslandNumbers
      <4> QED
        BY <4>2 DEF FirstIsland, Group
    <3> QED
      BY <1>1, <3>1, Command DEF Islands
  <2>5. xzone' \in [Sectors -> Int]
    BY <1>1, <2>1, <2>4, ZonesAroundIs DEF Typed
  <2>6. carry' \in Int
    BY <1>1, <2>1, <2>3 DEF Typed
  <2>7. Typed'
    BY <1>1, <1>2, <2>1, <2>5, <2>6, ContinentsFixed DEF Typed, drifting, heights, search
  <2> QED
    BY <1>1, <1>2, <2>1, <2>7, Phases DEF WellTyped, ValidateArgs
<1> QED
  BY <1>3, <1>4

LEMMA FrontIs ==
    ASSUME NEW U, NEW q \in Seq(U), Len(q) >= 1
    PROVE  /\ Front(q) \in Seq(U) /\ Len(Front(q)) = Len(q) - 1
           /\ \A i \in 1..Len(q) - 1 : Front(q)[i] = q[i]
           /\ Last(q) = q[Len(q)] /\ Last(q) \in U
<1> DEFINE n == Len(q) - 1
<1>1. n \in Int /\ 1 \in Int /\ \A i \in 1..n : q[i] \in U
  OBVIOUS
<1>2. /\ SubSeq(q, 1, n) \in Seq(U)
      /\ Len(SubSeq(q, 1, n)) = IF 1 <= n THEN n - 1 + 1 ELSE 0
      /\ \A i \in 1..n - 1 + 1 : SubSeq(q, 1, n)[i] = q[1 + i - 1]
  <2> HIDE DEF n
  <2> QED
    BY <1>1, SubSeqProperties
<1>3. Front(q) = SubSeq(q, 1, n) /\ Last(q) = q[Len(q)]
  BY DEF Front, Last
<1>4. n \in Nat /\ n = Len(q) - 1
  OBVIOUS
<1> HIDE DEF n
<1>5. /\ Front(q) \in Seq(U) /\ Len(Front(q)) = n /\ \A i \in 1..n : Front(q)[i] = q[i]
  BY <1>2, <1>3, <1>4
<1> QED
  BY <1>3, <1>4, <1>5

\* What is cut back: the last sector of the islands that got one more than others.
Settled == IF done THEN secs ELSE secs - 1
CutBack == {c \in FirstIsland..FirstIsland + args.nc - 1 : Len(sect[c]) # Settled}
LEMMA CutIs ==
    ASSUME Typed, Progress, args \in Arguments, ValidateArgs(args),
           phase = "islands", turn = 0, secs >= 1
    PROVE  /\ Settled \in Nat /\ Settled >= 1
           /\ \A c \in FirstIsland..FirstIsland + args.nc - 1 :
                /\ c \in Islands /\ c >= args.nc
                /\ \E j \in 0..args.nc - 1 : c = Group(group) + j
                /\ Len(sect[c]) = IF c \in CutBack THEN Settled + 1 ELSE Settled
<1>1. args.nc \in Nat \ {0} /\ secs \in Nat /\ done \in BOOLEAN
  BY Command DEF Typed
<1>2. /\ FirstIsland = Group(group) /\ FirstIsland \in Nat
      /\ \A j \in 0..args.nc - 1 : FirstIsland + j \in Islands /\ FirstIsland + j >= args.nc
  BY TurnOfIsland
<1>3. GroupGrowing
  BY Phases DEF Progress, Loops
<1>4. ~done => secs >= 2
  BY <1>3 DEF GroupGrowing
<1>5. Settled \in Nat /\ Settled >= 1
  BY <1>1, <1>4 DEF Settled
<1>6. \A j \in 0..args.nc - 1 : Len(sect[FirstIsland + j]) \in {Settled, Settled + 1}
  <2> SUFFICES ASSUME NEW j \in 0..args.nc - 1
               PROVE  Len(sect[FirstIsland + j]) \in {Settled, Settled + 1}
    OBVIOUS
  <2>1. Grew(j) = 0
    BY <1>1 DEF Grew
  <2>2. IF done THEN Len(sect[Group(group) + j]) = secs + Grew(j)
        ELSE Len(sect[Group(group) + j]) \in {secs - 1, secs}
    BY <1>3 DEF GroupGrowing
  <2> QED
    BY <1>1, <1>2, <2>1, <2>2 DEF Settled
<1>7. \A c \in FirstIsland..FirstIsland + args.nc - 1 : \E j \in 0..args.nc - 1 : c = FirstIsland + j
  <2> DEFINE f == FirstIsland
  <2>1. f \in Nat
    BY <1>2
  <2> HIDE DEF f
  <2>2. \A c \in f..f + args.nc - 1 : c - f \in 0..args.nc - 1 /\ c = f + (c - f)
    BY <1>1, <2>1
  <2>3. \A c \in f..f + args.nc - 1 : \E j \in 0..args.nc - 1 : c = f + j
    BY <2>2
  <2> QED
    BY <2>3 DEF f
<1> QED
  BY <1>2, <1>5, <1>6, <1>7 DEF CutBack

\* What the end of a group leaves of the map.
LEMMA EndGroupIs ==
    ASSUME Typed, Progress, args \in Arguments, ValidateArgs(args), EndGroup
    PROVE  LET popped == {Last(sect[c]) : c \in CutBack}
           IN  /\ sect' = [c \in Islands |-> IF c \in CutBack THEN Front(sect[c]) ELSE sect[c]]
               /\ own' = [s \in Sectors |-> IF s \in popped THEN Sea ELSE own[s]]
               /\ adjLand' = [t \in Sectors |-> adjLand[t] \ {d \in Directions : Step(t, d) \in popped}]
               /\ carry' = carry - Settled
<1> DEFINE size == IF done THEN secs ELSE secs - 1
           Cut(c) == c \in FirstIsland..FirstIsland + args.nc - 1 /\ Len(sect[c]) # size
           popped == {Last(sect[c]) : c \in {c \in Islands : Cut(c)}}
<1>1. size = Settled
  BY DEF Settled
<1>2. \A c : Cut(c) <=> c \in CutBack
  BY <1>1 DEF CutBack
<1>3. CutBack \subseteq Islands
  BY CutIs DEF CutBack, EndGroup
<1>4. popped = {Last(sect[c]) : c \in CutBack}
  BY <1>2, <1>3
<1>5. /\ sect' = [c \in Islands |-> IF Cut(c) THEN Front(sect[c]) ELSE sect[c]]
      /\ own' = [s \in Sectors |-> IF s \in popped THEN Sea ELSE own[s]]
      /\ adjLand' = [t \in Sectors |-> adjLand[t] \ {d \in Directions : Step(t, d) \in popped}]
      /\ carry' = carry - size
  BY DEF EndGroup
<1> HIDE DEF size, Cut, popped
<1> QED
  BY <1>1, <1>2, <1>4, <1>5

LEMMA EndGroupTyped == WellTyped /\ Progress /\ EndGroup => WellTyped'
<1> SUFFICES ASSUME WellTyped, Progress, EndGroup
             PROVE  WellTyped'
  OBVIOUS
<1>1. Typed /\ args \in Arguments /\ ValidateArgs(args) /\ phase \in Running /\ phase = "islands"
      /\ turn = 0 /\ secs >= 1
  BY RunningTyped, Phases DEF EndGroup
<1>2. /\ UNCHANGED <<args, try, drifting, xzone, search, isiz, turn, done, heights>>
      /\ phase' = "borders" /\ group' = group + 1 /\ secs' = 0
  BY DEF EndGroup
<1> DEFINE popped == {Last(sect[c]) : c \in CutBack}
<1>3. /\ sect' = [c \in Islands |-> IF c \in CutBack THEN Front(sect[c]) ELSE sect[c]]
      /\ own' = [s \in Sectors |-> IF s \in popped THEN Sea ELSE own[s]]
      /\ carry' = carry - Settled
  BY <1>1, EndGroupIs
<1>4. sect' \in [Islands -> Seq(Sectors)]
  <2>1. \A c \in Islands : c \in CutBack => Front(sect[c]) \in Seq(Sectors)
    <3> SUFFICES ASSUME NEW c \in Islands, c \in CutBack
                 PROVE  Front(sect[c]) \in Seq(Sectors)
      OBVIOUS
    <3>1. sect[c] \in Seq(Sectors)
      BY <1>1 DEF Typed
    <3>2. Len(sect[c]) >= 1
      BY <1>1, CutIs DEF CutBack
    <3> QED
      BY <3>1, <3>2, FrontIs
  <2>2. sect \in [Islands -> Seq(Sectors)]
    BY <1>1 DEF Typed
  <2> QED
    BY <1>3, <2>1, <2>2
<1>5. own' \in [Sectors -> Islands \cup {Sea}]
  <2> HIDE DEF popped
  <2> QED
    BY <1>1, <1>3 DEF Typed
<1>6. carry' \in Int /\ group' \in Nat /\ secs' \in Nat
  BY <1>1, <1>2, <1>3, CutIs DEF Typed
<1>7. Typed'
  BY <1>1, <1>2, <1>4, <1>5, <1>6, ContinentsFixed DEF Typed, drifting, heights, search
<1> QED
  BY <1>1, <1>2, <1>7, Phases DEF WellTyped, ValidateArgs

-----------------------------------------------------------------------------
(* The map and what is kept about it. *)

LEMMA LandKept ==
    ASSUME Land, phase \in Running, UNCHANGED <<args, own, adjLand, sect>>
    PROVE  Land'
BY DEF Land, Mapped, IsLand, SectorsOf, Islands

LEMMA BlankMapped ==
    ASSUME args \in Arguments, ValidateArgs(args), UNCHANGED args, Blank(args)
    PROVE  Mapped'
<1>1. \A s \in Sectors : \A d \in Directions : Step(s, d) \in Sectors
  BY StepSector
<1>2. /\ own' = [s \in Sectors |-> Sea]
      /\ adjLand' = [s \in Sectors |-> {}]
      /\ sect' = [c \in Islands' |-> << >>]
  BY DEF Blank, Islands
<1>3. adjLand' = [s \in Sectors |-> {d \in Directions : IsLand(Step(s, d))'}]
  BY <1>1, <1>2 DEF IsLand
<1>4. \A s \in Sectors : ~IsLand(s)'
  BY <1>2 DEF IsLand
<1>5. \A c \in Islands' : Len(sect'[c]) = 0
  BY <1>2
<1> QED
  BY <1>3, <1>4, <1>5 DEF Mapped

LEMMA AddMapped ==
    ASSUME Typed, Mapped, args \in Arguments, ValidateArgs(args), UNCHANGED args,
           NEW c \in Islands, NEW t \in Sectors, own[t] = Sea, AddSector(c, t)
    PROVE  Mapped'
<1>1. c # Sea /\ Islands' = Islands
  BY IslandNumbers, ContinentsFixed DEF Sea
<1>2. /\ own' = [own EXCEPT ![t] = c] /\ own \in [Sectors -> Islands \cup {Sea}]
      /\ sect' = [sect EXCEPT ![c] = Append(@, t)] /\ sect \in [Islands -> Seq(Sectors)]
      /\ adjLand' = AdjLand(t, TRUE)
  BY DEF AddSector, Typed
<1>3. adjLand' = [s \in Sectors |-> {d \in Directions : IsLand(Step(s, d))'}]
  <2> SUFFICES ASSUME NEW s \in Sectors
               PROVE  adjLand[s] \cup {DirBack(d) : d \in {d \in Directions : Step(t, d) = s}}
                        = {d \in Directions : IsLand(Step(s, d))'}
    BY <1>2 DEF AdjLand
  <2>1. adjLand[s] = {d \in Directions : own[Step(s, d)] # Sea}
    BY DEF Mapped, IsLand
  <2>2. {DirBack(d) : d \in {d \in Directions : Step(t, d) = s}} = {d \in Directions : Step(s, d) = t}
    BY StepBack, BackAndForth
  <2>3. \A d \in Directions : IsLand(Step(s, d))' <=> own[Step(s, d)] # Sea \/ Step(s, d) = t
    BY <1>1, <1>2, StepSector DEF IsLand
  <2> QED
    BY <2>1, <2>2, <2>3
<1>4. Len(sect'[c]) = Len(sect[c]) + 1 /\ sect'[c][Len(sect[c]) + 1] = t /\ Len(sect[c]) \in Nat
      /\ \A k \in 1..Len(sect[c]) : sect'[c][k] = sect[c][k]
  BY <1>2
<1>5. \A b \in Islands : b # c => sect'[b] = sect[b]
  BY <1>2
<1>6. \A b \in Islands : \A k \in 1..Len(sect[b]) : sect[b][k] \in Sectors /\ own[sect[b][k]] = b /\ sect[b][k] # t
  <2>1. \A b \in Islands : \A k \in 1..Len(sect[b]) : sect[b][k] \in Sectors
    BY <1>2
  <2>2. \A b \in Islands : b # Sea
    BY IslandNumbers DEF Sea
  <2> QED
    BY <2>1, <2>2 DEF Mapped
<1>7. ASSUME NEW s \in Sectors, IsLand(s)'
      PROVE  s \in SectorsOf(own[s])'
  <2>0. sect' \in [Islands -> Seq(Sectors)]
    BY AddTyped
  <2>1. CASE s = t
    <3>1. own'[s] = c
      BY <1>2, <2>1
    <3>2. Len(sect[c]) + 1 \in 1..Len(sect'[c]) /\ DOMAIN sect'[c] = 1..Len(sect'[c])
      BY <1>4, <2>0
    <3> QED
      BY <1>4, <2>1, <3>1, <3>2 DEF SectorsOf, ToSet
  <2>2. CASE s # t
    <3>1. own'[s] = own[s] /\ own[s] # Sea
      BY <1>2, <1>7, <2>2 DEF IsLand
    <3>2. s \in SectorsOf(own[s]) /\ own[s] \in Islands
      BY <1>2, <3>1 DEF Mapped, IsLand
    <3>3. PICK k \in 1..Len(sect[own[s]]) : sect[own[s]][k] = s
      BY <1>2, <3>2, ListedSectors
    <3>4. k \in 1..Len(sect'[own[s]]) /\ sect'[own[s]][k] = s
      <4>1. CASE own[s] = c
        BY <1>4, <3>3, <4>1
      <4>2. CASE own[s] # c
        BY <1>5, <3>2, <3>3, <4>2
      <4> QED
        BY <4>1, <4>2
    <3>5. DOMAIN sect'[own[s]] = 1..Len(sect'[own[s]])
      BY <2>0, <3>2
    <3> QED
      BY <3>1, <3>4, <3>5 DEF SectorsOf, ToSet
  <2> QED
    BY <2>1, <2>2
<1>8. ASSUME NEW b \in Islands
      PROVE  /\ \A k \in 1..Len(sect'[b]) : own'[sect'[b][k]] = b
             /\ \A k, l \in 1..Len(sect'[b]) : sect'[b][k] = sect'[b][l] => k = l
  <2>1. CASE b = c
    <3>1. \A k \in 1..Len(sect'[c]) : k \in 1..Len(sect[c]) \/ k = Len(sect[c]) + 1
      BY <1>4
    <3>2. \A k \in 1..Len(sect'[c]) : own'[sect'[c][k]] = c
      BY <1>2, <1>4, <1>6, <3>1
    <3>3. \A k, l \in 1..Len(sect'[c]) : sect'[c][k] = sect'[c][l] => k = l
      <4>1. \A k, l \in 1..Len(sect[c]) : sect[c][k] = sect[c][l] => k = l
        BY DEF Mapped
      <4>2. \A k \in 1..Len(sect[c]) : sect'[c][k] # t
        BY <1>4, <1>6
      <4> QED
        BY <1>4, <3>1, <4>1, <4>2
    <3> QED
      BY <2>1, <3>2, <3>3
  <2>2. CASE b # c
    BY <1>2, <1>5, <1>6, <2>2 DEF Mapped
  <2> QED
    BY <2>1, <2>2
<1> QED
  BY <1>1, <1>3, <1>7, <1>8 DEF Mapped

\* Membership in a list, of the next state.
LEMMA ListedAfter ==
    ASSUME NEW q \in [Islands -> Seq(Sectors)], NEW c \in Islands, NEW s
    PROVE  s \in ToSet(q[c]) <=> \E k \in 1..Len(q[c]) : q[c][k] = s
<1>1. q[c] \in Seq(Sectors)
  OBVIOUS
<1>2. DOMAIN q[c] = 1..Len(q[c])
  BY <1>1
<1> QED
  BY <1>2 DEF ToSet

LEMMA PlaceCapitalMapped ==
    ASSUME Typed, Mapped, Progress, args \in Arguments, ValidateArgs(args), PlaceCapital,
           phase' # "failed"
    PROVE  Mapped'
<1> DEFINE c == turn
           first == cap[c]
           second == Plus(first, 2, 0)
<1>1. phase \in Running \ {"drift"} /\ UNCHANGED args
  BY Phases DEF PlaceCapital
<1>2. c \in Continents /\ c \in Islands /\ c # Sea /\ c \in Nat /\ Islands' = Islands
  BY <1>1, TurnOfContinent, IslandNumbers, ContinentsFixed DEF Sea
<1>3. first \in Sectors /\ second \in Sectors /\ first # second
  BY <1>2, TwinSector DEF Typed
<1>4. /\ sect' = [sect EXCEPT ![c] = <<first, second>>] /\ sect \in [Islands -> Seq(Sectors)]
      /\ own' = [own EXCEPT ![first] = c, ![second] = c] /\ own \in [Sectors -> Islands \cup {Sea}]
      /\ adjLand' = [s \in Sectors |-> adjLand[s] \cup {d \in Directions : Step(s, d) \in {first, second}}]
      /\ CanGrowAt(c, first) /\ CanGrowAt(c, second)
  BY DEF PlaceCapital, Typed
<1>5. own[first] = Sea /\ own[second] = Sea
  BY <1>4 DEF CanGrowAt
<1>6. Len(sect[c]) = 0
  <2>1. phase = "continents" /\ secs = 0 /\ ContinentSizes
    BY <1>1 DEF PlaceCapital, Progress, Loops
  <2>2. Grew(c) = 0
    BY <1>2 DEF Grew
  <2> QED
    BY <1>2, <2>1, <2>2 DEF ContinentSizes
<1> HIDE DEF c, first, second
<1>7. adjLand' = [s \in Sectors |-> {d \in Directions : IsLand(Step(s, d))'}]
  <2> SUFFICES ASSUME NEW s \in Sectors
               PROVE  adjLand[s] \cup {d \in Directions : Step(s, d) \in {first, second}}
                        = {d \in Directions : IsLand(Step(s, d))'}
    BY <1>4
  <2>1. adjLand[s] = {d \in Directions : own[Step(s, d)] # Sea}
    BY DEF Mapped, IsLand
  <2>2. \A d \in Directions : IsLand(Step(s, d))' <=> own[Step(s, d)] # Sea \/ Step(s, d) \in {first, second}
    BY <1>2, <1>4, StepSector DEF IsLand
  <2> QED
    BY <2>1, <2>2
<1>8. sect' \in [Islands -> Seq(Sectors)] /\ sect'[c] = <<first, second>>
      /\ \A b \in Islands \ {c} : sect'[b] = sect[b]
  <2>1. <<first, second>> \in Seq(Sectors)
    BY <1>3
  <2> QED
    BY <1>2, <1>4, <2>1
<1>9. Len(sect'[c]) = 2 /\ sect'[c][1] = first /\ sect'[c][2] = second
  BY <1>8
<1>10. \A b \in Islands : \A k \in 1..Len(sect[b]) :
         sect[b][k] \in Sectors /\ own[sect[b][k]] = b /\ sect[b][k] \notin {first, second}
  <2>1. \A b \in Islands : \A k \in 1..Len(sect[b]) : sect[b][k] \in Sectors
    BY <1>4
  <2>2. \A b \in Islands : b # Sea
    BY IslandNumbers DEF Sea
  <2> QED
    BY <1>5, <2>1, <2>2 DEF Mapped
<1>11. ASSUME NEW s \in Sectors, IsLand(s)'
       PROVE  s \in SectorsOf(own[s])'
  <2>1. CASE s \in {first, second}
    <3>1. own'[s] = c
      BY <1>3, <1>4, <2>1
    <3>2. \E k \in 1..Len(sect'[c]) : sect'[c][k] = s
      BY <1>9, <2>1
    <3>3. s \in ToSet(sect'[c])
      BY <1>2, <1>8, <3>2 DEF ToSet
    <3> QED
      BY <3>1, <3>3 DEF SectorsOf
  <2>2. CASE s \notin {first, second}
    <3>1. own'[s] = own[s] /\ own[s] # Sea
      BY <1>3, <1>4, <1>11, <2>2 DEF IsLand
    <3>2. s \in SectorsOf(own[s]) /\ own[s] \in Islands
      BY <1>4, <3>1 DEF Mapped, IsLand
    <3>3. own[s] # c
      BY <1>4, <1>6, <3>2, ListedSectors
    <3>4. SectorsOf(own[s])' = SectorsOf(own[s])
      BY <1>8, <3>1, <3>2, <3>3 DEF SectorsOf
    <3> QED
      BY <3>1, <3>2, <3>4
  <2> QED
    BY <2>1, <2>2
<1>12. ASSUME NEW b \in Islands
       PROVE  /\ \A k \in 1..Len(sect'[b]) : own'[sect'[b][k]] = b
              /\ \A k, l \in 1..Len(sect'[b]) : sect'[b][k] = sect'[b][l] => k = l
  <2>1. CASE b = c
    <3>1. \A k \in 1..Len(sect'[c]) : k \in {1, 2}
      BY <1>9
    <3>2. own'[first] = c /\ own'[second] = c
      BY <1>3, <1>4
    <3>3. \A k \in 1..Len(sect'[c]) : own'[sect'[c][k]] = c
      BY <1>9, <3>1, <3>2
    <3>4. \A k, l \in 1..Len(sect'[c]) : sect'[c][k] = sect'[c][l] => k = l
      BY <1>3, <1>9, <3>1
    <3> QED
      BY <2>1, <3>3, <3>4
  <2>2. CASE b # c
    BY <1>4, <1>8, <1>10, <2>2 DEF Mapped
  <2> QED
    BY <2>1, <2>2
<1> QED
  BY <1>2, <1>7, <1>11, <1>12 DEF Mapped

\* The sectors given back are the last of their islands, and nothing else.
LEMMA PoppedIs ==
    ASSUME Typed, Mapped, Progress, args \in Arguments, ValidateArgs(args),
           phase = "islands", turn = 0, secs >= 1
    PROVE  /\ \A c \in CutBack : /\ c \in Islands /\ c >= args.nc /\ Len(sect[c]) >= 2
                                 /\ Last(sect[c]) = sect[c][Len(sect[c])]
                                 /\ Last(sect[c]) \in Sectors /\ own[Last(sect[c])] = c
           /\ \A c \in Islands : \A k \in 1..Len(sect[c]) :
                (\E b \in CutBack : sect[c][k] = Last(sect[b])) <=> c \in CutBack /\ k = Len(sect[c])
<1>1. \A c \in CutBack : /\ c \in Islands /\ c >= args.nc /\ Len(sect[c]) >= 2
                         /\ sect[c] \in Seq(Sectors)
  BY CutIs DEF CutBack, Typed
<1>2. \A c \in CutBack : /\ Last(sect[c]) = sect[c][Len(sect[c])]
                         /\ Last(sect[c]) \in Sectors
                         /\ Len(sect[c]) \in 1..Len(sect[c])
  BY <1>1, FrontIs
<1>3. \A c \in CutBack : own[Last(sect[c])] = c
  BY <1>1, <1>2 DEF Mapped
<1>4. \A c \in Islands : \A k \in 1..Len(sect[c]) :
        (\E b \in CutBack : sect[c][k] = Last(sect[b])) <=> c \in CutBack /\ k = Len(sect[c])
  <2> SUFFICES ASSUME NEW c \in Islands, NEW k \in 1..Len(sect[c])
               PROVE  (\E b \in CutBack : sect[c][k] = Last(sect[b])) <=> c \in CutBack /\ k = Len(sect[c])
    OBVIOUS
  <2>1. own[sect[c][k]] = c
    BY DEF Mapped
  <2>2. \A b \in CutBack : sect[c][k] = Last(sect[b]) => b = c
    BY <1>3, <2>1
  <2>3. c \in CutBack /\ sect[c][k] = Last(sect[c]) => k = Len(sect[c])
    BY <1>2 DEF Mapped
  <2> QED
    BY <1>2, <2>2, <2>3
<1> QED
  BY <1>1, <1>2, <1>3, <1>4

LEMMA EndGroupMapped ==
    ASSUME Typed, Mapped, Progress, args \in Arguments, ValidateArgs(args), EndGroup
    PROVE  Mapped'
<1> DEFINE popped == {Last(sect[c]) : c \in CutBack}
           In(c) == IF c \in CutBack THEN Len(sect[c]) - 1 ELSE Len(sect[c])
<1>1. phase = "islands" /\ turn = 0 /\ secs >= 1 /\ UNCHANGED args
  BY DEF EndGroup
<1>2. /\ sect' = [c \in Islands |-> IF c \in CutBack THEN Front(sect[c]) ELSE sect[c]]
      /\ own' = [s \in Sectors |-> IF s \in popped THEN Sea ELSE own[s]]
      /\ adjLand' = [t \in Sectors |-> adjLand[t] \ {d \in Directions : Step(t, d) \in popped}]
  BY EndGroupIs
<1>3. /\ \A c \in CutBack : c \in Islands /\ Len(sect[c]) >= 2
      /\ \A c \in Islands : \A k \in 1..Len(sect[c]) :
           sect[c][k] \in popped <=> c \in CutBack /\ k = Len(sect[c])
  BY <1>1, PoppedIs
<1>4. sect \in [Islands -> Seq(Sectors)] /\ own \in [Sectors -> Islands \cup {Sea}] /\ Islands' = Islands
  BY <1>1, ContinentsFixed DEF Typed
<1> HIDE DEF popped
<1>5. ASSUME NEW c \in Islands
      PROVE  /\ In(c) \in Nat /\ Len(sect'[c]) = In(c) /\ sect'[c] \in Seq(Sectors)
             /\ \A k \in 1..In(c) : /\ k \in 1..Len(sect[c]) /\ sect'[c][k] = sect[c][k]
                                    /\ sect[c][k] \notin popped
  <2>1. sect[c] \in Seq(Sectors) /\ Len(sect[c]) \in Nat
    BY <1>4
  <2>2. CASE c \in CutBack
    <3>1. Len(sect[c]) >= 2 /\ sect'[c] = Front(sect[c]) /\ In(c) = Len(sect[c]) - 1
      BY <1>2, <1>3, <2>2
    <3>2. /\ Front(sect[c]) \in Seq(Sectors) /\ Len(Front(sect[c])) = Len(sect[c]) - 1
          /\ \A i \in 1..Len(sect[c]) - 1 : Front(sect[c])[i] = sect[c][i]
      BY <2>1, <3>1, FrontIs
    <3>3. \A k \in 1..Len(sect[c]) - 1 : k \in 1..Len(sect[c]) /\ k # Len(sect[c])
      BY <2>1
    <3>4. In(c) \in Nat /\ Len(sect'[c]) = In(c) /\ sect'[c] \in Seq(Sectors)
      BY <2>1, <3>1, <3>2
    <3>5. \A k \in 1..In(c) : sect'[c][k] = sect[c][k]
      BY <3>1, <3>2
    <3>6. \A k \in 1..In(c) : k \in 1..Len(sect[c]) /\ sect[c][k] \notin popped
      BY <1>3, <3>1, <3>3
    <3> HIDE DEF In
    <3> QED
      BY <3>4, <3>5, <3>6
  <2>3. CASE c \notin CutBack
    BY <1>2, <1>3, <2>1, <2>3
  <2> QED
    BY <2>2, <2>3
<1> HIDE DEF In
<1>6. adjLand' = [s \in Sectors |-> {d \in Directions : IsLand(Step(s, d))'}]
  <2> SUFFICES ASSUME NEW s \in Sectors
               PROVE  adjLand[s] \ {d \in Directions : Step(s, d) \in popped}
                        = {d \in Directions : IsLand(Step(s, d))'}
    BY <1>2
  <2>1. adjLand[s] = {d \in Directions : own[Step(s, d)] # Sea}
    BY DEF Mapped, IsLand
  <2>2. \A d \in Directions : IsLand(Step(s, d))' <=> own[Step(s, d)] # Sea /\ Step(s, d) \notin popped
    BY <1>2, StepSector DEF IsLand
  <2> QED
    BY <2>1, <2>2
<1>7. ASSUME NEW s \in Sectors, IsLand(s)'
      PROVE  s \in SectorsOf(own[s])'
  <2>1. own'[s] = own[s] /\ own[s] # Sea /\ s \notin popped
    BY <1>2, <1>7 DEF IsLand
  <2>2. s \in SectorsOf(own[s]) /\ own[s] \in Islands
    BY <1>4, <2>1 DEF Mapped, IsLand
  <2>3. PICK k \in 1..Len(sect[own[s]]) : sect[own[s]][k] = s
    BY <1>4, <2>2, ListedSectors
  <2>4. k \in 1..In(own[s])
    <3>1. ~(own[s] \in CutBack /\ k = Len(sect[own[s]]))
      BY <1>3, <2>1, <2>2, <2>3
    <3>2. Len(sect[own[s]]) \in Nat
      BY <1>4, <2>2
    <3> QED
      BY <3>1, <3>2 DEF In
  <2>5. k \in 1..Len(sect'[own[s]]) /\ sect'[own[s]][k] = s
    BY <1>5, <2>2, <2>3, <2>4
  <2>6. s \in ToSet(sect'[own[s]])
    <3>1. DOMAIN sect'[own[s]] = 1..Len(sect'[own[s]])
      BY <1>5, <2>2
    <3> QED
      BY <2>5, <3>1 DEF ToSet
  <2> QED
    BY <2>1, <2>6 DEF SectorsOf
<1>8. ASSUME NEW b \in Islands
      PROVE  /\ \A k \in 1..Len(sect'[b]) : own'[sect'[b][k]] = b
             /\ \A k, l \in 1..Len(sect'[b]) : sect'[b][k] = sect'[b][l] => k = l
  <2>1. \A k \in 1..In(b) : sect[b][k] \in Sectors
    BY <1>4, <1>5
  <2> QED
    BY <1>2, <1>5, <2>1 DEF Mapped
<1> QED
  BY <1>4, <1>6, <1>7, <1>8 DEF Mapped

\* Together: the map is true in every step.
LEMMA LandStep == WellTyped /\ Land /\ Progress /\ Next => Land'
<1> SUFFICES ASSUME WellTyped, Land, Progress, Next, phase' \in Running
             PROVE  Mapped'
  BY DEF Land
<1>1. CASE Start \/ Retry
  <2>1. Blank(args) /\ UNCHANGED args /\ args \in Arguments /\ ValidateArgs(args)
    BY <1>1, Phases DEF Start, Retry, WellTyped
  <2> QED
    BY <2>1, BlankMapped
<1>2. CASE Refuse
  BY <1>2, Phases DEF Refuse
<1>3. CASE ~(Start \/ Retry \/ Refuse)
  <2>1. phase \in Running
    BY <1>3, Phases DEF Next, Settle, DriftCapital, PlaceCapital, GrowContinent, ContinentsDone, Search,
       SearchFromBorders, SizeIslands, StartGroup, PlaceIsland, GrowIsland, EndGroup, Raise, Write
  <2>2. Typed /\ args \in Arguments /\ ValidateArgs(args) /\ Mapped
    BY <2>1, RunningTyped DEF Land
  <2>3. CASE PlaceCapital
    BY <2>2, <2>3, PlaceCapitalMapped, Phases
  <2>4. CASE GrowContinent
    <3>1. turn \in Islands
      BY <2>1, <2>2, <2>4, TurnOfContinent DEF GrowContinent
    <3>2. PICK t \in Sectors : own[t] = Sea /\ AddSector(turn, t)
      BY <2>2, <2>4, <3>1, GrowthIs, Phases DEF GrowContinent, Typed, CanGrowAt
    <3> QED
      BY <2>2, <2>4, <3>1, <3>2, AddMapped DEF GrowContinent
  <2>5. CASE PlaceIsland
    <3>1. FirstIsland + turn \in Islands
      BY <2>1, <2>2, <2>5, TurnOfContinent, TurnOfIsland DEF PlaceIsland
    <3>2. PICK t \in Sectors : own[t] = Sea /\ AddSector(FirstIsland + turn, t)
      BY <2>2, <2>5, <3>1, Phases DEF PlaceIsland, Places, CanGrowAt
    <3> QED
      BY <2>2, <2>5, <3>1, <3>2, AddMapped DEF PlaceIsland
  <2>6. CASE GrowIsland
    <3>1. FirstIsland + turn \in Islands
      BY <2>1, <2>2, <2>6, TurnOfContinent, TurnOfIsland DEF GrowIsland
    <3>2. CASE UNCHANGED land
      BY <2>1, <2>6, <3>2, LandKept DEF GrowIsland, land, Land
    <3>3. CASE ~UNCHANGED land
      <4>1. PICK t \in Sectors : own[t] = Sea /\ AddSector(FirstIsland + turn, t)
        BY <2>2, <2>6, <3>1, <3>3, GrowthIs DEF GrowIsland, Typed, CanGrowAt
      <4> QED
        BY <2>2, <2>6, <3>1, <4>1, AddMapped DEF GrowIsland
    <3> QED
      BY <3>2, <3>3
  <2>7. CASE EndGroup
    BY <2>2, <2>7, EndGroupMapped
  <2>8. CASE ~(PlaceCapital \/ GrowContinent \/ PlaceIsland \/ GrowIsland \/ EndGroup)
    <3>1. UNCHANGED <<args, own, adjLand, sect>>
      BY <1>3, <2>8 DEF Next, Settle, DriftCapital, ContinentsDone, Search, SearchFromBorders, SizeIslands,
         StartGroup, Raise, Write, land
    <3> QED
      BY <2>1, <3>1, LandKept DEF Land
  <2> QED
    BY <2>3, <2>4, <2>5, <2>6, <2>7, <2>8
<1> QED
  BY <1>1, <1>2, <1>3

-----------------------------------------------------------------------------
(* How far the loops are. *)

LEMMA AddSizes ==
    ASSUME Typed, NEW c \in Islands, NEW t \in Sectors, AddSector(c, t)
    PROVE  \A b \in Islands : Len(sect'[b]) = IF b = c THEN Len(sect[b]) + 1 ELSE Len(sect[b])
BY DEF AddSector, Typed

LEMMA CarriedOfNone == group = 0 => Carried = 0
<1>1. 0..0 - 1 = {}
  OBVIOUS
<1> QED
  BY <1>1, SumEmpty DEF Carried

LEMMA CarriedKept ==
    ASSUME UNCHANGED <<args, group>>, group \in Nat,
           \A i \in 0..group - 1 : /\ isiz'[i + 1] = isiz[i + 1]
                                   /\ Len(sect'[Group(i)]) = Len(sect[Group(i)])
    PROVE  Carried' = Carried
<1> DEFINE S == 0..group - 1
           f == [i \in S |-> isiz[i + 1] - Len(sect[Group(i)])]
           g == [i \in S |-> isiz'[i + 1] - Len(sect'[Group(i)])]
<1>1. \A i : Group(i)' = Group(i)
  BY DEF Group
<1>2. Carried = SumFunctionOnSet(f, S) /\ Carried' = SumFunctionOnSet(g, S)
  BY <1>1 DEF Carried
<1>3. \A i \in S : f[i] = g[i]
  OBVIOUS
<1>4. IsFiniteSet(S)
  BY Below
<1> HIDE DEF f, g, S
<1> QED
  BY <1>2, <1>3, <1>4, SumSame

\* The groups before this one.
LEMMA EarlierGroups ==
    ASSUME Typed, args \in Arguments, ValidateArgs(args), NEW m \in 0..args.ni \div args.nc
    PROVE  \A i \in 0..m - 1, j \in 0..args.nc - 1 :
             /\ i \in 0..args.ni \div args.nc - 1
             /\ Group(i) + j \in Islands /\ Group(i) + j \notin Continents
             /\ Group(i) \in Islands /\ Group(i) + 0 = Group(i)
             /\ \A k \in 0..args.ni \div args.nc - 1, l \in 0..args.nc - 1 :
                  Group(i) + j = Group(k) + l => i = k /\ j = l
<1> DEFINE n == args.ni \div args.nc
<1>1. n \in Nat /\ args.nc \in Nat \ {0}
  BY Command
<1>2. \A i \in 0..m - 1 : i \in 0..n - 1
  <2>1. m \in 0..n
    OBVIOUS
  <2> HIDE DEF n
  <2> QED
    BY <1>1, <2>1
<1>3. \A i \in 0..n - 1, j \in 0..args.nc - 1 :
                /\ Group(i) \in Nat
                /\ Group(i) + j \in Islands /\ Group(i) + j >= args.nc
                /\ (Group(i) + j) % args.nc = j
                /\ (Group(i) + j) \div args.nc = i + 1
  BY IslandNumbers
<1> HIDE DEF n
<1>4. 0 \in 0..args.nc - 1
  BY <1>1
<1>5. \A i \in 0..n - 1 : Group(i) + 0 = Group(i)
  BY <1>3, <1>4
<1>6. \A i \in 0..n - 1, j \in 0..args.nc - 1, k \in 0..n - 1, l \in 0..args.nc - 1 :
        Group(i) + j = Group(k) + l => i = k /\ j = l
  <2> SUFFICES ASSUME NEW i \in 0..n - 1, NEW j \in 0..args.nc - 1,
                      NEW k \in 0..n - 1, NEW l \in 0..args.nc - 1, Group(i) + j = Group(k) + l
               PROVE  i = k /\ j = l
    OBVIOUS
  <2>1. j = l /\ i + 1 = k + 1
    BY <1>3
  <2> QED
    BY <1>1, <2>1
<1>7. \A i \in 0..n - 1, j \in 0..args.nc - 1 : Group(i) + j \notin Continents
  <2> SUFFICES ASSUME NEW i \in 0..n - 1, NEW j \in 0..args.nc - 1
               PROVE  Group(i) + j \notin Continents
    OBVIOUS
  <2> DEFINE c == Group(i) + j
  <2>1. c \in Islands /\ c >= args.nc
    BY <1>3
  <2> HIDE DEF c
  <2>2. c \in Nat /\ (c \in Continents <=> c < args.nc)
    BY <2>1, IslandNumbers
  <2>3. c \notin Continents
    BY <1>1, <2>1, <2>2
  <2> QED
    BY <2>3 DEF c
<1>8. \A i \in 0..n - 1 : Group(i) \in Islands
  BY <1>3, <1>4, <1>5
<1> QED
  BY <1>2, <1>3, <1>5, <1>6, <1>7, <1>8 DEF n

\* What leaves the loops and the lists alone leaves them where they were.
LEMMA SizesKept ==
    ASSUME UNCHANGED <<args, phase, turn, secs, group, done, carry, isiz, sect>>, Progress
    PROVE  Progress'
BY DEF Progress, Loops, ContinentSizes, GroupsDone, GroupGrowing, CarryKept, Carried, Grew, Group,
       Continents, IslandSize

LEMMA BlankProgress ==
    ASSUME args \in Arguments, ValidateArgs(args), UNCHANGED args, Blank(args), phase' = "drift"
    PROVE  Progress'
<1>1. args.nc \in Nat \ {0} /\ args.ni \div args.nc \in Nat
  BY Command
<1>2. /\ sect' = [c \in Islands |-> << >>] /\ turn' = 0 /\ secs' = 0 /\ group' = 0 /\ carry' = 0
      /\ Islands' = Islands /\ Continents' = Continents
  BY ContinentsFixed DEF Blank, Islands
<1>3. Loops'
  BY <1>2 DEF Loops
<1>4. ContinentSizes'
  <2>1. \A c \in Continents : Len(sect'[c]) = 0
    BY <1>2, IslandNumbers
  <2> QED
    BY <1>2, <2>1 DEF ContinentSizes
<1>5. GroupsDone'
  <2>1. \A i \in 0..args.ni \div args.nc - 1 : \A j \in 0..args.nc - 1 : Len(sect'[Group(i) + j]) = 0
    BY <1>2, IslandNumbers
  <2>2. \A i : Group(i)' = Group(i)
    BY DEF Group
  <2>3. 0..0 - 1 = {}
    OBVIOUS
  <2> QED
    BY <1>2, <2>1, <2>2, <2>3 DEF GroupsDone
<1>6. GroupGrowing' /\ CarryKept'
  BY <1>2, Phases DEF GroupGrowing, CarryKept
<1> QED
  BY <1>3, <1>4, <1>5, <1>6 DEF Progress

LEMMA SettleProgress ==
    ASSUME Typed, Progress, args \in Arguments, ValidateArgs(args), Settle
    PROVE  Progress'
<1>1. /\ phase = "drift" /\ turn = 0
      /\ phase' \in {"drift", "continents"} /\ (phase' = "continents" => turn' = 0)
      /\ UNCHANGED <<args, isiz, sect, group, secs, done, carry>>
  BY DEF Settle, land
<1>2. args.nc \in Nat \ {0} /\ args.sc \in Nat /\ args.sc >= 2 /\ Islands' = Islands /\ Continents' = Continents
  BY <1>1, Command, ContinentsFixed
<1>3. Loops /\ ContinentSizes /\ GroupsDone /\ CarryKept
  BY <1>1, Phases DEF Progress
<1>4. secs = 0 /\ group = 0 /\ carry = 0
  BY <1>1, <1>3 DEF Loops
<1>5. Loops'
  BY <1>1, <1>2, <1>4 DEF Loops
<1>6. ContinentSizes'
  <2>1. \A c \in Continents : Len(sect[c]) = 0
    BY <1>1, <1>3 DEF ContinentSizes
  <2>2. phase' = "continents" => \A c \in Continents : Grew(c)' = 0
    <3>1. \A c \in Continents : c \in Nat
      BY <1>2 DEF Continents
    <3> QED
      BY <1>1, <3>1 DEF Grew
  <2> QED
    BY <1>1, <1>2, <1>4, <2>1, <2>2 DEF ContinentSizes
<1>7. GroupsDone'
  BY <1>1, <1>2, <1>3 DEF GroupsDone, Group
<1>8. GroupGrowing'
  BY <1>1 DEF GroupGrowing
<1>9. CarryKept'
  <2>1. Carried' = 0
    <3>1. 0..0 - 1 = {}
      OBVIOUS
    <3> QED
      BY <1>1, <1>4, <3>1, SumEmpty DEF Carried
  <2> QED
    BY <1>1, <1>4, <2>1 DEF CarryKept
<1> QED
  BY <1>5, <1>6, <1>7, <1>8, <1>9 DEF Progress

LEMMA DriftProgress ==
    ASSUME Typed, Progress, args \in Arguments, ValidateArgs(args), DriftCapital
    PROVE  Progress'
<1>1. /\ phase = "drift" /\ UNCHANGED <<args, phase, isiz, sect, group, secs, done, carry>>
  BY DEF DriftCapital, land
<1> QED
  BY <1>1, Phases DEF Progress, Loops, ContinentSizes, GroupsDone, GroupGrowing, CarryKept, Carried, Group,
       Continents

\* What lets no island grow keeps the groups, and what is carried.
LEMMA GroupsKept ==
    ASSUME Typed, Progress, args \in Arguments, ValidateArgs(args),
           UNCHANGED <<args, group, carry>>,
           phase \in Grown \ {"islands"}, phase' \in Grown \ {"islands"},
           group > 0 => UNCHANGED isiz,
           \A c \in Islands : c \notin Continents => Len(sect'[c]) = Len(sect[c])
    PROVE  GroupsDone' /\ GroupGrowing' /\ CarryKept'
<1> DEFINE n == args.ni \div args.nc
<1>1. n \in Nat /\ args.nc \in Nat \ {0} /\ group \in Nat
  BY Command DEF Typed
<1>2. Loops /\ GroupsDone /\ CarryKept /\ phase \in Running
  BY Phases DEF Progress
<1>3. group \in 0..n
  <2>1. group = 0 \/ group <= n
    BY <1>2, Phases DEF Loops
  <2> HIDE DEF n
  <2> QED
    BY <1>1, <2>1
<1>4. n \in 0..n
  <2> HIDE DEF n
  <2> QED
    BY <1>1
<1>5. \A i \in 0..n - 1, j \in 0..args.nc - 1 :
        /\ Len(sect'[Group(i) + j]) = Len(sect[Group(i) + j])
        /\ Len(sect'[Group(i)]) = Len(sect[Group(i)])
  <2>1. \A i \in 0..n - 1, j \in 0..args.nc - 1 :
          /\ Group(i) + j \in Islands /\ Group(i) + j \notin Continents
          /\ Group(i) + 0 = Group(i)
    BY <1>4, EarlierGroups
  <2>2. 0 \in 0..args.nc - 1
    BY <1>1
  <2> HIDE DEF n
  <2>3. \A i \in 0..n - 1 : Group(i) \in Islands /\ Group(i) \notin Continents
    BY <2>1, <2>2
  <2> QED
    BY <2>1, <2>3
<1>6. \A i \in 0..group - 1 : i \in 0..n - 1
  <2> HIDE DEF n
  <2> QED
    BY <1>1, <1>3
<1>7. \A i \in group..n - 1 : i \in 0..n - 1
  <2> HIDE DEF n
  <2> QED
    BY <1>1, <1>3
<1>8. \A i : Group(i)' = Group(i)
  BY DEF Group
<1>9. GroupsDone'
  <2>1. /\ \A i \in 0..group - 1 : \A j \in 0..args.nc - 1 :
             /\ Len(sect[Group(i) + j]) = Len(sect[Group(i)])
             /\ Len(sect[Group(i)]) \in 1..2 * args.is
        /\ \A i \in group..n - 1 : \A j \in 0..args.nc - 1 : Len(sect[Group(i) + j]) = 0
    BY <1>2 DEF GroupsDone
  <2> HIDE DEF n
  <2>2. 0 \in 0..args.nc - 1
    BY <1>1
  <2>3. \A i \in 0..group - 1 : \A j \in 0..args.nc - 1 :
             /\ Len(sect'[Group(i) + j]) = Len(sect'[Group(i)])
             /\ Len(sect'[Group(i)]) \in 1..2 * args.is
    BY <1>5, <1>6, <2>1, <2>2
  <2>4. \A i \in group..n - 1 : \A j \in 0..args.nc - 1 : Len(sect'[Group(i) + j]) = 0
    BY <1>5, <1>7, <2>1
  <2> QED
    BY <1>8, <2>3, <2>4 DEF GroupsDone, n
<1>10. Carried' = Carried
  <2>1. \A i \in 0..group - 1 : /\ isiz'[i + 1] = isiz[i + 1]
                                /\ Len(sect'[Group(i)]) = Len(sect[Group(i)])
    <3>1. 0 \in 0..args.nc - 1
      BY <1>1
    <3> HIDE DEF n
    <3>2. \A i \in 0..group - 1 : Len(sect'[Group(i)]) = Len(sect[Group(i)])
      BY <1>5, <1>6, <3>1
    <3> QED
      BY <1>1, <3>2
  <2> QED
    BY <1>1, <2>1, CarriedKept
<1> QED
  BY <1>2, <1>9, <1>10 DEF GroupGrowing, CarryKept

LEMMA PlaceCapitalProgress ==
    ASSUME Typed, Progress, args \in Arguments, ValidateArgs(args), PlaceCapital
    PROVE  Progress'
<1>1. CASE phase' = "failed"
  BY <1>1, Phases DEF Progress
<1>2. CASE phase' # "failed"
  <2>1. /\ phase = "continents" /\ secs = 0 /\ phase' = "continents"
        /\ sect' = [sect EXCEPT ![turn] = <<cap[turn], Plus(cap[turn], 2, 0)>>]
        /\ turn' = (turn + 1) % args.nc /\ secs' = (IF turn + 1 = args.nc THEN 2 ELSE 0)
        /\ UNCHANGED <<args, group, carry, isiz>>
    BY <1>2 DEF PlaceCapital
  <2>2. args.nc \in Nat \ {0} /\ args.sc \in Nat /\ args.sc >= 2
    BY Command
  <2>3. phase \in Running \ {"drift"} /\ phase \in Grown \ {"islands"}
    BY <2>1, Phases
  <2>4. turn \in 0..args.nc - 1 /\ turn \in Continents /\ turn \in Islands
    BY <2>3, TurnOfContinent
  <2>5. turn' = (IF turn + 1 = args.nc THEN 0 ELSE turn + 1) /\ turn' \in 0..args.nc - 1
    BY <2>1, <2>2, <2>4, NextTurn
  <2>6. Loops /\ ContinentSizes
    BY <2>3 DEF Progress
  <2>7. Loops'
    BY <2>1, <2>2, <2>5, <2>6 DEF Loops
  <2>8. sect \in [Islands -> Seq(Sectors)] /\ \A c \in Continents : c \in Islands /\ c \in 0..args.nc - 1
    BY IslandNumbers DEF Typed, Continents
  <2>9. \A c \in Islands : Len(sect'[c]) = IF c = turn THEN 2 ELSE Len(sect[c])
    BY <2>1, <2>8
  <2>10. ContinentSizes'
    <3>1. \A c \in Continents : Len(sect[c]) = 2 * Grew(c)
      BY <2>1, <2>6 DEF ContinentSizes
    <3>2. \A c \in Continents : Len(sect'[c]) = IF secs' = 0 THEN 2 * Grew(c)' ELSE secs' + Grew(c)'
      <4> SUFFICES ASSUME NEW c \in Continents
                   PROVE  Len(sect'[c]) = IF secs' = 0 THEN 2 * Grew(c)' ELSE secs' + Grew(c)'
        OBVIOUS
      <4>1. c \in 0..args.nc - 1 /\ Len(sect'[c]) = (IF c = turn THEN 2 ELSE 2 * Grew(c))
        BY <2>8, <2>9, <3>1
      <4> QED
        BY <2>1, <2>2, <2>4, <2>5, <4>1 DEF Grew
    <3> QED
      BY <2>1, <3>2, ContinentsFixed DEF ContinentSizes
  <2>11. GroupsDone' /\ GroupGrowing' /\ CarryKept'
    <3>1. \A c \in Islands : c \notin Continents => Len(sect'[c]) = Len(sect[c])
      BY <2>4, <2>9
    <3>2. phase' \in Grown \ {"islands"}
      BY <2>1, <2>3
    <3> QED
      BY <2>1, <2>3, <3>1, <3>2, GroupsKept
  <2> QED
    BY <2>7, <2>10, <2>11 DEF Progress
<1> QED
  BY <1>1, <1>2

LEMMA GrowContinentProgress ==
    ASSUME Typed, Progress, args \in Arguments, ValidateArgs(args), GrowContinent
    PROVE  Progress'
<1>1. CASE phase' = "failed"
  BY <1>1, Phases DEF Progress
<1>2. CASE phase' # "failed"
  <2>1. /\ phase = "continents" /\ secs \in 2..args.sc - 1 /\ phase' = "continents"
        /\ turn' = (turn + 1) % args.nc
        /\ secs' = (IF turn + 1 = args.nc THEN secs + 1 ELSE secs)
        /\ UNCHANGED <<args, group, carry, isiz>>
    BY <1>2 DEF GrowContinent
  <2>2. PICK spike \in Spikes : \E t \in Candidates(turn, spike) : AddSector(turn, t)
    BY <1>2 DEF GrowContinent
  <2> PICK t \in Candidates(turn, spike) : AddSector(turn, t)
    BY <2>2
  <2>3. args.nc \in Nat \ {0} /\ args.sc \in Nat /\ args.sc >= 2
    BY Command
  <2>4. phase \in Running \ {"drift"} /\ phase \in Grown \ {"islands"}
    BY <2>1, Phases
  <2>5. turn \in 0..args.nc - 1 /\ turn \in Continents /\ turn \in Islands
    BY <2>4, TurnOfContinent
  <2>6. turn' = (IF turn + 1 = args.nc THEN 0 ELSE turn + 1) /\ turn' \in 0..args.nc - 1
    BY <2>1, <2>3, <2>5, NextTurn
  <2>7. Loops /\ ContinentSizes
    BY <2>4 DEF Progress
  <2>8. Loops'
    BY <2>1, <2>3, <2>5, <2>6, <2>7 DEF Loops
  <2>9. t \in Sectors
    BY <2>2, <2>5, GrowthIs DEF Typed
  <2>10. \A c \in Islands : Len(sect'[c]) = IF c = turn THEN Len(sect[c]) + 1 ELSE Len(sect[c])
    BY <2>2, <2>5, <2>9, AddSizes
  <2>11. \A c \in Continents : c \in Islands /\ c \in 0..args.nc - 1
    BY IslandNumbers DEF Continents
  <2>12. ContinentSizes'
    <3>1. \A c \in Continents : Len(sect[c]) = secs + Grew(c)
      BY <2>1, <2>7 DEF ContinentSizes
    <3>2. \A c \in Continents : Len(sect'[c]) = secs' + Grew(c)'
      <4> SUFFICES ASSUME NEW c \in Continents
                   PROVE  Len(sect'[c]) = secs' + Grew(c)'
        OBVIOUS
      <4>1. c \in 0..args.nc - 1
            /\ Len(sect'[c]) = (IF c = turn THEN secs + Grew(c) + 1 ELSE secs + Grew(c))
        BY <2>10, <2>11, <3>1
      <4> QED
        BY <2>1, <2>3, <2>5, <2>6, <4>1 DEF Grew
    <3>3. secs' # 0
      BY <2>1, <2>3
    <3> QED
      BY <2>1, <3>2, <3>3, ContinentsFixed DEF ContinentSizes
  <2>13. GroupsDone' /\ GroupGrowing' /\ CarryKept'
    <3>1. \A c \in Islands : c \notin Continents => Len(sect'[c]) = Len(sect[c])
      BY <2>5, <2>10
    <3>2. phase' \in Grown \ {"islands"}
      BY <2>1, <2>4
    <3> QED
      BY <2>1, <2>4, <3>1, <3>2, GroupsKept
  <2> QED
    BY <2>8, <2>12, <2>13 DEF Progress
<1> QED
  BY <1>1, <1>2

LEMMA ContinentsDoneProgress ==
    ASSUME Typed, Progress, args \in Arguments, ValidateArgs(args), ContinentsDone
    PROVE  Progress'
<1>1. /\ phase = "continents" /\ secs = args.sc /\ turn = 0 /\ phase' = "sizes"
      /\ UNCHANGED <<args, turn, secs, group, carry, isiz, sect>>
  BY DEF ContinentsDone, loops, land
<1>2. args.nc \in Nat \ {0} /\ args.sc \in Nat /\ args.sc >= 2
  BY Command
<1>3. phase \in Grown \ {"islands"} /\ phase' \in Grown \ {"islands"} /\ phase \in Running
  BY <1>1, Phases
<1>4. GroupsDone' /\ GroupGrowing' /\ CarryKept'
  BY <1>1, <1>3, GroupsKept
<1>5. Loops /\ ContinentSizes
  BY <1>3 DEF Progress
<1>6. Loops'
  BY <1>1, <1>5 DEF Loops
<1>7. ContinentSizes'
  <2>1. \A c \in Continents : Grew(c) = 0
    BY <1>1, <1>2 DEF Grew, Continents
  <2>2. \A c \in Continents : Len(sect[c]) = args.sc
    BY <1>1, <1>2, <1>5, <2>1 DEF ContinentSizes
  <2> QED
    BY <1>1, <2>2, ContinentsFixed DEF ContinentSizes
<1> QED
  BY <1>4, <1>6, <1>7 DEF Progress

LEMMA SizeIslandsProgress ==
    ASSUME Typed, Progress, args \in Arguments, ValidateArgs(args), SizeIslands
    PROVE  Progress'
<1>1. /\ phase = "sizes" /\ secs' = 0 /\ turn' = 0
      /\ phase' = (IF args.ni = 0 THEN "coast" ELSE "spheres")
      /\ UNCHANGED <<args, group, carry, sect>>
  BY DEF SizeIslands, land
<1>2. PICK roll \in [1..args.ni \div args.nc -> 0..args.is - 1] : isiz' = Sizes(roll)
  BY DEF SizeIslands
<1>3. Len(isiz') = args.ni \div args.nc
  BY <1>2, SizesAre
<1>4. args.nc \in Nat \ {0} /\ args.ni \div args.nc \in Nat
  BY Command
<1>5. args.ni = 0 => args.ni \div args.nc = 0
  BY <1>4
<1>6. phase \in Grown \ {"islands"} /\ phase' \in Grown \ {"islands"} /\ phase \in Running
  BY <1>1, Phases
<1>7. Loops /\ ContinentSizes
  BY <1>6 DEF Progress
<1>8. group = 0 /\ carry = 0
  BY <1>1, <1>7 DEF Loops
<1>9. GroupsDone' /\ GroupGrowing' /\ CarryKept'
  BY <1>1, <1>6, <1>8, GroupsKept
<1>10. Loops'
  <2> DEFINE n == args.ni \div args.nc
  <2>1. Len(isiz') = n /\ n \in Nat /\ (args.ni = 0 => n = 0)
    BY <1>3, <1>4, <1>5
  <2>2. Loops' <=>
          /\ phase' # "drift" => turn' < args.nc
          /\ phase' \notin {"drift", "continents", "islands"} => turn' = 0
          /\ phase' \in {"drift", "spheres", "borders"} => secs' = 0
          /\ phase' = "continents" => /\ secs' = 0 \/ secs' \in 2..args.sc
                                      /\ secs' = args.sc => turn' = 0
          /\ phase' \in {"drift", "continents", "sizes", "spheres"} => group' = 0 /\ carry' = 0
          /\ phase' \in {"spheres", "borders", "islands", "coast", "written"} =>
               Len(isiz') = n /\ group' <= Len(isiz')
          /\ phase' \in {"coast", "written"} => group' = Len(isiz')
    BY <1>1 DEF Loops
  <2> HIDE DEF n
  <2> QED
    BY <1>1, <1>4, <1>8, <2>1, <2>2
<1>11. ContinentSizes'
  <2>1. \A c \in Continents : Len(sect[c]) = args.sc
    BY <1>1, <1>7 DEF ContinentSizes
  <2> QED
    BY <1>1, <2>1, ContinentsFixed DEF ContinentSizes
<1> QED
  BY <1>9, <1>10, <1>11 DEF Progress

LEMMA BordersProgress ==
    ASSUME Typed, Progress, args \in Arguments, ValidateArgs(args), SearchFromBorders
    PROVE  Progress'
<1>1. /\ phase = "spheres" /\ phase' = "borders"
      /\ UNCHANGED <<args, turn, secs, group, carry, isiz, sect>>
  BY DEF SearchFromBorders, land
<1>2. phase \in Grown \ {"islands"} /\ phase' \in Grown \ {"islands"} /\ phase \in Running
  BY <1>1, Phases
<1>3. GroupsDone' /\ GroupGrowing' /\ CarryKept'
  BY <1>1, <1>2, GroupsKept
<1>4. Loops /\ ContinentSizes
  BY <1>2 DEF Progress
<1>5. Loops'
  BY <1>1, <1>4 DEF Loops
<1>6. ContinentSizes'
  BY <1>1, <1>4, ContinentsFixed DEF ContinentSizes
<1> QED
  BY <1>3, <1>5, <1>6 DEF Progress

LEMMA WriteProgress ==
    ASSUME Typed, Progress, args \in Arguments, ValidateArgs(args), Write
    PROVE  Progress'
<1>1. /\ phase = "coast" /\ phase' = "written"
      /\ UNCHANGED <<args, turn, secs, group, carry, isiz, sect>>
  BY DEF Write, land, loops
<1>2. phase \in Grown \ {"islands"} /\ phase' \in Grown \ {"islands"} /\ phase \in Running
  BY <1>1, Phases
<1>3. GroupsDone' /\ GroupGrowing' /\ CarryKept'
  BY <1>1, <1>2, GroupsKept
<1>4. Loops /\ ContinentSizes
  BY <1>2 DEF Progress
<1>5. Loops'
  BY <1>1, <1>4 DEF Loops
<1>6. ContinentSizes'
  BY <1>1, <1>4, ContinentsFixed DEF ContinentSizes
<1> QED
  BY <1>3, <1>5, <1>6 DEF Progress

\* How large the islands of a group may get.
LEMMA IslandSizeIs ==
    ASSUME args \in Arguments, ValidateArgs(args), carry \in Nat
    PROVE  /\ IslandSize \in Nat /\ IslandSize <= 2 * args.is /\ IslandSize <= carry
           /\ carry >= 1 => IslandSize >= 1
<1>1. args.is \in Nat \ {0} /\ 2 * args.is \in Nat /\ 2 * args.is >= 1
  BY Command
<1>2. IslandSize \in {2 * args.is, carry} /\ IslandSize <= 2 * args.is /\ IslandSize <= carry
  BY <1>1, MinOfTwo DEF IslandSize
<1> QED
  BY <1>1, <1>2

\* A step that lets one island of the group grow, or none, keeps the others.
LEMMA GroupTurn ==
    ASSUME Typed, Progress, args \in Arguments, ValidateArgs(args),
           phase = "islands", UNCHANGED <<args, phase, group, carry, isiz>>,
           \A c \in Islands : c # FirstIsland + turn => Len(sect'[c]) = Len(sect[c])
    PROVE  ContinentSizes' /\ GroupsDone' /\ CarryKept'
<1> DEFINE n == args.ni \div args.nc
<1>1. n \in Nat /\ args.nc \in Nat \ {0} /\ group \in Nat
  BY Command DEF Typed
<1>2. phase \in Running \ {"drift"}
  BY Phases
<1>3. Loops /\ ContinentSizes /\ GroupsDone /\ CarryKept
  BY <1>2 DEF Progress
<1>4. /\ group \in 0..n - 1 /\ FirstIsland = Group(group)
      /\ turn \in 0..args.nc - 1
  BY <1>2, TurnOfIsland, TurnOfContinent
<1>5. FirstIsland + turn \in Islands /\ FirstIsland + turn \notin Continents
  <2>1. n \in 0..n
    <3> HIDE DEF n
    <3> QED
      BY <1>1
  <2> QED
    BY <1>4, <2>1, EarlierGroups
<1>6. ContinentSizes'
  <2>1. \A c \in Continents : Len(sect'[c]) = Len(sect[c])
    BY <1>5, IslandNumbers
  <2>2. \A c \in Continents : Len(sect[c]) = args.sc
    BY <1>3 DEF ContinentSizes
  <2> QED
    BY <2>1, <2>2, ContinentsFixed DEF ContinentSizes
<1>7. \A i \in 0..n - 1, j \in 0..args.nc - 1 :
        i # group => /\ Len(sect'[Group(i) + j]) = Len(sect[Group(i) + j])
                     /\ Len(sect'[Group(i)]) = Len(sect[Group(i)])
  <2>1. n \in 0..n /\ 0 \in 0..args.nc - 1
    <3> HIDE DEF n
    <3> QED
      BY <1>1
  <2>2. \A i \in 0..n - 1, j \in 0..args.nc - 1 :
          /\ Group(i) + j \in Islands /\ Group(i) + 0 = Group(i)
          /\ Group(i) + j = Group(group) + turn => i = group
    BY <1>4, <2>1, EarlierGroups
  <2>3. \A i \in 0..n - 1, j \in 0..args.nc - 1 :
          i # group => Len(sect'[Group(i) + j]) = Len(sect[Group(i) + j])
    BY <1>4, <2>2
  <2> HIDE DEF n
  <2> QED
    BY <2>1, <2>2, <2>3
<1>8. /\ \A i \in 0..group - 1 : i \in 0..n - 1 /\ i # group
      /\ \A i \in group + 1..n - 1 : i \in 0..n - 1 /\ i # group
  <2> HIDE DEF n
  <2> QED
    BY <1>1, <1>4
<1>9. \A i : Group(i)' = Group(i)
  BY DEF Group
<1>10. GroupsDone'
  <2>1. /\ \A i \in 0..group - 1 : \A j \in 0..args.nc - 1 :
             /\ Len(sect[Group(i) + j]) = Len(sect[Group(i)])
             /\ Len(sect[Group(i)]) \in 1..2 * args.is
        /\ \A i \in group + 1..n - 1 : \A j \in 0..args.nc - 1 : Len(sect[Group(i) + j]) = 0
    BY <1>3 DEF GroupsDone
  <2> HIDE DEF n
  <2>2. \A i \in 0..group - 1 : \A j \in 0..args.nc - 1 :
             /\ Len(sect'[Group(i) + j]) = Len(sect'[Group(i)])
             /\ Len(sect'[Group(i)]) \in 1..2 * args.is
    BY <1>7, <1>8, <2>1
  <2>3. \A i \in group + 1..n - 1 : \A j \in 0..args.nc - 1 : Len(sect'[Group(i) + j]) = 0
    BY <1>7, <1>8, <2>1
  <2> QED
    BY <1>9, <2>2, <2>3 DEF GroupsDone, n
<1>11. Carried' = Carried
  <2>1. 0 \in 0..args.nc - 1
    BY <1>1
  <2> HIDE DEF n
  <2>2. \A i \in 0..group - 1 : Len(sect'[Group(i)]) = Len(sect[Group(i)])
    BY <1>7, <1>8, <2>1
  <2> QED
    BY <1>1, <2>2, CarriedKept
<1> QED
  BY <1>3, <1>6, <1>10, <1>11 DEF CarryKept

LEMMA StartGroupProgress ==
    ASSUME Typed, Progress, args \in Arguments, ValidateArgs(args), StartGroup
    PROVE  Progress'
<1> DEFINE n == args.ni \div args.nc
<1>1. n \in Nat /\ args.nc \in Nat \ {0} /\ group \in Nat /\ Len(isiz) \in Nat
  BY Command DEF Typed
<1>2. phase = "borders" /\ UNCHANGED <<args, sect, isiz, group, turn, secs>>
  BY DEF StartGroup
<1>3. phase \in Running /\ phase \in Grown \ {"islands"}
  BY <1>2, Phases
<1>4. Loops /\ ContinentSizes /\ GroupsDone /\ CarryKept
  BY <1>3 DEF Progress
<1>5. secs = 0 /\ turn = 0 /\ Len(isiz) = n /\ group <= n
  BY <1>2, <1>4 DEF Loops
<1>6. ContinentSizes' /\ Loops'
  <2>1. (phase' = "coast" /\ group = Len(isiz)) \/ phase' = "islands"
    BY DEF StartGroup
  <2>2. ContinentSizes'
    BY <1>2, <1>4, <2>1, ContinentsFixed DEF ContinentSizes
  <2>3. Loops'
    BY <1>1, <1>2, <1>4, <1>5, <2>1 DEF Loops
  <2> QED
    BY <2>2, <2>3
<1>7. CASE group = Len(isiz)
  <2>1. phase' = "coast" /\ UNCHANGED carry
    BY <1>7 DEF StartGroup
  <2>2. phase' \in Grown \ {"islands"}
    BY <2>1, Phases
  <2>3. GroupsDone' /\ GroupGrowing' /\ CarryKept'
    BY <1>2, <1>3, <2>1, <2>2, GroupsKept
  <2> QED
    BY <1>6, <2>3 DEF Progress
<1>8. CASE group # Len(isiz)
  <2>1. phase' = "islands" /\ carry' = carry + isiz[group + 1] /\ done' = TRUE
    BY <1>8 DEF StartGroup
  <2>2. group \in 0..n - 1 /\ group + 1 \in 1..Len(isiz)
    <3> HIDE DEF n
    <3> QED
      BY <1>1, <1>5, <1>8
  <2>3. isiz[group + 1] \in Nat \ {0}
    BY <2>2 DEF Typed
  <2>4. carry' \in Nat /\ carry' >= 1
    BY <1>4, <2>1, <2>3 DEF CarryKept, Typed
  <2>5. \A i : Group(i)' = Group(i)
    BY <1>2 DEF Group
  <2>6. \A i \in group..n - 1 : \A j \in 0..args.nc - 1 : Len(sect[Group(i) + j]) = 0
    BY <1>2, <1>4 DEF GroupsDone
  <2>7. GroupsDone'
    <3>1. \A i \in 0..group - 1 : \A j \in 0..args.nc - 1 :
             /\ Len(sect[Group(i) + j]) = Len(sect[Group(i)])
             /\ Len(sect[Group(i)]) \in 1..2 * args.is
      BY <1>4 DEF GroupsDone
    <3>2. \A i \in group + 1..n - 1 : i \in group..n - 1
      <4> HIDE DEF n
      <4> QED
        BY <1>1
    <3> QED
      BY <1>2, <2>1, <2>5, <2>6, <3>1, <3>2 DEF GroupsDone
  <2>8. GroupGrowing'
    <3>1. IslandSize' \in Nat
      <4>1. args.is \in Nat \ {0} /\ 2 * args.is \in Nat
        BY Command
      <4>2. Min({2 * args.is, carry'}) \in {2 * args.is, carry'}
        BY <2>4, <4>1, MinOfTwo
      <4> QED
        BY <1>2, <2>4, <4>1, <4>2 DEF IslandSize
    <3>2. \A j \in 0..args.nc - 1 : Len(sect[Group(group) + j]) = 0
      <4>1. group \in group..n - 1
        <5> HIDE DEF n
        <5> QED
          BY <1>1, <2>2
      <4> QED
        BY <2>6, <4>1
    <3>3. \A j \in 0..args.nc - 1 : Grew(j)' = 0
      BY <1>2, <1>5 DEF Grew
    <3> QED
      BY <1>1, <1>2, <1>5, <2>1, <2>2, <2>5, <3>1, <3>2, <3>3 DEF GroupGrowing
  <2>9. CarryKept'
    <3>1. Carried' = Carried
      BY <1>1, <1>2, CarriedKept
    <3>2. carry = Carried
      BY <1>2, <1>3, <1>4 DEF CarryKept
    <3> QED
      BY <1>2, <2>1, <2>4, <3>1, <3>2 DEF CarryKept
  <2> QED
    BY <1>6, <2>7, <2>8, <2>9 DEF Progress
<1> QED
  BY <1>7, <1>8

LEMMA PlaceIslandProgress ==
    ASSUME Typed, Progress, args \in Arguments, ValidateArgs(args), PlaceIsland
    PROVE  Progress'
<1>1. CASE phase' = "failed"
  BY <1>1, Phases DEF Progress
<1>2. CASE phase' # "failed"
  <2>1. /\ phase = "islands" /\ secs = 0 /\ phase' = "islands"
        /\ turn' = (turn + 1) % args.nc
        /\ secs' = (IF turn + 1 = args.nc THEN 1 ELSE 0)
        /\ UNCHANGED <<args, phase, group, carry, isiz, done>>
    BY <1>2 DEF PlaceIsland
  <2>2. PICK t \in Places(FirstIsland + turn) : AddSector(FirstIsland + turn, t)
    BY <1>2 DEF PlaceIsland
  <2>3. args.nc \in Nat \ {0} /\ group \in Nat
    BY Command DEF Typed
  <2>4. phase \in Running \ {"drift"}
    BY <2>1, Phases
  <2>5. /\ turn \in 0..args.nc - 1
        /\ group \in 0..args.ni \div args.nc - 1 /\ FirstIsland = Group(group) /\ FirstIsland \in Nat
        /\ \A j \in 0..args.nc - 1 : FirstIsland + j \in Islands
    BY <2>1, <2>4, TurnOfContinent, TurnOfIsland
  <2>6. turn' = (IF turn + 1 = args.nc THEN 0 ELSE turn + 1) /\ turn' \in 0..args.nc - 1
    BY <2>1, <2>3, <2>5, NextTurn
  <2>7. Loops /\ GroupGrowing /\ CarryKept
    BY <2>4 DEF Progress
  <2>8. Loops'
    BY <2>1, <2>3, <2>6, <2>7 DEF Loops
  <2>9. t \in Sectors
    BY DEF Places
  <2>10. \A c \in Islands : Len(sect'[c]) = IF c = FirstIsland + turn THEN Len(sect[c]) + 1 ELSE Len(sect[c])
    BY <2>5, <2>9, <2>2, AddSizes
  <2>11. ContinentSizes' /\ GroupsDone' /\ CarryKept'
    BY <2>1, <2>10, GroupTurn
  <2>12. GroupGrowing'
    <3>1. IslandSize' = IslandSize /\ IslandSize \in Nat /\ IslandSize >= 1
      <4>1. carry \in Nat /\ carry >= 1
        BY <2>1, <2>7 DEF CarryKept, Typed
      <4> QED
        BY <2>1, <4>1, IslandSizeIs DEF IslandSize
    <3>2. done = TRUE
      BY <2>1, <2>3, <2>5, <2>7 DEF GroupGrowing
    <3>3. \A j \in 0..args.nc - 1 : Len(sect[Group(group) + j]) = 0 + Grew(j)
      BY <2>1, <2>7, <3>2 DEF GroupGrowing
    <3>4. \A j \in 0..args.nc - 1 : Len(sect'[Group(group) + j]) = secs' + Grew(j)'
      <4> SUFFICES ASSUME NEW j \in 0..args.nc - 1
                   PROVE  Len(sect'[Group(group) + j]) = secs' + Grew(j)'
        OBVIOUS
      <4>1. Len(sect'[Group(group) + j]) = IF j = turn THEN 0 + Grew(j) + 1 ELSE 0 + Grew(j)
        BY <2>3, <2>5, <2>10, <3>3
      <4> QED
        BY <2>1, <2>3, <2>5, <2>6, <4>1 DEF Grew
    <3>5. group' < Len(isiz') /\ secs' <= IslandSize' /\ (turn' > 0 => secs' < IslandSize')
      BY <2>1, <2>3, <2>5, <2>6, <2>7, <3>1 DEF GroupGrowing
    <3>6. \A i : Group(i)' = Group(i)
      BY <2>1 DEF Group
    <3> QED
      BY <2>1, <3>2, <3>4, <3>5, <3>6 DEF GroupGrowing
  <2> QED
    BY <2>8, <2>11, <2>12 DEF Progress
<1> QED
  BY <1>1, <1>2

LEMMA GrowIslandProgress ==
    ASSUME Typed, Progress, args \in Arguments, ValidateArgs(args), GrowIsland
    PROVE  Progress'
<1>1. /\ phase = "islands" /\ secs >= 1 /\ (turn > 0 \/ (secs < IslandSize /\ done))
      /\ phase' = "islands" /\ turn' = (turn + 1) % args.nc
      /\ secs' = (IF turn + 1 = args.nc THEN secs + 1 ELSE secs)
      /\ UNCHANGED <<args, phase, group, carry, isiz>>
  BY DEF GrowIsland
<1>2. args.nc \in Nat \ {0} /\ group \in Nat /\ secs \in Nat /\ done \in BOOLEAN
  BY Command DEF Typed
<1>3. phase \in Running \ {"drift"}
  BY <1>1, Phases
<1>4. /\ turn \in 0..args.nc - 1
      /\ group \in 0..args.ni \div args.nc - 1 /\ FirstIsland = Group(group) /\ FirstIsland \in Nat
      /\ \A j \in 0..args.nc - 1 : FirstIsland + j \in Islands
  BY <1>1, <1>3, TurnOfContinent, TurnOfIsland
<1>5. turn' = (IF turn + 1 = args.nc THEN 0 ELSE turn + 1) /\ turn' \in 0..args.nc - 1
  BY <1>1, <1>2, <1>4, NextTurn
<1>6. Loops /\ GroupGrowing /\ CarryKept
  BY <1>3 DEF Progress
<1>7. Loops'
  BY <1>1, <1>2, <1>5, <1>6 DEF Loops
<1>8. IslandSize' = IslandSize /\ IslandSize \in Nat
  <2>1. carry \in Nat
    BY <1>6 DEF CarryKept, Typed
  <2> QED
    BY <1>1, <2>1, IslandSizeIs DEF IslandSize
<1>9. group' < Len(isiz') /\ secs' <= IslandSize' /\ (turn' > 0 => secs' < IslandSize')
      /\ secs' >= (IF turn' = 0 THEN 2 ELSE 1)
  <2>1. group < Len(isiz) /\ secs <= IslandSize /\ (turn > 0 => secs < IslandSize)
    BY <1>1, <1>6 DEF GroupGrowing
  <2>2. secs < IslandSize
    BY <1>1, <2>1
  <2>3. turn' = 0 <=> turn + 1 = args.nc
    BY <1>2, <1>4, <1>5
  <2> QED
    BY <1>1, <1>2, <1>8, <2>1, <2>2, <2>3
<1>10. \A i : Group(i)' = Group(i)
  BY <1>1 DEF Group
<1>11. \A j \in 0..args.nc - 1 :
         LET n == Len(sect[Group(group) + j])
         IN  IF done THEN n = secs + Grew(j)
             ELSE IF turn = 0 THEN n \in {secs - 1, secs}
             ELSE IF j < turn THEN n \in {secs, secs + 1} ELSE n = secs
  BY <1>1, <1>6 DEF GroupGrowing
<1>12. CASE done' = FALSE /\ UNCHANGED sect
  <2>1. ContinentSizes' /\ GroupsDone' /\ CarryKept'
    BY <1>1, <1>12, GroupTurn
  <2>2. \A j \in 0..args.nc - 1 :
         LET n == Len(sect[Group(group) + j])
         IN  IF turn' = 0 THEN n \in {secs' - 1, secs'}
             ELSE IF j < turn' THEN n \in {secs', secs' + 1} ELSE n = secs'
    <3> SUFFICES ASSUME NEW j \in 0..args.nc - 1
                 PROVE  LET n == Len(sect[Group(group) + j])
                        IN  IF turn' = 0 THEN n \in {secs' - 1, secs'}
                            ELSE IF j < turn' THEN n \in {secs', secs' + 1} ELSE n = secs'
      OBVIOUS
    <3> DEFINE n == Len(sect[Group(group) + j])
    <3>1. IF done THEN n = secs + Grew(j)
          ELSE IF turn = 0 THEN n \in {secs - 1, secs}
          ELSE IF j < turn THEN n \in {secs, secs + 1} ELSE n = secs
      BY <1>11
    <3>2. turn > 0 \/ done
      BY <1>1
    <3> HIDE DEF n
    <3>3. IF turn' = 0 THEN n \in {secs' - 1, secs'}
          ELSE IF j < turn' THEN n \in {secs', secs' + 1} ELSE n = secs'
      BY <1>1, <1>2, <1>4, <1>5, <3>1, <3>2 DEF Grew
    <3> QED
      BY <3>3 DEF n
  <2>3. GroupGrowing'
    BY <1>1, <1>9, <1>10, <1>12, <2>2 DEF GroupGrowing
  <2> QED
    BY <1>7, <2>1, <2>3 DEF Progress
<1>13. CASE ~(done' = FALSE /\ UNCHANGED sect)
  <2>1. PICK spike \in Spikes : /\ \E t \in Candidates(FirstIsland + turn, spike) :
                                     AddSector(FirstIsland + turn, t)
                                /\ UNCHANGED done
    BY <1>13 DEF GrowIsland, land
  <2> PICK t \in Candidates(FirstIsland + turn, spike) : AddSector(FirstIsland + turn, t)
    BY <2>1
  <2>2. FirstIsland + turn \in Islands
    BY <1>4
  <2>3. t \in Sectors
    BY <2>2, GrowthIs DEF Typed
  <2>4. \A c \in Islands : Len(sect'[c]) = IF c = FirstIsland + turn THEN Len(sect[c]) + 1 ELSE Len(sect[c])
    BY <2>2, <2>3, AddSizes
  <2>5. ContinentSizes' /\ GroupsDone' /\ CarryKept'
    BY <1>1, <2>4, GroupTurn
  <2>6. \A j \in 0..args.nc - 1 :
          LET n == Len(sect'[Group(group) + j])
          IN  IF done THEN n = secs' + Grew(j)'
              ELSE IF turn' = 0 THEN n \in {secs' - 1, secs'}
              ELSE IF j < turn' THEN n \in {secs', secs' + 1} ELSE n = secs'
    <3> SUFFICES ASSUME NEW j \in 0..args.nc - 1
                 PROVE  LET n == Len(sect'[Group(group) + j])
                        IN  IF done THEN n = secs' + Grew(j)'
                            ELSE IF turn' = 0 THEN n \in {secs' - 1, secs'}
                            ELSE IF j < turn' THEN n \in {secs', secs' + 1} ELSE n = secs'
      OBVIOUS
    <3> DEFINE m == Len(sect[Group(group) + j])
               n == Len(sect'[Group(group) + j])
    <3>1. n = IF j = turn THEN m + 1 ELSE m
      BY <1>2, <1>4, <2>4
    <3>2. IF done THEN m = secs + Grew(j)
          ELSE IF turn = 0 THEN m \in {secs - 1, secs}
          ELSE IF j < turn THEN m \in {secs, secs + 1} ELSE m = secs
      BY <1>11
    <3> HIDE DEF m, n
    <3>3. CASE done
      <4>1. n = secs' + Grew(j)'
        BY <1>1, <1>2, <1>4, <1>5, <3>1, <3>2, <3>3 DEF Grew
      <4> QED
        BY <3>3, <4>1 DEF n
    <3>4. CASE ~done
      <4>1. turn > 0
        BY <1>1, <3>4
      <4>2. IF turn' = 0 THEN n \in {secs' - 1, secs'}
            ELSE IF j < turn' THEN n \in {secs', secs' + 1} ELSE n = secs'
        BY <1>1, <1>2, <1>4, <1>5, <3>1, <3>2, <3>4, <4>1
      <4> QED
        BY <3>4, <4>2 DEF n
    <3> QED
      BY <3>3, <3>4
  <2>7. GroupGrowing'
    BY <1>1, <1>9, <1>10, <2>1, <2>6 DEF GroupGrowing
  <2> QED
    BY <1>7, <2>5, <2>7 DEF Progress
<1> QED
  BY <1>12, <1>13

LEMMA EndGroupProgress ==
    ASSUME Typed, Progress, args \in Arguments, ValidateArgs(args), EndGroup
    PROVE  Progress'
<1> DEFINE n == args.ni \div args.nc
<1>1. /\ phase = "islands" /\ turn = 0 /\ secs >= 1
      /\ phase' = "borders" /\ group' = group + 1 /\ secs' = 0
      /\ UNCHANGED <<args, isiz, turn>>
  BY DEF EndGroup
<1>2. n \in Nat /\ args.nc \in Nat \ {0} /\ group \in Nat /\ secs \in Nat /\ done \in BOOLEAN
  BY Command DEF Typed
<1>3. phase \in Running \ {"drift"}
  BY <1>1, Phases
<1>4. Loops /\ ContinentSizes /\ GroupsDone /\ GroupGrowing /\ CarryKept
  BY <1>3 DEF Progress
<1>5. group \in 0..n - 1 /\ FirstIsland = Group(group) /\ Len(isiz) = n /\ FirstIsland \in Nat
  BY <1>1, TurnOfIsland
<1>6. /\ Settled \in Nat /\ Settled >= 1
      /\ \A c \in FirstIsland..FirstIsland + args.nc - 1 :
           /\ c \in Islands /\ c >= args.nc
           /\ Len(sect[c]) = IF c \in CutBack THEN Settled + 1 ELSE Settled
  BY <1>1, CutIs
<1>7. /\ sect' = [c \in Islands |-> IF c \in CutBack THEN Front(sect[c]) ELSE sect[c]]
      /\ carry' = carry - Settled
  BY EndGroupIs
<1>8. carry \in Nat /\ Settled <= secs /\ secs <= IslandSize
      /\ IslandSize \in Nat /\ IslandSize <= 2 * args.is /\ IslandSize <= carry
  <2>1. carry \in Nat
    BY <1>4 DEF CarryKept, Typed
  <2>2. secs <= IslandSize
    BY <1>1, <1>4 DEF GroupGrowing
  <2> QED
    BY <1>2, <2>1, <2>2, IslandSizeIs DEF Settled
<1>9. Settled \in 1..2 * args.is /\ carry' \in Nat
  <2> DEFINE b == 2 * args.is
  <2>1. b \in Nat /\ Settled <= b /\ Settled <= carry
    <3>1. b \in Nat
      BY Command
    <3> HIDE DEF b
    <3>2. IslandSize <= b
      BY <1>8 DEF b
    <3> QED
      BY <1>2, <1>6, <1>8, <3>1, <3>2
  <2> HIDE DEF b
  <2>2. Settled \in 1..b /\ carry' \in Nat
    BY <1>6, <1>7, <1>8, <2>1
  <2> QED
    BY <2>2 DEF b
<1>10. \A c \in FirstIsland..FirstIsland + args.nc - 1 : Len(sect'[c]) = Settled
  <2> SUFFICES ASSUME NEW c \in FirstIsland..FirstIsland + args.nc - 1
               PROVE  Len(sect'[c]) = Settled
    OBVIOUS
  <2>1. sect[c] \in Seq(Sectors) /\ sect'[c] = IF c \in CutBack THEN Front(sect[c]) ELSE sect[c]
    BY <1>6, <1>7 DEF Typed
  <2>2. c \in CutBack => Len(sect[c]) >= 1
    BY <1>6
  <2>3. c \in CutBack => Len(Front(sect[c])) = Len(sect[c]) - 1
    BY <2>1, <2>2, FrontIs
  <2> QED
    BY <1>6, <2>1, <2>3
<1>11. \A c \in Islands : c \notin FirstIsland..FirstIsland + args.nc - 1 => sect'[c] = sect[c]
  BY <1>7 DEF CutBack
<1>12. \A j \in 0..args.nc - 1 : Group(group) + j \in FirstIsland..FirstIsland + args.nc - 1
  BY <1>2, <1>5
<1>13. n \in 0..n /\ 0 \in 0..args.nc - 1
  <2> HIDE DEF n
  <2> QED
    BY <1>2
<1>14. \A i \in 0..n - 1, j \in 0..args.nc - 1 :
         i # group => /\ Group(i) + j \in Islands
                      /\ Group(i) + j \notin FirstIsland..FirstIsland + args.nc - 1
  <2> SUFFICES ASSUME NEW i \in 0..n - 1, NEW j \in 0..args.nc - 1, i # group
               PROVE  /\ Group(i) + j \in Islands
                      /\ Group(i) + j \notin FirstIsland..FirstIsland + args.nc - 1
    OBVIOUS
  <2>1. Group(i) + j \in Islands
    BY <1>13, EarlierGroups
  <2>2. ASSUME Group(i) + j \in FirstIsland..FirstIsland + args.nc - 1
        PROVE  FALSE
    <3>1. PICK l \in 0..args.nc - 1 : Group(i) + j = Group(group) + l
      <4> DEFINE c == Group(i) + j
      <4>1. c \in FirstIsland..FirstIsland + args.nc - 1
        BY <2>2
      <4> HIDE DEF c
      <4>2. c - FirstIsland \in 0..args.nc - 1 /\ c = Group(group) + (c - FirstIsland)
        BY <1>2, <1>5, <4>1
      <4> QED
        BY <4>2 DEF c
    <3> QED
      BY <1>5, <1>13, <2>2, <3>1, EarlierGroups
  <2> QED
    BY <2>1, <2>2
<1>15. \A i \in 0..n - 1, j \in 0..args.nc - 1 :
         /\ Len(sect'[Group(i) + j]) = IF i = group THEN Settled ELSE Len(sect[Group(i) + j])
         /\ Len(sect'[Group(i)]) = IF i = group THEN Settled ELSE Len(sect[Group(i)])
  <2>1. \A i \in 0..n - 1, j \in 0..args.nc - 1 :
          Len(sect'[Group(i) + j]) = IF i = group THEN Settled ELSE Len(sect[Group(i) + j])
    BY <1>10, <1>11, <1>12, <1>14
  <2>2. \A i \in 0..n - 1 : Group(i) + 0 = Group(i)
    BY <1>13, EarlierGroups
  <2> HIDE DEF n
  <2> QED
    BY <1>13, <2>1, <2>2
<1>16. \A i : Group(i)' = Group(i)
  BY <1>1 DEF Group
<1>17. Loops'
  <2>1. group' \in Nat /\ group' <= n
    <3> HIDE DEF n
    <3> QED
      BY <1>1, <1>2, <1>5
  <2> QED
    BY <1>1, <1>2, <1>4, <1>5, <2>1 DEF Loops
<1>18. ContinentSizes'
  <2>1. \A c \in Continents : sect'[c] = sect[c]
    <3> SUFFICES ASSUME NEW c \in Continents PROVE sect'[c] = sect[c]
      OBVIOUS
    <3>1. c \in Islands /\ c < args.nc /\ c \in Nat
      BY IslandNumbers
    <3>2. c \notin FirstIsland..FirstIsland + args.nc - 1
      BY <1>2, <1>6, <3>1
    <3> QED
      BY <1>11, <3>1, <3>2
  <2>2. \A c \in Continents : Len(sect[c]) = args.sc
    BY <1>1, <1>4 DEF ContinentSizes
  <2> QED
    BY <1>1, <2>1, <2>2, ContinentsFixed DEF ContinentSizes
<1>19. GroupsDone'
  <2>1. /\ \A i \in 0..group - 1 : \A j \in 0..args.nc - 1 :
             /\ Len(sect[Group(i) + j]) = Len(sect[Group(i)])
             /\ Len(sect[Group(i)]) \in 1..2 * args.is
        /\ \A i \in group + 1..n - 1 : \A j \in 0..args.nc - 1 : Len(sect[Group(i) + j]) = 0
    BY <1>1, <1>4 DEF GroupsDone
  <2> HIDE DEF n
  <2>2. /\ \A i \in 0..group' - 1 : i \in 0..n - 1 /\ (i # group => i \in 0..group - 1)
        /\ \A i \in group'..n - 1 : i \in group + 1..n - 1 /\ i \in 0..n - 1 /\ i # group
    BY <1>1, <1>2, <1>5
  <2>3. \A i \in 0..group' - 1 : \A j \in 0..args.nc - 1 :
             /\ Len(sect'[Group(i) + j]) = Len(sect'[Group(i)])
             /\ Len(sect'[Group(i)]) \in 1..2 * args.is
    BY <1>9, <1>15, <2>1, <2>2
  <2>4. \A i \in group'..n - 1 : \A j \in 0..args.nc - 1 : Len(sect'[Group(i) + j]) = 0
    BY <1>15, <2>1, <2>2
  <2> QED
    BY <1>1, <1>16, <2>3, <2>4 DEF GroupsDone, n
<1>20. CarryKept'
  <2> DEFINE S == 0..group - 1
             g == [i \in 0..group' - 1 |-> isiz'[i + 1] - Len(sect'[Group(i)])]
             f == [i \in S |-> isiz[i + 1] - Len(sect[Group(i)])]
  <2>1. Carried' = SumFunctionOnSet(g, 0..group' - 1)
    BY <1>16 DEF Carried
  <2>2. Carried = SumFunctionOnSet(f, S)
    BY DEF Carried
  <2>3. 0..group' - 1 = S \cup {group} /\ group \notin S /\ IsFiniteSet(S)
    <3>1. 0..group' - 1 = S \cup {group} /\ group \notin S
      BY <1>1, <1>2
    <3>2. IsFiniteSet(S)
      BY <1>2, Below
    <3> QED
      BY <3>1, <3>2
  <2>4. \A i \in S : i \in 0..n - 1 /\ i # group /\ i + 1 \in 1..Len(isiz)
    <3> HIDE DEF n
    <3> QED
      BY <1>2, <1>5
  <2>5. \A i \in S : g[i] = f[i] /\ f[i] \in Int
    <3>1. \A i \in S : Len(sect'[Group(i)]) = Len(sect[Group(i)]) /\ g[i] = isiz'[i + 1] - Len(sect'[Group(i)])
      BY <1>13, <1>15, <2>3, <2>4
    <3>2. \A i \in S : Len(sect[Group(i)]) \in Nat /\ isiz[i + 1] \in Int
      BY <1>4, <2>4 DEF GroupsDone, Typed
    <3>3. \A i \in S : f[i] = isiz[i + 1] - Len(sect[Group(i)])
      OBVIOUS
    <3>4. isiz' = isiz
      BY <1>1
    <3> HIDE DEF S, f, g
    <3> QED
      BY <3>1, <3>2, <3>3, <3>4
  <2>6. isiz[group + 1] \in Nat \ {0}
    BY <1>1, TurnOfIsland
  <2>7. g[group] = isiz[group + 1] - Settled /\ g[group] \in Int
    <3>1. g[group] = isiz'[group + 1] - Len(sect'[Group(group)])
      BY <2>3
    <3>2. Len(sect'[Group(group)]) = Settled
      BY <1>5, <1>13, <1>15
    <3> QED
      BY <1>1, <1>6, <2>6, <3>1, <3>2
  <2> HIDE DEF S, f, g
  <2>8. SumFunctionOnSet(g, S \cup {group}) = SumFunctionOnSet(g, S) + g[group]
    BY <2>3, <2>5, <2>7, SumAdd
  <2>9. SumFunctionOnSet(g, S) = SumFunctionOnSet(f, S)
    BY <2>3, <2>5, SumSame
  <2>10. SumFunctionOnSet(f, S) \in Int
    BY <2>3, <2>5, SumIsInt
  <2>11. Carried' = Carried + isiz[group + 1] - Settled
    BY <1>6, <2>1, <2>2, <2>3, <2>6, <2>7, <2>8, <2>9, <2>10
  <2>12. carry = Carried + isiz[group + 1]
    BY <1>1, <1>3, <1>4, Phases DEF CarryKept
  <2>13. carry' = Carried'
    BY <1>6, <1>7, <2>2, <2>6, <2>10, <2>11, <2>12
  <2> QED
    BY <1>1, <1>9, <2>13 DEF CarryKept
<1>21. GroupGrowing'
  BY <1>1 DEF GroupGrowing
<1> QED
  BY <1>17, <1>18, <1>19, <1>20, <1>21 DEF Progress

\* Together: the loops keep to their course.
LEMMA ProgressStep ==
    ASSUME WellTyped, Progress, Next
    PROVE  Progress'
<1>1. CASE Refuse
  BY <1>1, Phases DEF Refuse, Progress
<1>2. CASE Start
  <2>1. args \in Arguments /\ ValidateArgs(args) /\ UNCHANGED args /\ Blank(args) /\ phase' = "drift"
    BY <1>2 DEF Start, WellTyped
  <2> QED
    BY <2>1, BlankProgress
<1>3. CASE Retry
  <2>1. CASE phase' = "drift"
    <3>1. args \in Arguments /\ ValidateArgs(args) /\ UNCHANGED args /\ Blank(args)
      BY <1>3, <2>1 DEF Retry, WellTyped
    <3> QED
      BY <2>1, <3>1, BlankProgress
  <2>2. CASE phase' # "drift"
    BY <1>3, <2>2, Phases DEF Retry, Progress
  <2> QED
    BY <2>1, <2>2
<1>4. CASE Settle
  BY <1>4, SettleProgress, RunningTyped, Phases DEF Settle
<1>5. CASE DriftCapital
  BY <1>5, DriftProgress, RunningTyped, Phases DEF DriftCapital
<1>6. CASE PlaceCapital
  BY <1>6, PlaceCapitalProgress, RunningTyped, Phases DEF PlaceCapital
<1>7. CASE GrowContinent
  BY <1>7, GrowContinentProgress, RunningTyped, Phases DEF GrowContinent
<1>8. CASE ContinentsDone
  BY <1>8, ContinentsDoneProgress, RunningTyped, Phases DEF ContinentsDone
<1>9. CASE Search
  BY <1>9, SizesKept DEF Search, land, loops
<1>10. CASE SearchFromBorders
  BY <1>10, BordersProgress, RunningTyped, Phases DEF SearchFromBorders
<1>11. CASE SizeIslands
  BY <1>11, SizeIslandsProgress, RunningTyped, Phases DEF SizeIslands
<1>12. CASE StartGroup
  BY <1>12, StartGroupProgress, RunningTyped, Phases DEF StartGroup
<1>13. CASE PlaceIsland
  BY <1>13, PlaceIslandProgress, RunningTyped, Phases DEF PlaceIsland
<1>14. CASE GrowIsland
  BY <1>14, GrowIslandProgress, RunningTyped, Phases DEF GrowIsland
<1>15. CASE EndGroup
  BY <1>15, EndGroupProgress, RunningTyped, Phases DEF EndGroup
<1>16. CASE Raise
  BY <1>16, SizesKept DEF Raise, land, loops
<1>17. CASE Write
  BY <1>17, WriteProgress, RunningTyped, Phases DEF Write
<1> QED
  BY <1>1, <1>2, <1>3, <1>4, <1>5, <1>6, <1>7, <1>8, <1>9, <1>10, <1>11, <1>12, <1>13, <1>14,
     <1>15, <1>16, <1>17 DEF Next

LEMMA TypedStep ==
    ASSUME WellTyped, Land, Progress, Next
    PROVE  WellTyped'
BY StartTyped, SettleTyped, DriftTyped, ContinentsDoneTyped, RaiseTyped, WriteTyped, RefuseTyped,
   PlaceCapitalTyped, GrowContinentTyped, PlaceIslandTyped, GrowIslandTyped, SearchTyped,
   BordersTyped, SizeIslandsTyped, StartGroupTyped, EndGroupTyped DEF Next

\* The map and the loops are an inductive invariant.
LEMMA GrownStep ==
    ASSUME WellTyped, Land, Progress, [Next]_vars
    PROVE  WellTyped' /\ Land' /\ Progress'
<1>1. CASE Next
  BY <1>1, TypedStep, LandStep, ProgressStep
<1>2. CASE UNCHANGED vars
  <2>1. UNCHANGED <<args, try, phase, cap, turns, mc, own, adjLand, xzone, sect, closest, distance,
                    bfs, isiz, group, turn, secs, done, carry, elev, odd, raises>>
    BY <1>2 DEF vars, drifting, land, search, loops, heights
  <2>2. WellTyped'
    BY <2>1 DEF WellTyped, Typed, Continents, Islands, ValidateArgs
  <2>3. Land'
    BY <2>1 DEF Land, Mapped, IsLand, SectorsOf, Islands
  <2>4. Progress'
    BY <2>1, SizesKept
  <2> QED
    BY <2>2, <2>3, <2>4
<1> QED
  BY <1>1, <1>2

LEMMA GrownInit == Init => WellTyped /\ Land /\ Progress
BY Phases, WorldAssumption DEF Init, WellTyped, Land, Progress

-----------------------------------------------------------------------------
(* Drifting. *)

\* How far s is from all capitals but that of j, and the least of those distances.
IsoOf(cs, caps, j, s) == LET others == {MapDist(caps[i], s) : i \in cs \ {j}}
                         IN  IF others = {} THEN Far ELSE Min(others)
NearestOf(cs, caps) == Min({IsoOf(cs, caps, i, caps[i]) : i \in cs})

LEMMA IsoIs ==
    ASSUME NEW cs, NEW caps \in [cs -> Sectors], NEW j, NEW s \in Sectors
    PROVE  /\ IsoOf(cs, caps, j, s) \in 0..Far
           /\ \A i \in cs \ {j} : IsoOf(cs, caps, j, s) <= MapDist(caps[i], s)
           /\ \A n \in 0..Far : (\A i \in cs \ {j} : n <= MapDist(caps[i], s)) => n <= IsoOf(cs, caps, j, s)
<1> DEFINE others == {MapDist(caps[i], s) : i \in cs \ {j}}
           m == IsoOf(cs, caps, j, s)
<1>1. Far \in Nat
  BY FarIs
<1>2. \A i \in cs \ {j} : MapDist(caps[i], s) \in 0..Far
  <2>1. \A i \in cs : MapDist(caps[i], s) \in Nat /\ MapDist(caps[i], s) < Far
    BY Distances
  <2> QED
    BY <1>1, <2>1
<1>3. others \subseteq 0..Far /\ others \subseteq Nat
  BY <1>1, <1>2
<1>4. m = IF others = {} THEN Far ELSE Min(others)
  BY DEF IsoOf
<1>5. \A i \in cs \ {j} : MapDist(caps[i], s) \in others
  OBVIOUS
<1>6. \A x \in others : \E i \in cs \ {j} : x = MapDist(caps[i], s)
  OBVIOUS
<1> HIDE DEF others, m
<1>7. CASE others = {}
  BY <1>1, <1>4, <1>5, <1>7 DEF m
<1>8. CASE others # {}
  <2>1. m \in others /\ \A y \in others : m <= y
    BY <1>3, <1>4, <1>8, LeastExists
  <2> QED
    BY <1>1, <1>3, <1>5, <1>6, <2>1 DEF m
<1> QED
  BY <1>7, <1>8

LEMMA NearestIs ==
    ASSUME NEW cs, cs # {}, NEW caps \in [cs -> Sectors]
    PROVE  /\ NearestOf(cs, caps) \in 0..Far
           /\ \A i \in cs : NearestOf(cs, caps) <= IsoOf(cs, caps, i, caps[i])
           /\ \A n \in 0..Far : (\A i \in cs : n <= IsoOf(cs, caps, i, caps[i])) => n <= NearestOf(cs, caps)
<1> DEFINE all == {IsoOf(cs, caps, i, caps[i]) : i \in cs}
<1>1. \A i \in cs : IsoOf(cs, caps, i, caps[i]) \in 0..Far
  BY IsoIs
<1>2. Far \in Nat
  BY FarIs
<1>3. all \subseteq Nat /\ all # {} /\ all \subseteq 0..Far
  BY <1>1, <1>2
<1>4. NearestOf(cs, caps) = Min(all)
  BY DEF NearestOf
<1>5. \A i \in cs : IsoOf(cs, caps, i, caps[i]) \in all
  OBVIOUS
<1>6. \A x \in all : \E i \in cs : x = IsoOf(cs, caps, i, caps[i])
  OBVIOUS
<1> HIDE DEF all
<1>7. Min(all) \in all /\ \A y \in all : Min(all) <= y
  BY <1>3, LeastExists
<1> QED
  BY <1>3, <1>4, <1>5, <1>6, <1>7

\* A capital that comes no nearer to the others brings nobody nearer.
LEMMA NoNearer ==
    ASSUME NEW cs, NEW caps \in [cs -> Sectors], NEW j \in cs, NEW t \in Sectors,
           IsoOf(cs, caps, j, t) >= IsoOf(cs, caps, j, caps[j])
    PROVE  NearestOf(cs, [caps EXCEPT ![j] = t]) >= NearestOf(cs, caps)
<1> DEFINE new == [caps EXCEPT ![j] = t]
           n == NearestOf(cs, caps)
<1>1. new \in [cs -> Sectors] /\ new[j] = t /\ \A i \in cs \ {j} : new[i] = caps[i]
  OBVIOUS
<1> HIDE DEF new
<1>2. /\ n \in 0..Far
      /\ \A i \in cs : n <= IsoOf(cs, caps, i, caps[i])
  BY NearestIs
<1>3. Far \in Nat /\ \A i \in cs, s \in Sectors : IsoOf(cs, caps, i, s) \in 0..Far
  BY FarIs, IsoIs
<1>4. n <= IsoOf(cs, caps, j, t)
  <2>1. IsoOf(cs, caps, j, t) \in Int /\ IsoOf(cs, caps, j, caps[j]) \in Int /\ n \in Int
    BY <1>2, <1>3
  <2>2. n <= IsoOf(cs, caps, j, caps[j])
    BY <1>2
  <2> HIDE DEF n
  <2> QED
    BY <2>1, <2>2
<1>5. \A i, k \in cs : MapDist(caps[i], caps[k]) \in Nat /\ MapDist(caps[i], t) \in Nat
                       /\ MapDist(t, caps[i]) = MapDist(caps[i], t)
  BY Distances
<1>6. \A i \in cs : \A k \in cs \ {i} : n <= MapDist(new[k], new[i])
  <2> SUFFICES ASSUME NEW i \in cs, NEW k \in cs \ {i}
               PROVE  n <= MapDist(new[k], new[i])
    OBVIOUS
  <2>1. CASE i = j
    <3>1. IsoOf(cs, caps, j, t) <= MapDist(caps[k], t) /\ new[i] = t /\ new[k] = caps[k]
      BY <1>1, <2>1, IsoIs
    <3>2. n \in Int /\ IsoOf(cs, caps, j, t) \in Int /\ MapDist(caps[k], t) \in Int
      BY <1>2, <1>3, <1>5
    <3> HIDE DEF n
    <3> QED
      BY <1>4, <3>1, <3>2
  <2>2. CASE k = j
    <3>1. IsoOf(cs, caps, j, t) <= MapDist(caps[i], t) /\ new[k] = t /\ new[i] = caps[i]
      BY <1>1, <2>2, IsoIs
    <3>2. MapDist(new[k], new[i]) = MapDist(caps[i], t)
      BY <1>5, <3>1
    <3>3. n \in Int /\ IsoOf(cs, caps, j, t) \in Int /\ MapDist(caps[i], t) \in Int
      BY <1>2, <1>3, <1>5
    <3> HIDE DEF n
    <3> QED
      BY <1>4, <3>1, <3>2, <3>3
  <2>3. CASE i # j /\ k # j
    <3>1. IsoOf(cs, caps, i, caps[i]) <= MapDist(caps[k], caps[i]) /\ new[k] = caps[k] /\ new[i] = caps[i]
      BY <1>1, <2>3, IsoIs
    <3>2. n \in Int /\ IsoOf(cs, caps, i, caps[i]) \in Int /\ MapDist(caps[k], caps[i]) \in Int
          /\ n <= IsoOf(cs, caps, i, caps[i])
      BY <1>2, <1>3, <1>5
    <3> HIDE DEF n
    <3> QED
      BY <3>1, <3>2
  <2> QED
    BY <2>1, <2>2, <2>3
<1>7. \A i \in cs : n <= IsoOf(cs, new, i, new[i])
  BY <1>1, <1>2, <1>6, IsoIs
<1>8. n <= NearestOf(cs, new)
  BY <1>1, <1>2, <1>7, NearestIs
<1>9. n \in Int /\ NearestOf(cs, new) \in Int
  BY <1>1, <1>2, NearestIs
<1> HIDE DEF n
<1>10. NearestOf(cs, new) >= n
  BY <1>8, <1>9
<1> QED
  BY <1>10 DEF n, new

LEMMA DriftKept ==
    ASSUME WellTyped, Progress, Next, phase = "drift"
    PROVE  NearestCapitals' >= NearestCapitals
<1>1. Typed /\ args \in Arguments /\ ValidateArgs(args)
  BY RunningTyped, Phases
<1>2. cap \in [Continents -> Sectors] /\ Continents # {}
  <2>1. 0 \in 0..args.nc - 1
    BY <1>1, Command
  <2> QED
    BY <1>1, <2>1 DEF Typed, Continents
<1>3. NearestCapitals = NearestOf(Continents, cap) /\ NearestCapitals \in Int
  <2>1. NearestCapitals = NearestOf(Continents, cap)
    BY DEF NearestCapitals, NearestOf, Iso, IsoOf
  <2> QED
    BY <1>2, <2>1, NearestIs, FarIs
<1>4. NearestCapitals' = NearestOf(Continents', cap')
  BY DEF NearestCapitals, NearestOf, Iso, IsoOf
<1>5. Settle \/ DriftCapital
  BY DEF Next, Refuse, Start, Retry, PlaceCapital, GrowContinent, ContinentsDone, Search,
         SearchFromBorders, SizeIslands, StartGroup, PlaceIsland, GrowIsland, EndGroup, Raise, Write
<1>6. CASE UNCHANGED <<args, cap>>
  <2>1. NearestCapitals' = NearestCapitals
    BY <1>3, <1>4, <1>6, ContinentsFixed
  <2> QED
    BY <1>3, <2>1
<1>7. CASE DriftCapital /\ cap' # cap
  <2>1. turn \in 1..args.nc /\ UNCHANGED args
    BY <1>7 DEF DriftCapital
  <2> DEFINE j == turn - 1
             To(start, k) == Step(cap[j], ((start + k - 1) % 6) + 1)
             good(start) == {k \in 0..5 : Iso(j, To(start, k)) >= Iso(j, cap[j])}
  <2>2. PICK start \in Directions \ {4} :
          cap' = IF good(start) = {} THEN cap ELSE [cap EXCEPT ![j] = To(start, Min(good(start)))]
    BY <1>7 DEF DriftCapital
  <2>3. j \in Continents
    BY <1>1, <2>1, Command DEF Continents
  <2>4. good(start) # {}
    BY <1>7, <2>2
  <2>5. Min(good(start)) \in good(start)
    <3>1. good(start) \subseteq Nat
      OBVIOUS
    <3> HIDE DEF good
    <3> QED
      BY <2>4, <3>1, LeastExists
  <2> DEFINE t == To(start, Min(good(start)))
  <2>6. t \in Sectors
    <3>1. \A k \in 0..5 : ((start + k - 1) % 6) + 1 \in Directions
      BY DEF Directions
    <3>2. cap[j] \in Sectors
      BY <1>2, <2>3
    <3>3. Min(good(start)) \in 0..5
      BY <2>5
    <3> HIDE DEF good
    <3> QED
      BY <3>1, <3>2, <3>3, StepSector
  <2>7. Iso(j, t) >= Iso(j, cap[j])
    <3>1. \A k \in good(start) : Iso(j, To(start, k)) >= Iso(j, cap[j])
      OBVIOUS
    <3> HIDE DEF good, To
    <3> QED
      BY <2>5, <3>1
  <2>8. cap' = [cap EXCEPT ![j] = t]
    BY <2>2, <2>4
  <2> HIDE DEF t, good, To, j
  <2>9. IsoOf(Continents, cap, j, t) >= IsoOf(Continents, cap, j, cap[j])
    BY <2>7 DEF Iso, IsoOf
  <2>10. NearestOf(Continents, [cap EXCEPT ![j] = t]) >= NearestOf(Continents, cap)
    BY <1>2, <2>3, <2>6, <2>9, NoNearer
  <2> QED
    BY <1>3, <1>4, <2>1, <2>8, <2>10, ContinentsFixed
<1> QED
  BY <1>5, <1>6, <1>7 DEF Settle, DriftCapital

\* Drifting never brings the two capitals that are nearest closer together (drift,
\* drift_capital), on whatever map.
THEOREM CapitalsSpread == Spec => DriftSpreads
<1>1. Init => WellTyped /\ Land /\ Progress
  BY GrownInit
<1>2. WellTyped /\ Land /\ Progress /\ [Next]_vars => WellTyped' /\ Land' /\ Progress'
  BY GrownStep
<1>3. WellTyped /\ Land /\ Progress /\ [Next]_vars
        => [phase = "drift" => NearestCapitals' >= NearestCapitals]_vars
  BY DriftKept
<1> QED
  BY <1>1, <1>2, <1>3, PTL DEF Spec, DriftSpreads

-----------------------------------------------------------------------------
(* The queue of the search. *)

\* A turn of a queue: the first goes, others come last.
Turned(q, f, r) ==
    /\ Len(r) = Len(q) - 1 + Len(f)
    /\ \A k \in 1..Len(q) - 1 : r[k] = q[k + 1]
    /\ \A k \in 1..Len(f) : r[Len(q) - 1 + k] = f[k]
LEMMA QueueTurns ==
    ASSUME NEW S, NEW q \in Seq(S), q # << >>, NEW f \in Seq(S)
    PROVE  Turned(q, f, Tail(q) \o f)
<1>1. Tail(q) \in Seq(S) /\ Len(Tail(q)) = Len(q) - 1 /\ \A k \in 1..Len(q) - 1 : Tail(q)[k] = q[k + 1]
  OBVIOUS
<1> DEFINE t == Tail(q)
           n == Len(q) - 1
<1>2. Len(q) \in Nat /\ Len(q) >= 1 /\ Len(f) \in Nat
  OBVIOUS
<1>3. t \in Seq(S) /\ Len(t) = n /\ n \in Nat
  BY <1>1, <1>2
<1> HIDE DEF t, n
<1>4. Len(t \o f) = n + Len(f) /\ \A k \in 1..n + Len(f) : (t \o f)[k] = IF k <= n THEN t[k] ELSE f[k - n]
  BY <1>3
<1>5. \A k \in 1..n : (t \o f)[k] = t[k]
  BY <1>2, <1>3, <1>4
<1>6. \A k \in 1..Len(f) : (t \o f)[n + k] = f[k]
  BY <1>2, <1>3, <1>4
<1> QED
  BY <1>1, <1>4, <1>5, <1>6 DEF Turned, t, n

\* Where the elements of the new queue come from.
LEMMA TurnedFrom ==
    ASSUME NEW q, NEW f, NEW r, Turned(q, f, r), Len(q) \in Nat, Len(q) >= 1, Len(f) \in Nat
    PROVE  \A i \in 1..Len(r) : \/ i \in 1..Len(q) - 1 /\ i + 1 \in 1..Len(q) /\ r[i] = q[i + 1]
                                \/ /\ i \notin 1..Len(q) - 1
                                   /\ \E k \in 1..Len(f) : i = Len(q) - 1 + k /\ r[i] = f[k]
<1> SUFFICES ASSUME NEW i \in 1..Len(r)
             PROVE  \/ i \in 1..Len(q) - 1 /\ i + 1 \in 1..Len(q) /\ r[i] = q[i + 1]
                    \/ /\ i \notin 1..Len(q) - 1
                       /\ \E k \in 1..Len(f) : i = Len(q) - 1 + k /\ r[i] = f[k]
  OBVIOUS
<1>1. CASE i <= Len(q) - 1
  <2>1. i \in 1..Len(q) - 1 /\ i + 1 \in 1..Len(q)
    BY <1>1
  <2> QED
    BY <2>1 DEF Turned
<1>2. CASE i > Len(q) - 1
  <2> DEFINE k == i - (Len(q) - 1)
  <2>1. k \in 1..Len(f) /\ i = Len(q) - 1 + k /\ i \notin 1..Len(q) - 1
    BY <1>2 DEF Turned
  <2>2. r[Len(q) - 1 + k] = f[k]
    BY <2>1 DEF Turned
  <2>3. r[i] = f[k]
    BY <2>1, <2>2
  <2> HIDE DEF k
  <2> QED
    BY <2>1, <2>3
<1> QED
  BY <1>1, <1>2

\* One turn of the search: what is in the queue, and how far it is.
LEMMA SearchIs ==
    ASSUME Typed, Search
    PROVE  LET o == Head(bfs)
           IN  /\ o \in Sectors /\ Len(bfs) \in Nat /\ Len(bfs) >= 1 /\ o = bfs[1]
               /\ Found(o) \in Seq(Sectors) /\ Turned(bfs, Found(o), bfs')
               /\ \A t : t \in FoundAt(o) <=> t \in Around(o) /\ distance[o] + 1 < distance[t]
               /\ \A k \in 1..Len(Found(o)) : Found(o)[k] \in FoundAt(o)
               /\ \A t \in FoundAt(o) : \E k \in 1..Len(Found(o)) : Found(o)[k] = t
               /\ \A k, l \in 1..Len(Found(o)) : Found(o)[k] = Found(o)[l] => k = l
               /\ FoundAt(o) \subseteq Sectors
               /\ distance' = [t \in Sectors |-> IF t \in FoundAt(o) THEN distance[o] + 1 ELSE distance[t]]
<1> DEFINE o == Head(bfs)
<1>1. o \in Sectors /\ Len(bfs) \in Nat /\ Len(bfs) >= 1 /\ o = bfs[1] /\ bfs # << >>
  BY HeadOfQueue DEF Search
<1>2. Lists(Found(o), FoundAt(o), Sectors) /\ \A t : t \in FoundAt(o) <=> t \in Around(o) /\ distance[o] + 1 < distance[t]
  BY <1>1, FoundIs
<1>3. /\ bfs' = Tail(bfs) \o Found(o)
      /\ distance' = [t \in Sectors |-> IF t \in FoundAt(o) THEN distance[o] + 1 ELSE distance[t]]
  BY DEF Search
<1>4. FoundAt(o) \subseteq Sectors
  BY <1>1, <1>2, Neighbours
<1> HIDE DEF o
<1>5. Found(o) \in Seq(Sectors)
  BY <1>2 DEF Lists
<1>6. Turned(bfs, Found(o), bfs')
  BY <1>1, <1>3, <1>5, QueueTurns DEF Typed
<1>7. /\ \A k \in 1..Len(Found(o)) : Found(o)[k] \in FoundAt(o)
      /\ \A t \in FoundAt(o) : \E k \in 1..Len(Found(o)) : Found(o)[k] = t
      /\ \A k, l \in 1..Len(Found(o)) : Found(o)[k] = Found(o)[l] => k = l
  BY <1>2 DEF Lists
<1> QED
  BY <1>1, <1>2, <1>3, <1>4, <1>5, <1>6, <1>7 DEF o

LEMMA SearchQueue ==
    ASSUME Typed, Queue, Search
    PROVE  Queue'
<1> DEFINE o == Head(bfs)
           d == distance[o]
           q == bfs
           r == bfs'
           f == Found(o)
<1>1. phase \in {"spheres", "borders", "coast"} /\ UNCHANGED phase /\ phase \in Running
  BY Phases DEF Search
<1>2. /\ o \in Sectors /\ Len(q) \in Nat /\ Len(q) >= 1 /\ o = q[1]
      /\ f \in Seq(Sectors) /\ Turned(q, f, r)
      /\ \A t : t \in FoundAt(o) <=> t \in Around(o) /\ d + 1 < distance[t]
      /\ \A k \in 1..Len(f) : f[k] \in FoundAt(o)
      /\ \A k, l \in 1..Len(f) : f[k] = f[l] => k = l
      /\ FoundAt(o) \subseteq Sectors
      /\ distance' = [t \in Sectors |-> IF t \in FoundAt(o) THEN d + 1 ELSE distance[t]]
  BY SearchIs
<1>3. distance \in [Sectors -> 0..Far] /\ Far \in Nat /\ \A k \in 1..Len(q) : q[k] \in Sectors
  BY FarIs DEF Typed
<1>4. \A i, j \in 1..Len(q) : /\ q[i] = q[j] => i = j
                              /\ distance[q[i]] < Far
                              /\ i <= j => /\ distance[q[i]] <= distance[q[j]]
                                           /\ distance[q[j]] <= distance[q[i]] + 1
  BY <1>1 DEF Queue
<1>5. d \in 0..Far /\ 1 \in 1..Len(q)
  BY <1>2, <1>3
<1>6. \A i \in 1..Len(q) : distance[q[i]] \in d..d + 1 /\ q[i] \notin FoundAt(o)
  <2>1. \A i \in 1..Len(q) : d <= distance[q[i]] /\ distance[q[i]] <= d + 1
    BY <1>2, <1>4, <1>5
  <2>2. \A i \in 1..Len(q) : distance[q[i]] \in Int
    BY <1>3
  <2> HIDE DEF d, q
  <2> QED
    BY <1>2, <1>5, <2>1, <2>2
<1>7. Len(f) \in Nat
  BY <1>2
<1> HIDE DEF o, d, q, r, f
<1>8. \A i \in 1..Len(q) : distance'[q[i]] = distance[q[i]]
  BY <1>2, <1>3, <1>6
<1>9. \A k \in 1..Len(f) : distance'[f[k]] = d + 1 /\ d + 1 < Far
  <2> SUFFICES ASSUME NEW k \in 1..Len(f)
               PROVE  distance'[f[k]] = d + 1 /\ d + 1 < Far
    OBVIOUS
  <2>1. f[k] \in FoundAt(o) /\ f[k] \in Sectors
    BY <1>2
  <2>2. d + 1 < distance[f[k]] /\ distance[f[k]] \in 0..Far
    BY <1>2, <1>3, <2>1
  <2> QED
    BY <1>2, <1>3, <1>5, <2>1, <2>2
<1>10. \A i \in 1..Len(r) : \/ i \in 1..Len(q) - 1 /\ i + 1 \in 1..Len(q) /\ r[i] = q[i + 1]
                            \/ /\ i \notin 1..Len(q) - 1
                               /\ \E k \in 1..Len(f) : i = Len(q) - 1 + k /\ r[i] = f[k]
  BY <1>2, <1>7, TurnedFrom
<1>11. \A i, j \in 1..Len(r) : /\ r[i] = r[j] => i = j
                               /\ distance'[r[i]] < Far
                               /\ i <= j => /\ distance'[r[i]] <= distance'[r[j]]
                                            /\ distance'[r[j]] <= distance'[r[i]] + 1
  <2> SUFFICES ASSUME NEW i \in 1..Len(r), NEW j \in 1..Len(r)
               PROVE  /\ r[i] = r[j] => i = j
                      /\ distance'[r[i]] < Far
                      /\ i <= j => /\ distance'[r[i]] <= distance'[r[j]]
                                   /\ distance'[r[j]] <= distance'[r[i]] + 1
    OBVIOUS
  <2> DEFINE Old(x) == x \in 1..Len(q) - 1 /\ x + 1 \in 1..Len(q) /\ r[x] = q[x + 1]
             New(x) == /\ x \notin 1..Len(q) - 1
                       /\ \E k \in 1..Len(f) : x = Len(q) - 1 + k /\ r[x] = f[k]
  <2>1. (Old(i) \/ New(i)) /\ (Old(j) \/ New(j))
    BY <1>10
  <2>2. ASSUME NEW x \in {i, j}, Old(x)
        PROVE  distance'[r[x]] \in d..d + 1 /\ distance'[r[x]] < Far /\ r[x] \notin FoundAt(o)
    BY <1>4, <1>6, <1>8, <2>2
  <2>3. ASSUME NEW x \in {i, j}, New(x)
        PROVE  distance'[r[x]] = d + 1 /\ d + 1 < Far /\ r[x] \in FoundAt(o)
    BY <1>2, <1>9, <2>3
  <2>4. r[i] = r[j] => i = j
    <3>1. CASE Old(i) /\ Old(j)
      <4>1. q[i + 1] = q[j + 1] => i + 1 = j + 1
        BY <1>4, <3>1
      <4> QED
        BY <1>2, <3>1, <4>1
    <3>2. CASE New(i) /\ New(j)
      BY <1>2, <3>2
    <3>3. CASE ~(Old(i) /\ Old(j)) /\ ~(New(i) /\ New(j))
      BY <2>1, <2>2, <2>3, <3>3
    <3> QED
      BY <3>1, <3>2, <3>3
  <2>5. distance'[r[i]] < Far
    BY <2>1, <2>2, <2>3
  <2>6. ASSUME i <= j
        PROVE  distance'[r[i]] <= distance'[r[j]] /\ distance'[r[j]] <= distance'[r[i]] + 1
    <3>1. CASE Old(i) /\ Old(j)
      <4>1. /\ distance[q[i + 1]] <= distance[q[j + 1]]
            /\ distance[q[j + 1]] <= distance[q[i + 1]] + 1
        <5>1. i + 1 <= j + 1
          BY <1>2, <2>6, <3>1
        <5> QED
          BY <1>4, <3>1, <5>1
      <4> QED
        BY <1>8, <3>1, <4>1
    <3>2. CASE New(i) /\ Old(j)
      <4>1. j <= Len(q) - 1 /\ i > Len(q) - 1
        BY <1>2, <3>2
      <4> QED
        BY <1>2, <2>6, <3>2, <4>1
    <3>3. CASE New(j)
      <4>1. distance'[r[j]] = d + 1
        BY <2>3, <3>3
      <4>2. distance'[r[i]] \in d..d + 1
        BY <1>5, <2>1, <2>2, <2>3
      <4> QED
        BY <1>5, <4>1, <4>2
    <3> QED
      BY <2>1, <3>1, <3>2, <3>3
  <2> QED
    BY <2>4, <2>5, <2>6
<1> QED
  BY <1>1, <1>11 DEF Queue, r

\* The queue is empty but while it is searched.
LEMMA QueueEmpty ==
    ASSUME Typed, Queue, phase \in Running, phase \notin {"spheres", "borders", "coast"}
    PROVE  Len(bfs) = 0
<1>1. Len(bfs) \in Nat
  BY DEF Typed
<1>2. 1 \notin 1..Len(bfs)
  BY DEF Queue
<1> QED
  BY <1>1, <1>2

LEMMA EmptyQueue == Len(bfs') = 0 => Queue'
BY DEF Queue

\* What searches no further keeps the queue.
LEMMA QueueKept ==
    ASSUME Typed, Queue, phase \in Running, UNCHANGED <<bfs, distance>>,
           phase' = phase \/ phase \notin {"spheres", "borders", "coast"} \/ bfs = << >>
    PROVE  Queue'
<1>1. CASE phase' = phase
  BY <1>1 DEF Queue
<1>2. CASE phase \notin {"spheres", "borders", "coast"} \/ bfs = << >>
  <2>1. Len(bfs') = 0
    BY <1>2, QueueEmpty
  <2> QED
    BY <2>1, EmptyQueue
<1> QED
  BY <1>1, <1>2

\* A new search begins with sectors of one distance.
LEMMA QueueBegins ==
    ASSUME NEW S, Lists(bfs', S, Sectors), NEW n \in 0..Far - 1, \A s \in S : distance'[s] = n,
           phase' \in {"spheres", "borders", "coast"}
    PROVE  Queue'
<1>1. \A i \in 1..Len(bfs') : distance'[bfs'[i]] = n
  BY DEF Lists
<1>2. \A i, j \in 1..Len(bfs') : bfs'[i] = bfs'[j] => i = j
  BY DEF Lists
<1>3. n < Far /\ n <= n + 1 /\ n <= n
  BY FarIs
<1> QED
  BY <1>1, <1>2, <1>3 DEF Queue

LEMMA QueueFrom ==
    ASSUME Typed, args \in Arguments, ValidateArgs(args), Land, phase \in Running,
           NEW n \in 0..args.nc + args.ni, SearchFrom(n), phase' \in {"spheres", "borders", "coast"}
    PROVE  Queue'
<1>1. /\ Lists(bfs', Coast(0..n - 1), Sectors)
      /\ distance' = [s \in Sectors |-> IF s \in Coast(0..n - 1) THEN 0 ELSE Far]
  BY SearchBegins
<1>2. Coast(0..n - 1) \subseteq Sectors
  BY CoastIs
<1> DEFINE S == Coast(0..n - 1)
<1> HIDE DEF S
<1>3. \A s \in S : distance'[s] = 0
  BY <1>1, <1>2 DEF S
<1>4. 0 \in 0..Far - 1 /\ Lists(bfs', S, Sectors)
  BY <1>1, FarIs DEF S
<1> QED
  BY <1>3, <1>4, QueueBegins

LEMMA QueueStep ==
    ASSUME WellTyped, Land, Progress, Queue, Next
    PROVE  Queue'
<1>1. CASE Refuse
  BY <1>1, Phases DEF Refuse, Queue
<1>2. CASE Start \/ Retry
  <2>1. CASE Blank(args)
    <3>1. bfs' = << >>
      BY <2>1 DEF Blank
    <3> QED
      BY <3>1, EmptyQueue
  <2>2. CASE ~Blank(args)
    BY <1>2, <2>2, Phases DEF Start, Retry, Queue
  <2> QED
    BY <2>1, <2>2
<1>3. CASE Settle
  BY <1>3, QueueKept, RunningTyped, Phases DEF Settle, search
<1>4. CASE DriftCapital
  BY <1>4, QueueKept, RunningTyped, Phases DEF DriftCapital, search
<1>5. CASE PlaceCapital
  BY <1>5, QueueKept, RunningTyped, Phases DEF PlaceCapital, search
<1>6. CASE GrowContinent
  BY <1>6, QueueKept, RunningTyped, Phases DEF GrowContinent, search
<1>7. CASE ContinentsDone
  BY <1>7, QueueKept, RunningTyped, Phases DEF ContinentsDone, search
<1>8. CASE Search
  BY <1>8, SearchQueue, RunningTyped, Phases DEF Search
<1>9. CASE SearchFromBorders
  <2>1. /\ phase = "spheres" /\ phase' = "borders" /\ bfs' = InOrder(Border, OffsetOrder)
        /\ distance' = [s \in Sectors |-> IF s \in Border THEN args.id + 1 ELSE distance[s]]
    BY <1>9 DEF SearchFromBorders
  <2>2. Typed /\ args.id \in Nat
    BY <2>1, RunningTyped, Phases, Command
  <2>3. \A s \in Border : distance'[s] = args.id + 1 /\ args.id + 1 < distance[s] /\ distance[s] \in 0..Far
    BY <2>1, <2>2 DEF Border, Typed
  <2>4. CASE Border = {}
    <3>1. Len(bfs') = 0
      <4>1. Len(bfs') \in Nat /\ 1 \notin 1..Len(bfs')
        BY <2>1, <2>4, BorderInOrder DEF Lists
      <4> QED
        BY <4>1
    <3> QED
      BY <3>1, EmptyQueue
  <2>5. CASE Border # {}
    <3>1. args.id + 1 \in 0..Far - 1
      BY <2>2, <2>3, <2>5, FarIs
    <3> QED
      BY <2>1, <2>3, <3>1, BorderInOrder, QueueBegins
  <2> QED
    BY <2>4, <2>5
<1>10. CASE SizeIslands
  <2>1. SearchFrom(args.nc) /\ phase = "sizes" /\ phase' \in {"coast", "spheres"}
    BY <1>10 DEF SizeIslands
  <2>2. Typed /\ args \in Arguments /\ ValidateArgs(args) /\ phase \in Running
    BY <2>1, RunningTyped, Phases
  <2>3. args.nc \in 0..args.nc + args.ni
    BY <2>2, Command
  <2> QED
    BY <2>1, <2>2, <2>3, QueueFrom
<1>11. CASE StartGroup
  <2>1. Typed /\ args \in Arguments /\ ValidateArgs(args) /\ phase \in Running
    BY <1>11, RunningTyped, Phases DEF StartGroup
  <2>2. CASE group = Len(isiz)
    <3>1. SearchFrom(args.nc + args.ni) /\ phase' = "coast"
      BY <1>11, <2>2 DEF StartGroup
    <3>2. args.nc + args.ni \in 0..args.nc + args.ni
      BY <2>1, Command
    <3> QED
      BY <2>1, <3>1, <3>2, QueueFrom
  <2>3. CASE group # Len(isiz)
    BY <1>11, <2>1, <2>3, QueueKept DEF StartGroup, search
  <2> QED
    BY <2>2, <2>3
<1>12. CASE PlaceIsland
  BY <1>12, QueueKept, RunningTyped, Phases DEF PlaceIsland, search
<1>13. CASE GrowIsland
  BY <1>13, QueueKept, RunningTyped, Phases DEF GrowIsland, search
<1>14. CASE EndGroup
  BY <1>14, QueueKept, RunningTyped, Phases DEF EndGroup, search
<1>15. CASE Raise
  BY <1>15, QueueKept, RunningTyped, Phases DEF Raise, search
<1>16. CASE Write
  BY <1>16, QueueKept, RunningTyped, Phases DEF Write, search
<1> QED
  BY <1>1, <1>2, <1>3, <1>4, <1>5, <1>6, <1>7, <1>8, <1>9, <1>10, <1>11, <1>12, <1>13, <1>14,
     <1>15, <1>16 DEF Next

LEMMA QueueNeverFull ==
    ASSUME Typed, Queue, phase \in Running
    PROVE  Len(bfs) <= WorldX * WorldY
<1>1. bfs \in Seq(Sectors)
  BY DEF Typed
<1>2. \A i, j \in 1..Len(bfs) : bfs[i] = bfs[j] => i = j
  BY DEF Queue
<1> DEFINE S == {bfs[k] : k \in 1..Len(bfs)}
<1>3. \A s : s \in S <=> \E i \in 1..Len(bfs) : bfs[i] = s
  OBVIOUS
<1>4. S \subseteq Sectors
  BY <1>1
<1> HIDE DEF S
<1>5. Len(bfs) = Cardinality(S)
  BY <1>1, <1>2, <1>3, DistinctList
<1>6. Cardinality(S) <= Cardinality(Sectors) /\ Cardinality(Sectors) \in Nat /\ Cardinality(Sectors) <= WorldX * WorldY
  BY <1>4, SectorsFinite, FS_Subset, FS_CardinalityType
<1>7. Len(bfs) \in Nat /\ WorldX * WorldY \in Nat
  BY <1>1, FarIs DEF Far
<1> QED
  BY <1>5, <1>6, <1>7

\* The lists of sectors, the owners and the bits of adjacent land agree, and the
\* queue of the search is never full (fairland.rs), on whatever map.
THEOREM WorldTypeCorrect == Spec => []TypeOK
<1> DEFINE Inv == WellTyped /\ Land /\ Progress /\ Queue
<1>1. Init => Inv
  BY GrownInit, Phases DEF Init, Queue
<1>2. Inv /\ [Next]_vars => Inv'
  <2> SUFFICES ASSUME Inv, [Next]_vars
               PROVE  Inv'
    OBVIOUS
  <2>1. WellTyped' /\ Land' /\ Progress'
    BY GrownStep
  <2>2. Queue'
    <3>1. CASE Next
      BY <3>1, QueueStep
    <3>2. CASE UNCHANGED vars
      BY <3>2 DEF vars, search, Queue
    <3> QED
      BY <3>1, <3>2
  <2> QED
    BY <2>1, <2>2
<1>3. Inv => TypeOK
  <2> SUFFICES ASSUME Inv
               PROVE  TypeOK
    OBVIOUS
  <2>1. /\ phase \in Grown \cup {"started", "refused", "drift", "failed"}
        /\ try \in 0..NumTries - 1
    BY DEF WellTyped
  <2>2. ASSUME phase \in Grown
        PROVE  Len(bfs) <= WorldX * WorldY
    <3>1. phase \in Running /\ Typed
      BY <2>2, RunningTyped DEF Running
    <3> QED
      BY <3>1, QueueNeverFull
  <2>3. ASSUME phase \in Growing
        PROVE  /\ \A s \in Sectors : adjLand[s] = {d \in Directions : IsLand(Step(s, d))}
               /\ \A s \in Sectors : IsLand(s) => own[s] \in Islands /\ s \in SectorsOf(own[s])
               /\ \A c \in Islands : /\ \A s \in SectorsOf(c) : own[s] = c
                                     /\ Cardinality(SectorsOf(c)) = Len(sect[c])
               /\ \A s \in Sectors : distance[s] \in 0..Far /\ closest[s] \in -1..args.nc + args.ni - 1
    <3>1. phase \in Running
      BY <2>3, Phases DEF Growing
    <3>2. Typed /\ Mapped /\ args \in Arguments /\ ValidateArgs(args)
      BY <3>1, RunningTyped DEF Land
    <3>3. \A s \in Sectors : distance[s] \in 0..Far /\ closest[s] \in -1..args.nc + args.ni - 1
      BY <3>2 DEF Typed
    <3>4. \A s \in Sectors : adjLand[s] = {d \in Directions : IsLand(Step(s, d))}
      BY <3>2 DEF Mapped
    <3>5. \A s \in Sectors : IsLand(s) => own[s] \in Islands /\ s \in SectorsOf(own[s])
      BY <3>2 DEF Mapped, Typed, IsLand
    <3>6. \A c \in Islands : /\ \A s \in SectorsOf(c) : own[s] = c
                             /\ Cardinality(SectorsOf(c)) = Len(sect[c])
      <4> SUFFICES ASSUME NEW c \in Islands
                   PROVE  /\ \A s \in SectorsOf(c) : own[s] = c
                          /\ Cardinality(SectorsOf(c)) = Len(sect[c])
        OBVIOUS
      <4>1. \A s : s \in SectorsOf(c) <=> \E k \in 1..Len(sect[c]) : sect[c][k] = s
        BY <3>2, ListedSectors DEF Typed
      <4>2. /\ \A k \in 1..Len(sect[c]) : own[sect[c][k]] = c
            /\ \A k, l \in 1..Len(sect[c]) : sect[c][k] = sect[c][l] => k = l
        BY <3>2 DEF Mapped
      <4>3. sect[c] \in Seq(Sectors)
        BY <3>2 DEF Typed
      <4>4. Cardinality(SectorsOf(c)) = Len(sect[c])
        BY <4>1, <4>2, <4>3, DistinctList
      <4> QED
        BY <4>1, <4>2, <4>4
    <3> QED
      BY <3>3, <3>4, <3>5, <3>6
  <2> QED
    BY <2>1, <2>2, <2>3 DEF TypeOK
<1> QED
  BY <1>1, <1>2, <1>3, PTL DEF Spec

\* The continents get the size asked for, the islands of a group are of one size,
\* and what no island got is carried (grow_continents, grow_islands).
THEOREM SharesAreEqual == Spec => []EqualShares
<1>1. Init => WellTyped /\ Land /\ Progress
  BY GrownInit
<1>2. WellTyped /\ Land /\ Progress /\ [Next]_vars => WellTyped' /\ Land' /\ Progress'
  BY GrownStep
<1>3. WellTyped /\ Progress => EqualShares
  <2> SUFFICES ASSUME WellTyped, Progress
               PROVE  EqualShares
    OBVIOUS
  <2>1. ASSUME phase \in Grown \ {"continents"}
        PROVE  \A c \in Continents : Len(sect[c]) = args.sc
    BY <2>1, Phases DEF Progress, ContinentSizes
  <2>2. ASSUME phase \in {"borders", "coast", "written"}
        PROVE  /\ \A i \in 0..group - 1 : \A j \in 0..args.nc - 1 :
                    Len(sect[Group(i) + j]) = Len(sect[Group(i)]) /\ Len(sect[Group(i)]) >= 1
               /\ carry >= 0
               /\ carry = Carried
    <3>1. GroupsDone /\ CarryKept
      BY <2>2, Phases DEF Progress
    <3>2. args.is \in Nat
      BY <2>2, RunningTyped, Phases, Command
    <3>3. \A n \in 1..2 * args.is : n >= 1
      BY <3>2
    <3> QED
      BY <2>2, <3>1, <3>3, Phases DEF GroupsDone, CarryKept
  <2> QED
    BY <2>1, <2>2 DEF EqualShares, Carried, Group
<1> QED
  BY <1>1, <1>2, <1>3, PTL DEF Spec

-----------------------------------------------------------------------------
(* What the search finds. *)

\* The coast of any islands.
LEMMA CoastOf ==
    ASSUME Typed, args \in Arguments, ValidateArgs(args), Mapped, NEW cs, cs \subseteq Islands
    PROVE  \A s : s \in Coast(cs) <=> s \in Sectors /\ own[s] \in cs /\ IsCoastal(s)
<1>1. \A c \in Islands : \A s \in SectorsOf(c) : s \in Sectors /\ own[s] = c
  <2>1. \A c \in Islands : \A s \in SectorsOf(c) : \E k \in 1..Len(sect[c]) : sect[c][k] = s
    BY ListedSectors DEF Typed
  <2>2. \A c \in Islands : SectorsOf(c) \subseteq Sectors
    BY ListedSectors DEF Typed
  <2> QED
    BY <2>1, <2>2 DEF Mapped
<1>2. \A s \in Sectors : own[s] \in cs => s \in SectorsOf(own[s])
  <2>1. \A c \in cs : c \in Nat
    BY IslandNumbers
  <2>2. \A s \in Sectors : own[s] \in cs => IsLand(s)
    BY <2>1 DEF IsLand, Sea
  <2> QED
    BY <2>2 DEF Mapped
<1> QED
  BY <1>1, <1>2 DEF Coast

LEMMA SourcesAre ==
    ASSUME Typed, args \in Arguments, ValidateArgs(args), Mapped
    PROVE  /\ Sources \subseteq Sectors
           /\ \A u \in Sources : own[u] \in Islands
           /\ phase = "spheres" => \A u \in Sources : own[u] \in Continents
<1>1. Continents \subseteq Islands
  BY IslandNumbers
<1> QED
  BY <1>1, CoastOf DEF Sources

\* Where a search is, and what it keeps to: the sectors waiting are those the
\* queue holds, and the others have been met for good.
Settles(o) == o \in Sectors /\ distance[o] < Far /\ o \notin Waiting

LEMMA Waits ==
    ASSUME Typed, Queue, Search
    PROVE  LET o == Head(bfs)
           IN  /\ o \in Waiting /\ o \in Sectors /\ distance[o] \in 0..Far /\ distance[o] < Far
               /\ \A t \in Waiting : distance[o] <= distance[t] /\ distance[t] < Far
               /\ FoundAt(o) \subseteq Sectors /\ FoundAt(o) \cap Waiting = {} /\ o \notin FoundAt(o)
               /\ Waiting' = (Waiting \ {o}) \cup FoundAt(o)
               /\ \A t : t \in FoundAt(o) <=> t \in Around(o) /\ distance[o] + 1 < distance[t]
               /\ distance' = [t \in Sectors |-> IF t \in FoundAt(o) THEN distance[o] + 1 ELSE distance[t]]
<1> DEFINE o == Head(bfs)
           f == Found(o)
           q == bfs
           r == bfs'
<1>1. /\ o \in Sectors /\ Len(q) \in Nat /\ Len(q) >= 1 /\ o = q[1]
      /\ f \in Seq(Sectors) /\ Turned(q, f, r)
      /\ \A t : t \in FoundAt(o) <=> t \in Around(o) /\ distance[o] + 1 < distance[t]
      /\ \A k \in 1..Len(f) : f[k] \in FoundAt(o)
      /\ \A t \in FoundAt(o) : \E k \in 1..Len(f) : f[k] = t
      /\ FoundAt(o) \subseteq Sectors
      /\ distance' = [t \in Sectors |-> IF t \in FoundAt(o) THEN distance[o] + 1 ELSE distance[t]]
  BY SearchIs
<1>2. \A i, j \in 1..Len(q) : /\ q[i] = q[j] => i = j
                              /\ distance[q[i]] < Far
                              /\ i <= j => /\ distance[q[i]] <= distance[q[j]]
                                           /\ distance[q[j]] <= distance[q[i]] + 1
  BY Phases DEF Queue, Search
<1>3. 1 \in 1..Len(q) /\ Len(f) \in Nat /\ r \in Seq(Sectors)
  BY <1>1, SearchTyped, HeadOfQueue DEF Search, Typed
<1>4. distance[o] \in 0..Far /\ distance[o] < Far /\ Far \in Nat
  <2>1. distance \in [Sectors -> 0..Far]
    BY DEF Typed
  <2>2. distance[o] < Far
    BY <1>1, <1>2, <1>3
  <2> QED
    BY <1>1, <2>1, <2>2, FarIs
<1>5. \A i \in 1..Len(q) : /\ distance[o] <= distance[q[i]] /\ distance[q[i]] <= distance[o] + 1
                           /\ distance[q[i]] \in 0..Far
  <2>1. \A j \in 1..Len(q) : distance[q[1]] <= distance[q[j]] /\ distance[q[j]] <= distance[q[1]] + 1
    BY <1>2, <1>3
  <2>2. distance \in [Sectors -> 0..Far] /\ q \in Seq(Sectors)
    BY DEF Typed
  <2>3. \A j \in 1..Len(q) : distance[q[j]] \in 0..Far
    BY <2>2
  <2> QED
    BY <1>1, <2>1, <2>3
<1>6. \A i \in 1..Len(q) : q[i] \notin FoundAt(o)
  <2>1. \A i \in 1..Len(q) : ~(distance[o] + 1 < distance[q[i]])
    BY <1>4, <1>5
  <2> QED
    BY <1>1, <2>1
<1>7. \A i \in 1..Len(r) : \/ i \in 1..Len(q) - 1 /\ i + 1 \in 1..Len(q) /\ r[i] = q[i + 1]
                           \/ /\ i \notin 1..Len(q) - 1
                              /\ \E k \in 1..Len(f) : i = Len(q) - 1 + k /\ r[i] = f[k]
  <2>1. Turned(q, f, r)
    BY <1>1
  <2>2. Len(q) \in Nat /\ Len(q) >= 1 /\ Len(f) \in Nat
    BY <1>1, <1>3
  <2> HIDE DEF q, f, r
  <2> QED
    BY <2>1, <2>2, TurnedFrom
<1>8. Waiting = {q[i] : i \in 1..Len(q)} /\ Waiting' = {r[i] : i \in 1..Len(r)}
  BY DEF Waiting
<1>9. \A t : t \in Waiting' => t \in (Waiting \ {o}) \cup FoundAt(o)
  <2> SUFFICES ASSUME NEW i \in 1..Len(r)
               PROVE  r[i] \in (Waiting \ {o}) \cup FoundAt(o)
    BY <1>8
  <2>1. CASE i \in 1..Len(q) - 1 /\ i + 1 \in 1..Len(q) /\ r[i] = q[i + 1]
    <3>1. q[i + 1] # o
      BY <1>1, <1>2, <1>3, <2>1
    <3> QED
      BY <1>8, <2>1, <3>1
  <2>2. CASE \E k \in 1..Len(f) : i = Len(q) - 1 + k /\ r[i] = f[k]
    BY <1>1, <2>2
  <2> QED
    BY <1>7, <2>1, <2>2
<1>10. \A t : t \in (Waiting \ {o}) \cup FoundAt(o) => t \in Waiting'
  <2>1. ASSUME NEW t \in Waiting, t # o
        PROVE  t \in Waiting'
    <3>1. PICK i \in 1..Len(q) : t = q[i]
      BY <1>8
    <3>2. i # 1
      BY <1>1, <2>1, <3>1
    <3> DEFINE k == i - 1
    <3>3. k \in 1..Len(q) - 1 /\ k + 1 = i /\ k \in 1..Len(r)
      BY <1>1, <1>3, <3>2 DEF Turned
    <3>4. r[k] = q[k + 1]
      BY <1>1, <3>3 DEF Turned
    <3> HIDE DEF k
    <3> QED
      BY <1>8, <3>1, <3>3, <3>4
  <2>2. ASSUME NEW t \in FoundAt(o)
        PROVE  t \in Waiting'
    <3>1. PICK k \in 1..Len(f) : f[k] = t
      BY <1>1
    <3> DEFINE i == Len(q) - 1 + k
    <3>2. i \in 1..Len(r)
      BY <1>1, <1>3 DEF Turned
    <3>3. r[i] = f[k]
      BY <1>1 DEF Turned
    <3> HIDE DEF i
    <3> QED
      BY <1>8, <3>1, <3>2, <3>3
  <2> QED
    BY <2>1, <2>2
<1>11. o \in Waiting /\ \A t \in Waiting : distance[o] <= distance[t] /\ distance[t] < Far /\ t \notin FoundAt(o)
  BY <1>1, <1>2, <1>3, <1>5, <1>6, <1>8
<1> HIDE DEF o, q, r, f
<1>12. Waiting' = (Waiting \ {o}) \cup FoundAt(o)
  BY <1>9, <1>10
<1>13. FoundAt(o) \cap Waiting = {} /\ o \notin FoundAt(o)
  BY <1>11
<1> QED
  BY <1>1, <1>4, <1>11, <1>12, <1>13 DEF o

\* What it keeps: those met are no nearer than the next, and are found no more.
LEMMA SettledStay ==
    ASSUME Typed, Queue, Reach, Search, phase \in {"spheres", "coast"}
    PROVE  LET o == Head(bfs)
           IN  /\ \A p \in Sectors : Settles(p) => /\ distance[p] <= distance[o] /\ p \notin FoundAt(o)
                                                  /\ distance'[p] = distance[p] /\ p \notin Waiting'
               /\ distance'[o] = distance[o] /\ o \notin Waiting'
               /\ \A p \in Sectors : distance'[p] < Far /\ p \notin Waiting' => Settles(p) \/ p = o
<1> DEFINE o == Head(bfs)
<1>1. /\ o \in Waiting /\ o \in Sectors /\ distance[o] \in 0..Far /\ distance[o] < Far
      /\ FoundAt(o) \subseteq Sectors /\ FoundAt(o) \cap Waiting = {} /\ o \notin FoundAt(o)
      /\ Waiting' = (Waiting \ {o}) \cup FoundAt(o)
      /\ \A t : t \in FoundAt(o) <=> t \in Around(o) /\ distance[o] + 1 < distance[t]
      /\ distance' = [t \in Sectors |-> IF t \in FoundAt(o) THEN distance[o] + 1 ELSE distance[t]]
  BY Waits
<1>2. bfs # << >> => \A t \in Sectors : distance[t] < Far /\ t \notin Waiting => distance[t] <= distance[Head(bfs)]
  BY DEF Reach
<1>3. bfs # << >>
  BY DEF Search
<1>4. \A p \in Sectors : distance[p] \in 0..Far
  BY DEF Typed
<1>5. \A p \in Sectors : Settles(p) => distance[p] <= distance[o]
  BY <1>2, <1>3 DEF Settles
<1> HIDE DEF o
<1>6. \A p \in Sectors : Settles(p) => p \notin FoundAt(o)
  BY <1>1, <1>4, <1>5, FarIs
<1> QED
  BY <1>1, <1>4, <1>5, <1>6 DEF Settles, o

LEMMA SearchReach ==
    ASSUME Typed, args \in Arguments, ValidateArgs(args), Mapped, Queue, Queue', Reach, Search
    PROVE  Reach'
<1>0. CASE phase \notin {"spheres", "coast"}
  BY <1>0 DEF Reach, Search
<1>00. CASE phase \in {"spheres", "coast"}
  <2> DEFINE o == Head(bfs)
             d == distance[o]
  <2>1. /\ o \in Waiting /\ o \in Sectors /\ d \in 0..Far /\ d < Far
        /\ \A t \in Waiting : d <= distance[t] /\ distance[t] < Far
        /\ FoundAt(o) \subseteq Sectors /\ FoundAt(o) \cap Waiting = {} /\ o \notin FoundAt(o)
        /\ Waiting' = (Waiting \ {o}) \cup FoundAt(o)
        /\ \A t : t \in FoundAt(o) <=> t \in Around(o) /\ d + 1 < distance[t]
        /\ distance' = [t \in Sectors |-> IF t \in FoundAt(o) THEN d + 1 ELSE distance[t]]
    BY Waits
  <2>2. /\ \A p \in Sectors : Settles(p) => /\ distance[p] <= d /\ p \notin FoundAt(o)
                                           /\ distance'[p] = distance[p] /\ p \notin Waiting'
        /\ distance'[o] = d /\ o \notin Waiting'
        /\ \A p \in Sectors : distance'[p] < Far /\ p \notin Waiting' => Settles(p) \/ p = o
    BY <1>00, SettledStay
  <2>3. /\ \A t \in Sectors : distance[t] < Far => \E u \in Sources : MapDist(t, u) <= distance[t]
        /\ \A u \in Sources : distance[u] = 0
        /\ \A p \in Sectors : distance[p] < Far /\ p \notin Waiting =>
             \A t \in Around(p) : distance[t] <= distance[p] + 1
    BY <1>00 DEF Reach
  <2>4. Sources' = Sources /\ UNCHANGED <<args, phase>> /\ Sources \subseteq Sectors
    BY SourcesAre DEF Search, land, Sources, Coast, SectorsOf, IsCoastal, Continents, Islands
  <2>5. Far \in Nat /\ \A t \in Sectors : distance[t] \in 0..Far
    BY FarIs DEF Typed
  <2> HIDE DEF o, d
  <2>6. \A t \in Sectors : distance'[t] <= distance[t] /\ distance'[t] \in 0..Far
    <3>1. ASSUME NEW t \in FoundAt(o)
          PROVE  distance'[t] <= distance[t] /\ distance'[t] \in 0..Far
      <4>1. distance'[t] = d + 1 /\ d + 1 < distance[t] /\ distance[t] \in 0..Far
        BY <2>1, <2>5
      <4> QED
        BY <2>1, <2>5, <4>1
    <3>2. ASSUME NEW t \in Sectors, t \notin FoundAt(o)
          PROVE  distance'[t] <= distance[t] /\ distance'[t] \in 0..Far
      <4>1. distance'[t] = distance[t] /\ distance[t] \in 0..Far
        BY <2>1, <2>5, <3>2
      <4> QED
        BY <2>5, <4>1
    <3> QED
      BY <3>1, <3>2
  <2>7. \A t \in Sectors : distance'[t] < Far => \E u \in Sources : MapDist(t, u) <= distance'[t]
    <3> SUFFICES ASSUME NEW t \in Sectors, distance'[t] < Far
                 PROVE  \E u \in Sources : MapDist(t, u) <= distance'[t]
      OBVIOUS
    <3>1. CASE t \in FoundAt(o)
      <4>1. PICK u \in Sources : MapDist(o, u) <= d
        BY <2>1, <2>3 DEF d
      <4>2. t \in Around(o) /\ distance'[t] = d + 1
        BY <2>1, <3>1
      <4>3. MapDist(t, u) <= MapDist(o, u) + 1 /\ MapDist(o, u) \in Nat /\ MapDist(t, u) \in Nat
        BY <2>1, <2>4, <4>2, NeighbourDistance, Distances
      <4> QED
        BY <2>1, <4>1, <4>2, <4>3
    <3>2. CASE t \notin FoundAt(o)
      BY <2>1, <2>3, <3>2
    <3> QED
      BY <3>1, <3>2
  <2>8. \A u \in Sources : distance'[u] = 0
    <3> SUFFICES ASSUME NEW u \in Sources PROVE distance'[u] = 0
      OBVIOUS
    <3>1. distance[u] = 0 /\ u \in Sectors
      BY <2>3, <2>4
    <3>2. u \notin FoundAt(o)
      BY <2>1, <3>1
    <3> QED
      BY <2>1, <3>1, <3>2
  <2>9. \A p \in Sectors : distance'[p] < Far /\ p \notin Waiting' =>
          \A t \in Around(p) : distance'[t] <= distance'[p] + 1
    <3> SUFFICES ASSUME NEW p \in Sectors, distance'[p] < Far, p \notin Waiting', NEW t \in Around(p)
                 PROVE  distance'[t] <= distance'[p] + 1
      OBVIOUS
    <3>1. t \in Sectors
      BY Neighbours
    <3>2. CASE Settles(p)
      <4>1. distance[t] <= distance[p] + 1 /\ distance'[p] = distance[p]
        BY <2>2, <2>3, <3>2 DEF Settles
      <4> QED
        BY <2>5, <2>6, <3>1, <4>1
    <3>3. CASE p = o
      <4>1. distance'[p] = d /\ (t \in FoundAt(o) => distance'[t] = d + 1)
            /\ (t \notin FoundAt(o) => distance'[t] = distance[t] /\ ~(d + 1 < distance[t]))
        BY <2>1, <2>2, <3>1, <3>3
      <4> QED
        BY <2>1, <2>5, <3>1, <4>1
    <3> QED
      BY <2>2, <3>2, <3>3
  <2>10. bfs' # << >> => \A t \in Sectors : distance'[t] < Far /\ t \notin Waiting' =>
           distance'[t] <= distance'[Head(bfs')]
    <3> SUFFICES ASSUME bfs' # << >>, NEW t \in Sectors, distance'[t] < Far, t \notin Waiting'
                 PROVE  distance'[t] <= distance'[Head(bfs')]
      OBVIOUS
    <3>1. bfs' \in Seq(Sectors)
      <4>1. /\ Found(o) \in Seq(Sectors) /\ bfs' = Tail(bfs) \o Found(o)
        BY SearchIs DEF Search, o
      <4>2. Tail(bfs) \in Seq(Sectors)
        BY HeadOfQueue DEF Search
      <4> QED
        BY <4>1, <4>2
    <3>2. Head(bfs') \in Waiting'
      <4>1. Head(bfs') = bfs'[1] /\ 1 \in 1..Len(bfs')
        BY <3>1
      <4> QED
        BY <4>1 DEF Waiting
    <3> DEFINE h == Head(bfs')
    <3>3. distance'[h] >= d /\ distance'[h] \in 0..Far
      <4>1. h \in Waiting \/ h \in FoundAt(o)
        BY <2>1, <3>2
      <4>2. h \in Sectors
        BY <3>1
      <4> HIDE DEF h
      <4>3. CASE h \in FoundAt(o)
        BY <2>1, <2>6, <4>2, <4>3
      <4>4. CASE h \in Waiting /\ h \notin FoundAt(o)
        BY <2>1, <2>5, <4>2, <4>4
      <4> QED
        BY <4>1, <4>3, <4>4
    <3>4. distance'[t] <= d /\ distance'[t] \in 0..Far
      BY <2>1, <2>2, <2>6
    <3> HIDE DEF h
    <3>5. distance'[t] <= distance'[h]
      BY <2>1, <2>5, <3>3, <3>4
    <3> QED
      BY <3>5 DEF h
  <2> QED
    BY <1>00, <2>4, <2>7, <2>8, <2>9, <2>10 DEF Reach
<1> QED
  BY <1>0, <1>00

LEMMA SourcesKept == UNCHANGED <<args, phase, own, adjLand, sect>> => Sources' = Sources
BY DEF Sources, Coast, SectorsOf, IsCoastal, Continents, Islands

\* A search that begins has reached its sources only.
LEMMA ReachBegins ==
    ASSUME Typed, args \in Arguments, ValidateArgs(args), Land, phase \in Running,
           UNCHANGED <<args, own, adjLand, sect>>,
           NEW n \in 0..args.nc + args.ni, SearchFrom(n),
           phase' = "spheres" => n = args.nc, phase' = "coast" => n = args.nc + args.ni
    PROVE  Reach' /\ Claims'
<1>0. CASE phase' \notin {"spheres", "coast"}
  BY <1>0 DEF Reach, Claims
<1>00. CASE phase' \in {"spheres", "coast"}
  <2> DEFINE S == Coast(0..n - 1)
  <2>1. /\ Lists(bfs', S, Sectors)
        /\ closest' = [s \in Sectors |-> IF s \in S THEN own[s] ELSE -1]
        /\ distance' = [s \in Sectors |-> IF s \in S THEN 0 ELSE Far]
    BY SearchBegins
  <2>2. S \subseteq Sectors /\ \A s \in S : own[s] \in 0..n - 1
    BY CoastIs
  <2>3. Sources' = S
    <3>1. Coast(0..n - 1)' = Coast(0..n - 1)
      BY DEF Coast, SectorsOf, IsCoastal
    <3>2. phase' = "spheres" => Sources' = Coast(0..n - 1)'
      BY DEF Sources, Continents
    <3>3. phase' = "coast" => Sources' = Coast(0..n - 1)'
      <4>1. phase' = "coast" => Islands' = 0..n - 1
        BY Command DEF Islands
      <4>2. phase' = "coast" => Sources' = Coast(Islands)'
        BY DEF Sources
      <4> QED
        BY <4>1, <4>2 DEF Coast
    <3> QED
      BY <1>00, <3>1, <3>2, <3>3
  <2> HIDE DEF S
  <2>4. Waiting' = S
    <3>1. Waiting' = {bfs'[k] : k \in 1..Len(bfs')}
      BY DEF Waiting
    <3> QED
      BY <2>1, <3>1 DEF Lists
  <2>5. Far \in Nat /\ Far > 0
    BY FarIs
  <2>6. \A t \in Sectors : distance'[t] < Far => t \in S /\ distance'[t] = 0 /\ t \in Waiting'
    BY <2>1, <2>4, <2>5
  <2>7. Reach'
    <3>1. \A t \in Sectors : distance'[t] < Far => \E u \in Sources' : MapDist(t, u) <= distance'[t]
      <4> SUFFICES ASSUME NEW t \in Sectors, distance'[t] < Far
                   PROVE  \E u \in Sources' : MapDist(t, u) <= distance'[t]
        OBVIOUS
      <4>1. MapDist(t, t) = 0
        BY Distances
      <4> QED
        BY <2>3, <2>6, <4>1
    <3>2. \A u \in Sources' : distance'[u] = 0
      BY <2>1, <2>2, <2>3
    <3> QED
      BY <2>6, <3>1, <3>2 DEF Reach
  <2>8. Claims'
    <3>1. \A u \in Sources' : closest'[u] = own'[u]
      BY <2>1, <2>2, <2>3
    <3>2. \A t \in Sectors : distance'[t] = Far => closest'[t] = -1
      BY <2>1, <2>5
    <3>3. \A t \in Sectors : distance'[t] \notin 1..Far - 1
      BY <2>1, <2>5
    <3> QED
      BY <3>1, <3>2, <3>3 DEF Claims
  <2> QED
    BY <2>7, <2>8
<1> QED
  BY <1>0, <1>00

LEMMA ReachKept ==
    ASSUME Reach, Claims, UNCHANGED <<args, own, adjLand, sect, closest, distance, bfs>>,
           phase' = phase \/ phase' \notin {"spheres", "coast"}
    PROVE  Reach' /\ Claims'
<1>1. CASE phase' = phase
  <2>1. Sources' = Sources /\ Waiting' = Waiting /\ \A t : Preds(t)' = Preds(t)
    BY <1>1, SourcesKept DEF Waiting, Preds
  <2> QED
    BY <1>1, <2>1 DEF Reach, Claims
<1>2. CASE phase' \notin {"spheres", "coast"}
  BY <1>2 DEF Reach, Claims
<1> QED
  BY <1>1, <1>2

\* Who is nearer than t to where the search began, of those met.
LEMMA PredsAfter ==
    ASSUME Typed, Queue, Reach, Search, phase \in {"spheres", "coast"},
           NEW t \in Sectors, distance'[t] < Far
    PROVE  LET o == Head(bfs)
           IN  /\ t \in FoundAt(o) => Preds(t)' = {o}
               /\ t \notin FoundAt(o) =>
                    /\ distance'[t] = distance[t]
                    /\ o \in Around(t) /\ distance[o] + 1 = distance[t] => Preds(t)' = Preds(t) \cup {o}
                    /\ ~(o \in Around(t) /\ distance[o] + 1 = distance[t]) => Preds(t)' = Preds(t)
<1> DEFINE o == Head(bfs)
           d == distance[o]
<1>1. /\ o \in Waiting /\ o \in Sectors /\ d \in 0..Far /\ d < Far
      /\ FoundAt(o) \subseteq Sectors /\ FoundAt(o) \cap Waiting = {} /\ o \notin FoundAt(o)
      /\ Waiting' = (Waiting \ {o}) \cup FoundAt(o)
      /\ \A p : p \in FoundAt(o) <=> p \in Around(o) /\ d + 1 < distance[p]
      /\ distance' = [p \in Sectors |-> IF p \in FoundAt(o) THEN d + 1 ELSE distance[p]]
  BY Waits
<1>2. /\ \A p \in Sectors : Settles(p) => /\ distance[p] <= d /\ p \notin FoundAt(o)
                                         /\ distance'[p] = distance[p] /\ p \notin Waiting'
      /\ distance'[o] = d /\ o \notin Waiting'
      /\ \A p \in Sectors : distance'[p] < Far /\ p \notin Waiting' => Settles(p) \/ p = o
  BY SettledStay
<1>3. \A p \in Sectors : distance[p] < Far /\ p \notin Waiting =>
        \A s \in Around(p) : distance[s] <= distance[p] + 1
  BY DEF Reach
<1>4. Far \in Nat /\ \A p \in Sectors : distance[p] \in 0..Far
  BY FarIs DEF Typed
<1>5. \A p \in Around(t) : p \in Sectors /\ t \in Around(p)
  BY Neighbours
<1>6. \A p : p \in Around(o) => o \in Around(p)
  BY <1>1, Neighbours
<1> HIDE DEF o, d
<1>7. Preds(t)' = {p \in Around(t) : p \notin Waiting' /\ distance'[p] + 1 = distance'[t]}
  BY DEF Preds, Around
<1>8. Preds(t) = {p \in Around(t) : p \notin Waiting /\ distance[p] + 1 = distance[t]}
  BY DEF Preds
<1>9. \A p \in Sectors : distance'[p] \in 0..Far
  BY <1>1, <1>4
<1>10. distance'[t] \in 0..Far /\ distance'[t] < Far
  BY <1>9
<1>11. \A p \in Sectors : distance'[p] + 1 = distance'[t] => distance'[p] < Far
  BY <1>4, <1>9, <1>10
<1>12. ASSUME t \in FoundAt(o)
       PROVE  Preds(t)' = {o}
  <2>1. distance'[t] = d + 1 /\ d + 1 < distance[t] /\ o \in Around(t)
    BY <1>1, <1>6, <1>12
  <2>2. o \in Preds(t)'
    BY <1>2, <1>7, <2>1
  <2>3. ASSUME NEW p \in Preds(t)', p # o
        PROVE  FALSE
    <3>1. p \in Sectors /\ t \in Around(p) /\ p \notin Waiting' /\ distance'[p] + 1 = d + 1
      BY <1>5, <1>7, <2>1, <2>3
    <3>2. Settles(p) /\ distance[p] = d
      <4>1. Settles(p)
        BY <1>2, <1>11, <2>1, <2>3, <3>1
      <4> QED
        BY <1>1, <1>2, <1>4, <3>1, <4>1
    <3>3. distance[t] <= distance[p] + 1
      BY <1>3, <3>1, <3>2 DEF Settles
    <3> QED
      BY <1>1, <1>4, <2>1, <3>2, <3>3
  <2> QED
    BY <2>2, <2>3
<1>13. ASSUME t \notin FoundAt(o)
       PROVE  /\ distance'[t] = distance[t]
              /\ o \in Around(t) /\ d + 1 = distance[t] => Preds(t)' = Preds(t) \cup {o}
              /\ ~(o \in Around(t) /\ d + 1 = distance[t]) => Preds(t)' = Preds(t)
  <2>1. distance'[t] = distance[t]
    BY <1>1, <1>13
  <2>2. \A p \in Preds(t) : p \in Preds(t)'
    <3> SUFFICES ASSUME NEW p \in Preds(t) PROVE p \in Preds(t)'
      OBVIOUS
    <3>1. p \in Around(t) /\ p \in Sectors /\ p \notin Waiting /\ distance[p] + 1 = distance[t]
      BY <1>5, <1>8
    <3>2. Settles(p)
      BY <1>4, <1>10, <2>1, <3>1 DEF Settles
    <3> QED
      BY <1>2, <1>7, <2>1, <3>1, <3>2
  <2>3. \A p \in Preds(t)' : p = o \/ p \in Preds(t)
    <3> SUFFICES ASSUME NEW p \in Preds(t)', p # o PROVE p \in Preds(t)
      OBVIOUS
    <3>1. p \in Around(t) /\ p \in Sectors /\ p \notin Waiting' /\ distance'[p] + 1 = distance'[t]
      BY <1>5, <1>7
    <3>2. Settles(p)
      BY <1>2, <1>11, <3>1
    <3> QED
      BY <1>2, <1>8, <2>1, <3>1, <3>2 DEF Settles
  <2>4. o \in Preds(t)' <=> o \in Around(t) /\ d + 1 = distance[t]
    BY <1>2, <1>7, <2>1
  <2> QED
    BY <2>1, <2>2, <2>3, <2>4
<1> QED
  BY <1>12, <1>13 DEF o, d

LEMMA SearchClaims ==
    ASSUME Typed, args \in Arguments, ValidateArgs(args), Mapped, Queue, Reach, Claims, Search,
           Reach'
    PROVE  Claims'
<1>0. CASE phase # "spheres"
  BY <1>0 DEF Claims, Search
<1>00. CASE phase = "spheres"
  <2> DEFINE o == Head(bfs)
             d == distance[o]
  <2>1. /\ o \in Waiting /\ o \in Sectors /\ d \in 0..Far /\ d < Far
        /\ FoundAt(o) \subseteq Sectors /\ FoundAt(o) \cap Waiting = {} /\ o \notin FoundAt(o)
        /\ \A p : p \in FoundAt(o) <=> p \in Around(o) /\ d + 1 < distance[p]
        /\ distance' = [p \in Sectors |-> IF p \in FoundAt(o) THEN d + 1 ELSE distance[p]]
    BY Waits
  <2>2. closest' = [t \in Sectors |-> IF t \in FoundAt(o) THEN closest[o]
                        ELSE IF t \in Around(o) /\ distance[t] = d + 1 /\ closest[t] # closest[o]
                             THEN -1 ELSE closest[t]]
    BY DEF Search
  <2>3. /\ \A p \in Sectors : Settles(p) => /\ distance[p] <= d /\ p \notin FoundAt(o)
                                           /\ distance'[p] = distance[p] /\ p \notin Waiting'
        /\ distance'[o] = d /\ o \notin Waiting'
        /\ \A p \in Sectors : distance'[p] < Far /\ p \notin Waiting' => Settles(p) \/ p = o
    BY <1>00, SettledStay
  <2>4. \A t \in Sectors : distance'[t] < Far =>
          /\ t \in FoundAt(o) => Preds(t)' = {o}
          /\ t \notin FoundAt(o) =>
               /\ distance'[t] = distance[t]
               /\ o \in Around(t) /\ d + 1 = distance[t] => Preds(t)' = Preds(t) \cup {o}
               /\ ~(o \in Around(t) /\ d + 1 = distance[t]) => Preds(t)' = Preds(t)
    BY <1>00, PredsAfter
  <2>5. /\ \A u \in Sources : closest[u] = own[u]
        /\ \A t \in Sectors :
           /\ distance[t] = Far => closest[t] = -1
           /\ distance[t] \in 1..Far - 1 =>
                IF closest[t] # -1
                THEN Preds(t) # {} /\ \A p \in Preds(t) : closest[p] = closest[t]
                ELSE \E p, r \in Preds(t) : closest[p] = -1 \/ closest[p] # closest[r]
    BY <1>00 DEF Claims
  <2>6. UNCHANGED <<args, phase, own, adjLand, sect>> /\ Sources' = Sources /\ Sources \subseteq Sectors
    BY SourcesKept, SourcesAre DEF Search, land
  <2>7. Far \in Nat /\ \A p \in Sectors : distance[p] \in 0..Far
    BY FarIs DEF Typed
  <2>8. \A t \in Sectors : t \in Around(o) <=> o \in Around(t)
    BY <2>1, Neighbours
  <2>9. \A u \in Sources : distance[u] = 0
    BY <1>00 DEF Reach
  <2> HIDE DEF o, d
  <2>10. \A p \in Sectors : Settles(p) \/ p = o => closest'[p] = closest[p]
    <3> SUFFICES ASSUME NEW p \in Sectors, Settles(p) \/ p = o PROVE closest'[p] = closest[p]
      OBVIOUS
    <3>1. p \notin FoundAt(o) /\ distance[p] <= d
      BY <2>1, <2>3 DEF d
    <3>2. distance[p] # d + 1
      BY <2>1, <2>7, <3>1
    <3> QED
      BY <2>2, <3>1, <3>2
  <2>11. \A t \in Sectors : distance[t] < Far => \A p \in Preds(t) : Settles(p) /\ p \in Sectors
    <3> SUFFICES ASSUME NEW t \in Sectors, distance[t] < Far, NEW p \in Preds(t)
                 PROVE  Settles(p) /\ p \in Sectors
      OBVIOUS
    <3>1. p \in Around(t) /\ p \notin Waiting /\ distance[p] + 1 = distance[t]
      BY DEF Preds
    <3>2. p \in Sectors
      BY <3>1, Neighbours
    <3> QED
      BY <2>7, <3>1, <3>2 DEF Settles
  <2>12. \A u \in Sources' : closest'[u] = own'[u]
    <3> SUFFICES ASSUME NEW u \in Sources PROVE closest'[u] = own[u]
      BY <2>6
    <3>1. distance[u] = 0 /\ u \in Sectors /\ closest[u] = own[u]
      BY <2>5, <2>6, <2>9
    <3>2. u \notin FoundAt(o) /\ distance[u] # d + 1
      BY <2>1, <3>1
    <3> QED
      BY <2>2, <3>1, <3>2
  <2>13. \A t \in Sectors : distance'[t] = Far => closest'[t] = -1
    <3> SUFFICES ASSUME NEW t \in Sectors, distance'[t] = Far PROVE closest'[t] = -1
      OBVIOUS
    <3>1. t \notin FoundAt(o)
      <4>1. ASSUME t \in FoundAt(o) PROVE FALSE
        <5>1. d + 1 = Far /\ d + 1 < distance[t]
          BY <2>1, <4>1
        <5> QED
          BY <2>7, <5>1
      <4> QED
        BY <4>1
    <3>2. closest[t] = -1
      BY <2>1, <2>5, <3>1
    <3> QED
      BY <2>2, <3>1, <3>2
  <2>14. \A t \in Sectors : distance'[t] \in 1..Far - 1 =>
           IF closest'[t] # -1
           THEN Preds(t)' # {} /\ \A p \in Preds(t)' : closest'[p] = closest'[t]
           ELSE \E p, r \in Preds(t)' : closest'[p] = -1 \/ closest'[p] # closest'[r]
    <3> SUFFICES ASSUME NEW t \in Sectors, distance'[t] \in 1..Far - 1
                 PROVE  IF closest'[t] # -1
                        THEN Preds(t)' # {} /\ \A p \in Preds(t)' : closest'[p] = closest'[t]
                        ELSE \E p, r \in Preds(t)' : closest'[p] = -1 \/ closest'[p] # closest'[r]
      OBVIOUS
    <3>1. distance'[t] < Far
      BY <2>7
    <3>2. closest'[o] = closest[o]
      BY <2>1, <2>10
    <3>3. CASE t \in FoundAt(o)
      <4>1. Preds(t)' = {o} /\ closest'[t] = closest[o]
        BY <2>2, <2>4, <3>1, <3>3
      <4> QED
        BY <3>2, <4>1
    <3>4. CASE t \notin FoundAt(o)
      <4>1. distance'[t] = distance[t] /\ distance[t] < Far /\ distance[t] \in 1..Far - 1
        BY <2>4, <3>1, <3>4
      <4>2. \A p \in Preds(t) : closest'[p] = closest[p]
        BY <2>10, <2>11, <4>1
      <4>3. IF closest[t] # -1
            THEN Preds(t) # {} /\ \A p \in Preds(t) : closest[p] = closest[t]
            ELSE \E p, r \in Preds(t) : closest[p] = -1 \/ closest[p] # closest[r]
        BY <2>5, <4>1
      <4>4. CASE t \in Around(o) /\ distance[t] = d + 1
        <5>1. Preds(t)' = Preds(t) \cup {o}
          BY <2>4, <2>8, <3>1, <3>4, <4>4
        <5>2. CASE closest[t] = closest[o]
          <6>1. closest'[t] = closest[t]
            BY <2>2, <3>4, <5>2
          <6> QED
            BY <3>2, <4>2, <4>3, <5>1, <5>2, <6>1
        <5>3. CASE closest[t] # closest[o]
          <6>1. closest'[t] = -1
            BY <2>2, <3>4, <4>4, <5>3
          <6>2. CASE closest[t] # -1
            <7>1. PICK p \in Preds(t) : closest[p] = closest[t]
              BY <4>3, <6>2
            <7> QED
              BY <3>2, <4>2, <5>1, <5>3, <6>1, <7>1
          <6>3. CASE closest[t] = -1
            BY <4>2, <4>3, <5>1, <6>1, <6>3
          <6> QED
            BY <6>2, <6>3
        <5> QED
          BY <5>2, <5>3
      <4>5. CASE ~(t \in Around(o) /\ distance[t] = d + 1)
        <5>1. Preds(t)' = Preds(t) /\ closest'[t] = closest[t]
          BY <2>2, <2>4, <2>8, <3>1, <3>4, <4>5
        <5> QED
          BY <4>2, <4>3, <5>1
      <4> QED
        BY <4>4, <4>5
    <3> QED
      BY <3>3, <3>4
  <2> QED
    BY <2>6, <2>12, <2>13, <2>14 DEF Claims
<1> QED
  BY <1>0, <1>00

\* Nobody is farther than the search says from where it began, once it is over.
LEMMA SearchIsOver ==
    ASSUME Typed, args \in Arguments, ValidateArgs(args), Mapped, Reach,
           phase \in {"spheres", "coast"}, bfs = << >>
    PROVE  \A u \in Sources : \A t \in Sectors : distance[t] <= MapDist(t, u)
<1> SUFFICES ASSUME NEW u \in Sources
             PROVE  \A t \in Sectors : distance[t] <= MapDist(t, u)
  OBVIOUS
<1>1. u \in Sectors
  BY SourcesAre
<1>2. \A t \in Sectors : MapDist(t, u) \in Nat /\ MapDist(t, u) < Far /\ distance[t] \in 0..Far
  BY <1>1, Distances DEF Typed
<1>3. Waiting = {} /\ Far \in Nat
  BY FarIs DEF Waiting
<1>4. \A o \in Sectors : distance[o] < Far => \A t \in Around(o) : distance[t] <= distance[o] + 1
  BY <1>3 DEF Reach
<1> DEFINE wrong == {t \in Sectors : distance[t] > MapDist(t, u)}
           far == {MapDist(t, u) : t \in wrong}
<1>5. SUFFICES ASSUME wrong # {} PROVE FALSE
  BY <1>2, <1>3
<1>6. far \subseteq Nat /\ far # {}
  BY <1>2, <1>5
<1>7. Min(far) \in far /\ \A y \in far : Min(far) <= y
  <2> HIDE DEF far
  <2> QED
    BY <1>6, LeastExists
<1>8. PICK t \in wrong : Min(far) = MapDist(t, u)
  BY <1>7
<1>9. \A s \in wrong : MapDist(t, u) <= MapDist(s, u)
  BY <1>7, <1>8
<1>10. t # u
  <2>1. distance[u] = 0 /\ MapDist(u, u) = 0
    BY <1>1, Distances DEF Reach
  <2> QED
    BY <2>1
<1>11. PICK v \in Around(t) : v \in Sectors /\ MapDist(v, u) = MapDist(t, u) - 1
  BY <1>1, <1>10, NearerNeighbour
<1>12. v \notin wrong
  <2>1. MapDist(t, u) \in Nat /\ MapDist(v, u) \in Nat
    BY <1>2, <1>11
  <2> HIDE DEF wrong
  <2> QED
    BY <1>9, <1>11, <2>1
<1>13. distance[v] <= MapDist(v, u) /\ distance[v] < Far
  BY <1>2, <1>3, <1>11, <1>12
<1>14. t \in Around(v) /\ t \in Sectors
  BY <1>11, Neighbours
<1>15. distance[t] <= distance[v] + 1
  BY <1>4, <1>11, <1>13, <1>14
<1>16. distance[t] > MapDist(t, u)
  OBVIOUS
<1> HIDE DEF wrong, far
<1> QED
  BY <1>2, <1>3, <1>11, <1>13, <1>14, <1>15, <1>16

\* What is known of a least distance.
LEMMA NearestShore ==
    ASSUME Typed, args \in Arguments, ValidateArgs(args), Mapped, NEW cs, cs \subseteq Islands,
           NEW s \in Sectors
    PROVE  /\ Coast(cs) = {} => Nearest(s, cs) = Far
           /\ Coast(cs) # {} => /\ \E u \in Coast(cs) : Nearest(s, cs) = MapDist(s, u)
                                /\ \A u \in Coast(cs) : Nearest(s, cs) <= MapDist(s, u)
                                /\ Nearest(s, cs) \in Nat /\ Nearest(s, cs) < Far
<1> DEFINE far == {MapDist(s, t) : t \in Coast(cs)}
<1>1. \A u \in Coast(cs) : u \in Sectors
  BY CoastOf
<1>2. far \subseteq Nat /\ \A u \in Coast(cs) : MapDist(s, u) \in far /\ MapDist(s, u) < Far
  BY <1>1, Distances
<1>3. \A x \in far : \E u \in Coast(cs) : x = MapDist(s, u)
  OBVIOUS
<1>4. Nearest(s, cs) = IF Coast(cs) = {} THEN Far ELSE Min(far)
  BY DEF Nearest
<1> HIDE DEF far
<1>5. CASE Coast(cs) = {}
  BY <1>4, <1>5
<1>6. CASE Coast(cs) # {}
  <2>1. Min(far) \in far /\ \A y \in far : Min(far) <= y
    BY <1>2, <1>6, LeastExists
  <2> QED
    BY <1>2, <1>3, <1>4, <1>6, <2>1
<1> QED
  BY <1>5, <1>6

\* The distances are exact, once the search is over.
LEMMA DistancesExact ==
    ASSUME Typed, args \in Arguments, ValidateArgs(args), Mapped, Reach,
           phase \in {"spheres", "coast"}, bfs = << >>
    PROVE  \A s \in Sectors : distance[s] = Nearest(s, IF phase = "spheres" THEN Continents ELSE Islands)
<1> DEFINE cs == IF phase = "spheres" THEN Continents ELSE Islands
<1>1. Sources = Coast(cs) /\ cs \subseteq Islands
  BY IslandNumbers DEF Sources
<1> HIDE DEF cs
<1>2. SUFFICES ASSUME NEW s \in Sectors
               PROVE  distance[s] = Nearest(s, cs)
  BY DEF cs
<1>3. /\ distance[s] < Far => \E u \in Sources : MapDist(s, u) <= distance[s]
      /\ \A u \in Sources : distance[s] <= MapDist(s, u)
      /\ distance[s] \in 0..Far /\ Far \in Nat
  BY SearchIsOver, FarIs DEF Reach, Typed
<1>4. /\ Coast(cs) = {} => Nearest(s, cs) = Far
      /\ Coast(cs) # {} => /\ \E u \in Coast(cs) : Nearest(s, cs) = MapDist(s, u)
                           /\ \A u \in Coast(cs) : Nearest(s, cs) <= MapDist(s, u)
                           /\ Nearest(s, cs) \in Nat /\ Nearest(s, cs) < Far
  BY <1>1, NearestShore
<1>5. CASE Coast(cs) = {}
  BY <1>1, <1>3, <1>4, <1>5
<1>6. CASE Coast(cs) # {}
  <2>1. PICK u \in Coast(cs) : Nearest(s, cs) = MapDist(s, u)
    BY <1>4, <1>6
  <2>2. distance[s] <= Nearest(s, cs) /\ distance[s] < Far
    BY <1>1, <1>3, <1>4, <1>6, <2>1
  <2>3. PICK v \in Sources : MapDist(s, v) <= distance[s]
    BY <1>3, <2>2
  <2>4. Nearest(s, cs) <= MapDist(s, v) /\ MapDist(s, v) \in Nat
    BY <1>1, <1>4, <1>6, Distances, CoastOf
  <2> QED
    BY <1>3, <1>4, <1>6, <2>2, <2>3, <2>4
<1> QED
  BY <1>5, <1>6

\* Who has a coast as near as the search says.
Claimants(s) == {c \in Continents : \E u \in Sources : own[u] = c /\ MapDist(s, u) = distance[s]}

LEMMA ClaimantsOfPreds ==
    ASSUME Typed, args \in Arguments, ValidateArgs(args), Mapped, Reach,
           phase = "spheres", bfs = << >>, NEW s \in Sectors, distance[s] \in 1..Far - 1
    PROVE  \A c : c \in Claimants(s) <=> \E p \in Preds(s) : c \in Claimants(p)
<1>1. Waiting = {} /\ Far \in Nat /\ \A t \in Sectors : distance[t] \in 0..Far
  BY FarIs DEF Waiting, Typed
<1>2. \A p \in Sectors : distance[p] < Far => \A t \in Around(p) : distance[t] <= distance[p] + 1
  BY <1>1 DEF Reach
<1>3. \A u \in Sources : u \in Sectors /\ \A t \in Sectors : distance[t] <= MapDist(t, u) /\ MapDist(t, u) \in Nat
  BY SourcesAre, SearchIsOver, Distances
<1>4. ASSUME NEW c \in Claimants(s)
      PROVE  \E p \in Preds(s) : c \in Claimants(p)
  <2>1. PICK u \in Sources : own[u] = c /\ MapDist(s, u) = distance[s]
    BY DEF Claimants
  <2>2. s # u
    BY <1>3, <2>1, Distances
  <2>3. PICK p \in Around(s) : p \in Sectors /\ MapDist(p, u) = MapDist(s, u) - 1
    BY <1>3, <2>2, NearerNeighbour
  <2>4. distance[p] <= distance[s] - 1 /\ distance[p] < Far
    BY <1>1, <1>3, <2>1, <2>3
  <2>5. s \in Around(p)
    BY <2>3, Neighbours
  <2>6. distance[p] + 1 = distance[s]
    BY <1>1, <1>2, <2>3, <2>4, <2>5
  <2>7. p \in Preds(s)
    BY <1>1, <2>3, <2>6 DEF Preds
  <2>8. MapDist(p, u) = distance[p]
    BY <1>1, <2>1, <2>3, <2>6
  <2>9. c \in Claimants(p)
    BY <2>1, <2>8 DEF Claimants
  <2> QED
    BY <2>7, <2>9
<1>5. ASSUME NEW p \in Preds(s), NEW c \in Claimants(p)
      PROVE  c \in Claimants(s)
  <2>1. p \in Around(s) /\ p \in Sectors /\ distance[p] + 1 = distance[s]
    BY Neighbours DEF Preds
  <2>2. PICK u \in Sources : own[u] = c /\ MapDist(p, u) = distance[p]
    BY DEF Claimants
  <2>3. MapDist(s, u) <= MapDist(p, u) + 1
    <3>1. s \in Around(p)
      BY <2>1, Neighbours
    <3> QED
      BY <1>3, <2>1, <3>1, NeighbourDistance
  <2>4. MapDist(s, u) = distance[s]
    BY <1>1, <1>3, <2>1, <2>2, <2>3
  <2> QED
    BY <2>2, <2>4 DEF Claimants
<1> QED
  BY <1>4, <1>5

\* The search knows whether one continent alone is nearest.
OneClaims(s) == /\ closest[s] # -1 => Claimants(s) = {closest[s]}
                /\ closest[s] = -1 => \E b, c \in Claimants(s) : b # c
LEMMA ClaimsExact ==
    ASSUME Typed, args \in Arguments, ValidateArgs(args), Mapped, Reach, Claims,
           phase = "spheres", bfs = << >>
    PROVE  \A s \in Sectors : distance[s] < Far => OneClaims(s)
<1>1. Far \in Nat /\ Far > 0 /\ \A t \in Sectors : distance[t] \in 0..Far
  BY FarIs DEF Typed
<1> DEFINE wrong == {t \in Sectors : distance[t] < Far /\ ~OneClaims(t)}
           far == {distance[t] : t \in wrong}
<1>2. SUFFICES ASSUME wrong # {} PROVE FALSE
  OBVIOUS
<1>3. far \subseteq Nat /\ far # {}
  <2>1. \A t \in wrong : t \in Sectors
    OBVIOUS
  <2> HIDE DEF wrong
  <2>2. \A t \in wrong : distance[t] \in Nat
    BY <1>1, <2>1
  <2> QED
    BY <1>2, <2>2
<1>4. Min(far) \in far /\ \A y \in far : Min(far) <= y
  <2> HIDE DEF far
  <2> QED
    BY <1>3, LeastExists
<1>5. PICK s \in wrong : Min(far) = distance[s]
  BY <1>4
<1>6. s \in Sectors /\ distance[s] < Far /\ ~OneClaims(s) /\ distance[s] \in 0..Far
  BY <1>1
<1>7. \A t \in Sectors : distance[t] < distance[s] => OneClaims(t)
  <2>1. \A t \in wrong : distance[s] <= distance[t]
    BY <1>4, <1>5
  <2>2. \A t \in wrong : t \in Sectors
    OBVIOUS
  <2>3. \A t \in Sectors : distance[t] < Far /\ ~OneClaims(t) => t \in wrong
    OBVIOUS
  <2> HIDE DEF wrong
  <2> QED
    BY <1>1, <1>6, <2>1, <2>2, <2>3
<1> HIDE DEF wrong, far
<1>8. CASE distance[s] = 0
  <2>1. PICK u \in Sources : MapDist(s, u) <= distance[s]
    BY <1>6 DEF Reach
  <2>2. \A v \in Sources : v \in Sectors /\ own[v] \in Continents /\ closest[v] = own[v]
    BY SourcesAre DEF Claims
  <2>3. u = s
    <3>1. MapDist(s, u) \in Nat
      BY <1>6, <2>2, Distances
    <3>2. MapDist(s, u) = 0
      BY <1>8, <2>1, <3>1
    <3> QED
      BY <1>6, <2>2, <3>2, Distances
  <2>4. \A v \in Sources : MapDist(s, v) = 0 <=> v = s
    BY <1>6, <2>2, Distances
  <2>5. Claimants(s) = {own[s]}
    BY <1>8, <2>2, <2>3, <2>4 DEF Claimants
  <2>6. own[s] \in Nat /\ closest[s] = own[s]
    BY <2>2, <2>3, Command DEF Continents
  <2> QED
    BY <1>6, <2>5, <2>6 DEF OneClaims
<1>9. CASE distance[s] # 0
  <2>1. distance[s] \in 1..Far - 1
    BY <1>1, <1>6, <1>9
  <2>2. IF closest[s] # -1
        THEN Preds(s) # {} /\ \A o \in Preds(s) : closest[o] = closest[s]
        ELSE \E o, p \in Preds(s) : closest[o] = -1 \/ closest[o] # closest[p]
    BY <1>6, <2>1 DEF Claims
  <2>3. \A p \in Preds(s) : OneClaims(p)
    <3>1. \A p \in Preds(s) : p \in Sectors /\ distance[p] + 1 = distance[s]
      BY <1>6, Neighbours DEF Preds
    <3>2. \A p \in Preds(s) : distance[p] < distance[s]
      BY <1>1, <1>6, <3>1
    <3> QED
      BY <1>7, <3>1, <3>2
  <2>4. \A c : c \in Claimants(s) <=> \E p \in Preds(s) : c \in Claimants(p)
    BY <1>6, <2>1, ClaimantsOfPreds
  <2>5. CASE closest[s] # -1
    BY <1>6, <2>2, <2>3, <2>4, <2>5 DEF OneClaims
  <2>6. CASE closest[s] = -1
    <3>1. PICK o \in Preds(s), p \in Preds(s) : closest[o] = -1 \/ closest[o] # closest[p]
      BY <2>2, <2>6
    <3>2. \E b, c \in Claimants(s) : b # c
      <4>1. CASE closest[o] = -1
        BY <2>3, <2>4, <4>1 DEF OneClaims
      <4>2. CASE closest[p] = -1
        BY <2>3, <2>4, <4>2 DEF OneClaims
      <4>3. CASE closest[o] # -1 /\ closest[p] # -1
        <5>1. closest[o] \in Claimants(o) /\ closest[p] \in Claimants(p) /\ closest[o] # closest[p]
          BY <2>3, <3>1, <4>3 DEF OneClaims
        <5> QED
          BY <2>4, <5>1
      <4> QED
        BY <4>1, <4>2, <4>3
    <3> QED
      BY <1>6, <2>6, <3>2 DEF OneClaims
  <2> QED
    BY <2>5, <2>6
<1> QED
  BY <1>8, <1>9

LEMMA OnlyOne ==
    ASSUME NEW S, IsFiniteSet(S)
    PROVE  /\ \A x : S = {x} => Cardinality(S) = 1 /\ (x \in Int => Min(S) = x)
           /\ \A b, c \in S : b # c => Cardinality(S) # 1
<1>1. \A x \in Int : Min({x}) = x
  BY DEF Min
<1>2. \A x : Cardinality({x}) = 1
  BY FS_Singleton
<1>3. Cardinality(S) = 1 => \E x : S = {x}
  BY FS_Singleton
<1> QED
  BY <1>1, <1>2, <1>3

LEMMA SpheresAreExact ==
    ASSUME WellTyped, Land, Reach, Claims
    PROVE  SpheresExact
<1>1. ASSUME phase = "coast", bfs = << >>, NEW s \in Sectors
      PROVE  distance[s] = Nearest(s, Islands)
  <2>1. Typed /\ args \in Arguments /\ ValidateArgs(args) /\ Mapped
    BY <1>1, RunningTyped, Phases DEF Land
  <2> QED
    BY <1>1, <2>1, DistancesExact
<1>2. ASSUME phase = "spheres", bfs = << >>, NEW s \in Sectors
      PROVE  LET near == {c \in Continents : Coast({c}) # {} /\ Nearest(s, {c}) = distance[s]}
             IN  /\ distance[s] = Nearest(s, Continents)
                 /\ closest[s] = IF Cardinality(near) = 1 THEN Min(near) ELSE -1
  <2> DEFINE near == {c \in Continents : Coast({c}) # {} /\ Nearest(s, {c}) = distance[s]}
  <2>1. Typed /\ args \in Arguments /\ ValidateArgs(args) /\ Mapped
    BY <1>2, RunningTyped, Phases DEF Land
  <2>2. distance[s] = Nearest(s, Continents)
    BY <1>2, <2>1, DistancesExact
  <2>3. Continents \subseteq Islands /\ Continents \subseteq Nat
    BY <2>1, IslandNumbers
  <2>4. \A c \in Continents : \A u : u \in Coast({c}) <=> u \in Sources /\ own[u] = c
    <3>1. \A u : u \in Sources <=> u \in Sectors /\ own[u] \in Continents /\ IsCoastal(u)
      BY <1>2, <2>1, <2>3, CoastOf DEF Sources
    <3>2. \A c \in Continents : \A u : u \in Coast({c}) <=> u \in Sectors /\ own[u] \in {c} /\ IsCoastal(u)
      <4> SUFFICES ASSUME NEW c \in Continents
                   PROVE  \A u : u \in Coast({c}) <=> u \in Sectors /\ own[u] \in {c} /\ IsCoastal(u)
        OBVIOUS
      <4>1. {c} \subseteq Islands
        BY <2>3
      <4> QED
        BY <2>1, <4>1, CoastOf
    <3> QED
      BY <3>1, <3>2
  <2>5. \A u \in Sources : distance[s] <= MapDist(s, u) /\ u \in Sectors /\ MapDist(s, u) \in Nat
    BY <1>2, <2>1, SearchIsOver, SourcesAre, Distances
  <2>6. near = Claimants(s)
    <3> SUFFICES ASSUME NEW c \in Continents
                 PROVE  c \in near <=> c \in Claimants(s)
      BY DEF Claimants
    <3>1. {c} \subseteq Islands
      BY <2>3
    <3>2. Coast({c}) # {} => /\ \E u \in Coast({c}) : Nearest(s, {c}) = MapDist(s, u)
                             /\ \A u \in Coast({c}) : Nearest(s, {c}) <= MapDist(s, u)
                             /\ Nearest(s, {c}) \in Nat
      BY <2>1, <3>1, NearestShore
    <3>3. ASSUME c \in near PROVE c \in Claimants(s)
      BY <2>4, <3>2, <3>3 DEF Claimants
    <3>4. ASSUME c \in Claimants(s) PROVE c \in near
      <4>1. PICK u \in Sources : own[u] = c /\ MapDist(s, u) = distance[s]
        BY <3>4 DEF Claimants
      <4>2. u \in Coast({c})
        BY <2>4, <4>1
      <4>3. PICK v \in Coast({c}) : Nearest(s, {c}) = MapDist(s, v)
        BY <3>2, <4>2
      <4>4. v \in Sources /\ Nearest(s, {c}) <= MapDist(s, u)
        BY <2>4, <3>2, <4>2
      <4>5. MapDist(s, v) >= distance[s] /\ distance[s] \in Int
        BY <2>1, <2>5, <4>4 DEF Typed
      <4>6. Nearest(s, {c}) = distance[s]
        BY <2>5, <3>2, <4>1, <4>2, <4>3, <4>4, <4>5
      <4> QED
        BY <4>2, <4>6
    <3> QED
      BY <3>3, <3>4
  <2>7. IsFiniteSet(near)
    <3>1. IsFiniteSet(Continents)
      BY <2>1, Command, Below DEF Continents
    <3>2. near \subseteq Continents
      OBVIOUS
    <3> HIDE DEF near
    <3> QED
      BY <3>1, <3>2, FS_Subset
  <2>8. closest[s] = IF Cardinality(near) = 1 THEN Min(near) ELSE -1
    <3>1. near \subseteq Continents
      OBVIOUS
    <3> HIDE DEF near
    <3>2. closest[s] \in Int
      BY <2>1 DEF Typed
    <3>3. CASE distance[s] < Far
      <4>1. OneClaims(s)
        BY <1>2, <2>1, <3>3, ClaimsExact
      <4>2. CASE closest[s] # -1
        <5>1. near = {closest[s]}
          BY <2>6, <4>1, <4>2 DEF OneClaims
        <5> QED
          BY <2>7, <3>2, <5>1, OnlyOne
      <4>3. CASE closest[s] = -1
        <5>1. \E b, c \in near : b # c
          BY <2>6, <4>1, <4>3 DEF OneClaims
        <5> QED
          BY <2>7, <4>3, <5>1, OnlyOne
      <4> QED
        BY <4>2, <4>3
    <3>4. CASE distance[s] = Far
      <4>1. closest[s] = -1
        BY <1>2, <3>4 DEF Claims
      <4>2. near = {}
        <5>1. \A u \in Sources : MapDist(s, u) < Far
          BY <2>5, Distances
        <5>2. \A u \in Sources : MapDist(s, u) # Far
          BY <2>5, <5>1, FarIs
        <5> QED
          BY <2>6, <3>4, <5>2 DEF Claimants
      <4>3. Cardinality(near) # 1
        BY <4>2, FS_EmptySet
      <4> QED
        BY <4>1, <4>3
    <3>5. distance[s] \in 0..Far /\ Far \in Nat
      BY <2>1, FarIs DEF Typed
    <3> QED
      BY <3>3, <3>4, <3>5
  <2> QED
    BY <2>2, <2>8
<1> QED
  BY <1>1, <1>2 DEF SpheresExact

-----------------------------------------------------------------------------
\* Every step of the program: a search begins, goes on, or is left alone.
LEMMA ReachStep ==
    ASSUME WellTyped, Land, Queue, Queue', Reach, Claims, Next
    PROVE  Reach' /\ Claims'
<1>1. CASE Search
  <2>1. Typed /\ args \in Arguments /\ ValidateArgs(args) /\ Mapped
    BY <1>1, RunningTyped, Phases DEF Search, Land
  <2>2. Reach'
    BY <1>1, <2>1, SearchReach
  <2> QED
    BY <1>1, <2>1, <2>2, SearchClaims
<1>2. CASE SizeIslands
  <2>1. /\ SearchFrom(args.nc) /\ phase = "sizes" /\ UNCHANGED <<args, own, adjLand, sect>>
        /\ phase' = IF args.ni = 0 THEN "coast" ELSE "spheres"
    BY <1>2 DEF SizeIslands, land
  <2>2. Typed /\ args \in Arguments /\ ValidateArgs(args) /\ phase \in Running
    BY <2>1, RunningTyped, Phases
  <2>3. /\ args.nc \in 0..args.nc + args.ni
        /\ args.ni = 0 => args.nc = args.nc + args.ni
    BY <2>2, Command
  <2>4. phase' = "coast" => args.nc = args.nc + args.ni
    BY <2>1, <2>3
  <2> QED
    BY <2>1, <2>2, <2>3, <2>4, ReachBegins
<1>3. CASE StartGroup
  <2>1. Typed /\ args \in Arguments /\ ValidateArgs(args) /\ phase \in Running
    BY <1>3, RunningTyped, Phases DEF StartGroup
  <2>2. CASE group = Len(isiz)
    <3>1. SearchFrom(args.nc + args.ni) /\ phase' = "coast" /\ UNCHANGED <<args, own, adjLand, sect>>
      BY <1>3, <2>2 DEF StartGroup
    <3>2. args.nc + args.ni \in 0..args.nc + args.ni
      BY <2>1, Command
    <3> QED
      BY <2>1, <3>1, <3>2, ReachBegins
  <2>3. CASE group # Len(isiz)
    BY <1>3, <2>3 DEF StartGroup, Reach, Claims
  <2> QED
    BY <2>2, <2>3
<1>4. CASE Raise
  <2>1. UNCHANGED <<args, own, adjLand, sect, closest, distance, bfs, phase>>
    BY <1>4 DEF Raise, land, search
  <2> QED
    BY <2>1, ReachKept
<1>5. CASE Refuse \/ Start \/ Retry
  BY <1>5 DEF Refuse, Start, Retry, Reach, Claims
<1>6. CASE Settle \/ DriftCapital \/ PlaceCapital \/ GrowContinent \/ ContinentsDone
  BY <1>6 DEF Settle, DriftCapital, PlaceCapital, GrowContinent, ContinentsDone, Reach, Claims
<1>7. CASE SearchFromBorders \/ PlaceIsland \/ GrowIsland \/ EndGroup \/ Write
  BY <1>7 DEF SearchFromBorders, PlaceIsland, GrowIsland, EndGroup, Write, Reach, Claims
<1> QED
  BY <1>1, <1>2, <1>3, <1>4, <1>5, <1>6, <1>7 DEF Next

\* The invariant of the search, of which SearchedStep says that every step keeps it.
Searched == WellTyped /\ Land /\ Progress /\ Queue /\ Reach /\ Claims

LEMMA SearchedInit == Init => Searched
BY GrownInit, Phases DEF Init, Queue, Reach, Claims, Searched

LEMMA SearchedStep == Searched /\ [Next]_vars => Searched'
<1> SUFFICES ASSUME Searched, [Next]_vars
             PROVE  Searched'
  OBVIOUS
<1>1. WellTyped' /\ Land' /\ Progress'
  BY GrownStep DEF Searched
<1>2. CASE Next
  <2>1. Queue'
    BY <1>2, QueueStep DEF Searched
  <2>2. Reach' /\ Claims'
    BY <1>2, <2>1, ReachStep DEF Searched
  <2> QED
    BY <1>1, <2>1, <2>2 DEF Searched
<1>3. CASE UNCHANGED vars
  <2>1. UNCHANGED <<args, own, adjLand, sect, closest, distance, bfs, phase>>
    BY <1>3 DEF vars, land, search
  <2>2. Queue'
    BY <2>1 DEF Queue, Searched
  <2>3. Reach' /\ Claims'
    BY <2>1, ReachKept DEF Searched
  <2> QED
    BY <1>1, <2>2, <2>3 DEF Searched
<1> QED
  BY <1>2, <1>3

\* When a search is over every sector knows how far the nearest coast is, and whose it is, or
\* that several continents are as near (bfs_run_queue), on whatever map.
THEOREM SearchIsExact == Spec => []SpheresExact
<1>1. Searched => SpheresExact
  BY SpheresAreExact DEF Searched
<1> QED
  BY <1>1, SearchedInit, SearchedStep, PTL DEF Spec

-----------------------------------------------------------------------------
(* Rings and zones. *)

\* The way from i to j on a ring, to and fro.
LEMMA WayOnRing ==
    ASSUME NEW n, Ringlike(n), NEW i \in 0..n - 1, NEW j \in 0..n - 1
    PROVE  \E d \in -n..n : /\ (i + d) % n = j
                            /\ Apart(i, j, n) = IF d < 0 THEN -d ELSE d
<1> DEFINE h == n \div 2
           a == Apart(i, j, n)
<1>1. h \in Nat /\ 2 * h = n /\ n \in Nat /\ h >= 2
  BY HalfARing DEF Ringlike
<1>2. a = LET e == IF i > j THEN i - j ELSE j - i
          IN  IF e > h THEN 2 * h - e ELSE e
  BY <1>1 DEF Apart, h
<1> HIDE DEF h, a
<1> DEFINE d == IF i > j THEN IF i - j > h THEN j - i + n ELSE j - i
                ELSE IF j - i > h THEN j - i - n ELSE j - i
<1>3. d \in -n..n /\ a = (IF d < 0 THEN -d ELSE d)
  BY <1>1, <1>2
<1>4. i + d = j \/ i + d = j + n \/ i + d = j - n
  BY <1>1
<1>5. n \in Nat \ {0} /\ d \in -n..n
  BY <1>1, <1>3
<1> HIDE DEF d
<1>6. (i + d) % n = j
  <2>1. (i + d) % n = IF i + d < 0 THEN i + d + n ELSE IF i + d >= n THEN i + d - n ELSE i + d
    BY <1>5, Wrapped
  <2> QED
    BY <1>1, <1>4, <1>5, <2>1
<1> QED
  BY <1>3, <1>5, <1>6 DEF a

\* The corner a side of a ring begins at, and the way the side goes.
Corner(d) == DirOff[((d + 3) % 6) + 1]

LEMMA Corners ==
    /\ Corner(1)[1] = -2 /\ Corner(1)[2] = 0
    /\ Corner(2)[1] = -1 /\ Corner(2)[2] = -1
    /\ Corner(3)[1] = 1 /\ Corner(3)[2] = -1
    /\ Corner(4)[1] = 2 /\ Corner(4)[2] = 0
    /\ Corner(5)[1] = 1 /\ Corner(5)[2] = 1
    /\ Corner(6)[1] = -1 /\ Corner(6)[2] = 1
<1>1. /\ ((1 + 3) % 6) + 1 = 5 /\ ((2 + 3) % 6) + 1 = 6 /\ ((3 + 3) % 6) + 1 = 1
      /\ ((4 + 3) % 6) + 1 = 2 /\ ((5 + 3) % 6) + 1 = 3 /\ ((6 + 3) % 6) + 1 = 4
  OBVIOUS
<1> QED
  BY <1>1, Offsets DEF Corner

\* A ring has everything that is so far away.
OnSide(n, dx, dy, d, k) == /\ dx = n * Corner(d)[1] + k * DirOff[d][1]
                           /\ dy = n * Corner(d)[2] + k * DirOff[d][2]
LEMMA OnSomeSide ==
    ASSUME NEW dx \in Int, NEW dy \in Int, NEW n \in Nat, n >= 1, (dx + dy) % 2 = 0,
           n = Hex(IF dx < 0 THEN -dx ELSE dx, IF dy < 0 THEN -dy ELSE dy)
    PROVE  \E d \in Directions : \E k \in 0..n - 1 : OnSide(n, dx, dy, d, k)
<1> DEFINE ax == IF dx < 0 THEN -dx ELSE dx
           ay == IF dy < 0 THEN -dy ELSE dy
<1>1. ax \in Nat /\ ay \in Nat /\ (ax + ay) % 2 = 0
  OBVIOUS
<1>2. /\ ay <= n /\ ax + ay <= 2 * n
      /\ n = ay \/ 2 * n = ax + ay
  <2> HIDE DEF ax, ay
  <2>1. n = Hex(ax, ay)
    BY DEF ax, ay
  <2> QED
    BY <1>1, <2>1, HexIs
<1>3. ASSUME NEW k \in 0..n - 1
      PROVE  /\ dx = k - 2 * n /\ dy = -k => OnSide(n, dx, dy, 1, k)
             /\ dx = 2 * k - n /\ dy = -n => OnSide(n, dx, dy, 2, k)
             /\ dx = n + k /\ dy = k - n => OnSide(n, dx, dy, 3, k)
             /\ dx = 2 * n - k /\ dy = k => OnSide(n, dx, dy, 4, k)
             /\ dx = n - 2 * k /\ dy = n => OnSide(n, dx, dy, 5, k)
             /\ dx = -n - k /\ dy = n - k => OnSide(n, dx, dy, 6, k)
  <2>1. k \in Int /\ n \in Int
    OBVIOUS
  <2>2. /\ n * (-2) + k * 1 = k - 2 * n /\ n * 0 + k * (-1) = -k
        /\ n * (-1) + k * 2 = 2 * k - n /\ n * (-1) + k * 0 = -n
        /\ n * 1 + k * 1 = n + k /\ n * (-1) + k * 1 = k - n
        /\ n * 2 + k * (-1) = 2 * n - k /\ n * 0 + k * 1 = k
        /\ n * 1 + k * (-2) = n - 2 * k /\ n * 1 + k * 0 = n
        /\ n * (-1) + k * (-1) = -n - k /\ n * 1 + k * (-1) = n - k
    BY <2>1
  <2> QED
    BY <2>2, Offsets, Corners DEF OnSide
<1> HIDE DEF ax, ay
<1>0. /\ ax = IF dx < 0 THEN -dx ELSE dx
      /\ ay = IF dy < 0 THEN -dy ELSE dy
  BY DEF ax, ay
<1>4. CASE ax <= ay
  <2>1. ay = n
    BY <1>1, <1>2, <1>4
  <2>2. CASE dy < 0 /\ dx < n
    <3>1. PICK k \in 0..n - 1 : dx = 2 * k - n
      <4>1. (dx + n) \div 2 \in 0..n - 1 /\ dx = 2 * ((dx + n) \div 2) - n
        BY <1>0, <1>4, <2>1, <2>2
      <4> QED
        BY <4>1
    <3>2. OnSide(n, dx, dy, 2, k)
      BY <1>0, <1>3, <2>1, <2>2, <3>1
    <3> QED
      BY <3>2, Offsets
  <2>3. CASE dy < 0 /\ dx = n
    <3>1. 0 \in 0..n - 1 /\ dx = n + 0 /\ dy = 0 - n
      BY <1>0, <2>1, <2>3
    <3>2. OnSide(n, dx, dy, 3, 0)
      BY <1>3, <3>1
    <3> QED
      BY <3>1, <3>2, Offsets
  <2>4. CASE dy >= 0 /\ dx > -n
    <3>1. PICK k \in 0..n - 1 : dx = n - 2 * k
      <4>1. (n - dx) \div 2 \in 0..n - 1 /\ dx = n - 2 * ((n - dx) \div 2)
        BY <1>0, <1>4, <2>1, <2>4
      <4> QED
        BY <4>1
    <3>2. OnSide(n, dx, dy, 5, k)
      BY <1>0, <1>3, <2>1, <2>4, <3>1
    <3> QED
      BY <3>2, Offsets
  <2>5. CASE dy >= 0 /\ dx = -n
    <3>1. 0 \in 0..n - 1 /\ dx = -n - 0 /\ dy = n - 0
      BY <1>0, <2>1, <2>5
    <3>2. OnSide(n, dx, dy, 6, 0)
      BY <1>3, <3>1
    <3> QED
      BY <3>1, <3>2, Offsets
  <2> QED
    BY <1>0, <1>4, <2>1, <2>2, <2>3, <2>4, <2>5
<1>5. CASE ax > ay
  <2>1. 2 * n = ax + ay
    BY <1>1, <1>2, <1>5
  <2>2. CASE dx < 0 /\ dy <= 0
    <3>1. -dy \in 0..n - 1
      BY <1>0, <1>5, <2>1, <2>2
    <3>2. dx = (-dy) - 2 * n /\ dy = -(-dy)
      BY <1>0, <1>5, <2>1, <2>2
    <3>3. OnSide(n, dx, dy, 1, -dy)
      BY <1>3, <3>1, <3>2
    <3> QED
      BY <3>1, <3>3, Offsets
  <2>3. CASE dx < 0 /\ dy > 0
    <3>1. n - dy \in 0..n - 1
      BY <1>0, <1>5, <2>1, <2>3
    <3>2. OnSide(n, dx, dy, 6, n - dy)
      BY <1>0, <1>3, <1>5, <2>1, <2>3, <3>1
    <3> QED
      BY <3>1, <3>2, Offsets
  <2>4. CASE dx >= 0 /\ dy >= 0
    <3>1. dy \in 0..n - 1
      BY <1>0, <1>5, <2>1, <2>4
    <3>2. dx = 2 * n - dy
      BY <1>0, <1>5, <2>1, <2>4
    <3>3. OnSide(n, dx, dy, 4, dy)
      BY <1>3, <3>1, <3>2
    <3> QED
      BY <3>1, <3>3, Offsets
  <2>5. CASE dx >= 0 /\ dy < 0
    <3>1. n + dy \in 0..n - 1
      BY <1>0, <1>5, <2>1, <2>5
    <3>2. OnSide(n, dx, dy, 3, n + dy)
      BY <1>0, <1>3, <1>5, <2>1, <2>5, <3>1
    <3> QED
      BY <3>1, <3>2, Offsets
  <2> QED
    BY <2>2, <2>3, <2>4, <2>5
<1> QED
  BY <1>1, <1>4, <1>5

LEMMA RingReaches ==
    ASSUME NEW s \in Sectors, NEW t \in Sectors, s # t
    PROVE  t \in Ring(s, MapDist(s, t))
<1> DEFINE n == MapDist(s, t)
<1>1. /\ s[1] \in 0..WorldX - 1 /\ s[2] \in 0..WorldY - 1
      /\ t[1] \in 0..WorldX - 1 /\ t[2] \in 0..WorldY - 1 /\ t = <<t[1], t[2]>>
  BY Sector
<1>2. n \in Nat /\ n >= 1
  BY Distances
<1>3. PICK dx \in -WorldX..WorldX :
        (s[1] + dx) % WorldX = t[1] /\ Apart(s[1], t[1], WorldX) = IF dx < 0 THEN -dx ELSE dx
  BY <1>1, WayOnRing, WorldIsARing
<1>4. PICK dy \in -WorldY..WorldY :
        (s[2] + dy) % WorldY = t[2] /\ Apart(s[2], t[2], WorldY) = IF dy < 0 THEN -dy ELSE dy
  BY <1>1, WayOnRing, WorldIsARing
<1>5. dx \in Int /\ dy \in Int
  BY WorldAssumption
<1>6. /\ n = Hex(IF dx < 0 THEN -dx ELSE dx, IF dy < 0 THEN -dy ELSE dy)
      /\ (dx + dy) % 2 = 0
  <2>1. /\ n = Hex(Apart(s[1], t[1], WorldX), Apart(s[2], t[2], WorldY))
        /\ (Apart(s[1], t[1], WorldX) + Apart(s[2], t[2], WorldY)) % 2 = 0
    BY MapDistIs
  <2>2. ((IF dx < 0 THEN -dx ELSE dx) + (IF dy < 0 THEN -dy ELSE dy)) % 2 = 0
    BY <1>3, <1>4, <2>1
  <2> QED
    BY <1>3, <1>4, <1>5, <2>1, <2>2
<1> HIDE DEF n
<1>7. PICK d \in Directions, k \in 0..n - 1 : OnSide(n, dx, dy, d, k)
  BY <1>2, <1>5, <1>6, OnSomeSide
<1>8. <<d, k>> \in Steps(n)
  BY <1>7 DEF Steps
<1>9. At(s, n, <<d, k>>) = Plus(s, dx, dy)
  BY <1>7 DEF At, OnSide, Corner
<1>10. Plus(s, dx, dy) = t
  BY <1>1, <1>3, <1>4 DEF Plus
<1> QED
  BY <1>8, <1>9, <1>10 DEF Ring, n

\* Within a distance: the sector itself, or on one of the rings around it.
LEMMA Within ==
    ASSUME NEW s \in Sectors, NEW t \in Sectors, NEW dist \in Int, MapDist(t, s) <= dist
    PROVE  t = s \/ \E d \in 1..dist : t \in Ring(s, d)
<1>1. CASE t # s
  <2>1. MapDist(s, t) \in Nat /\ MapDist(s, t) # 0 /\ MapDist(s, t) = MapDist(t, s)
    BY <1>1, Distances
  <2>2. MapDist(s, t) \in 1..dist
    BY <2>1
  <2> QED
    BY <1>1, <2>2, RingReaches
<1> QED
  BY <1>1

LEMMA ZonedNear ==
    ASSUME NEW zone \in [Sectors -> Int], NEW c \in Nat, NEW s \in Sectors, NEW dist \in Int,
           NEW t \in Sectors, MapDist(t, s) <= dist
    PROVE  Zoned(zone, c, s, dist)[t] \in {c, Contested}
<1>1. t = s \/ t \in UNION {Ring(s, d) : d \in 1..dist}
  BY Within
<1> QED
  BY <1>1 DEF Zoned

\* No zone is taken from anybody, if the sector in the middle may be grown at.
LEMMA ZonedKeeps ==
    ASSUME NEW zone \in [Sectors -> Int], NEW c \in Nat, NEW s \in Sectors, zone[s] \in {c, -1},
           NEW dist, NEW t \in Sectors, NEW x \in Nat, zone[t] \in {x, Contested}
    PROVE  Zoned(zone, c, s, dist)[t] \in {x, Contested}
<1>1. -1 # Contested /\ c # Contested /\ x # Contested /\ x # -1
  BY DEF Contested
<1>2. CASE t = s
  BY <1>1, <1>2 DEF Zoned
<1>3. CASE t # s
  BY <1>1, <1>3 DEF Zoned
<1> QED
  BY <1>2, <1>3

\* What is free or one's own remains so.
LEMMA ZonedFree ==
    ASSUME NEW zone \in [Sectors -> Int], NEW c \in Nat, NEW s \in Sectors,
           NEW dist, NEW t \in Sectors, zone[t] \in {c, -1}
    PROVE  Zoned(zone, c, s, dist)[t] \in {c, -1}
BY DEF Zoned

\* Land is only of the continents, and of the islands of the groups so far.
LEMMA LandSoFar ==
    ASSUME Typed, Mapped, Progress, args \in Arguments, ValidateArgs(args),
           phase \in Running \ {"islands"}
    PROVE  /\ FirstIsland \in Nat /\ FirstIsland <= args.nc + args.ni
           /\ \A q \in Sectors : own[q] # Sea => own[q] \in 0..FirstIsland - 1
           /\ phase \in {"drift", "continents", "sizes", "spheres"} =>
                \A q \in Sectors : own[q] # Sea => own[q] \in Continents
<1>1. /\ args.nc \in Nat \ {0} /\ args.ni \in Nat /\ args.ni \div args.nc \in Nat
      /\ args.ni = (args.ni \div args.nc) * args.nc /\ group \in Nat
  BY Command DEF Typed
<1> DEFINE n == args.ni \div args.nc
<1>2. /\ GroupsDone /\ group <= n
      /\ phase \in {"drift", "continents", "sizes", "spheres"} => group = 0
  <2>1. Loops /\ GroupsDone
    BY DEF Progress
  <2>2. phase \in {"spheres", "borders", "islands", "coast", "written"} => group <= n
    BY <2>1 DEF Loops
  <2>3. phase \in {"drift", "continents", "sizes", "spheres"} => group = 0
    BY <2>1 DEF Loops
  <2> HIDE DEF n
  <2>4. n \in Nat
    BY <1>1 DEF n
  <2>5. group <= n
    BY <1>1, <2>2, <2>3, <2>4, Phases
  <2> QED
    BY <2>1, <2>3, <2>5
<1> HIDE DEF n
<1>3. n \in Nat /\ args.ni = n * args.nc
  BY <1>1 DEF n
<1>4. group * args.nc \in Nat /\ group * args.nc <= n * args.nc
  BY <1>1, <1>2, <1>3
<1>5. FirstIsland \in Nat /\ FirstIsland <= args.nc + args.ni
  BY <1>1, <1>3, <1>4 DEF FirstIsland
<1>6. ASSUME NEW q \in Sectors, own[q] # Sea, own[q] \notin Continents
      PROVE  \E i \in 0..group - 1, j \in 0..args.nc - 1 : own[q] = Group(i) + j
  <2>1. own[q] \in Islands /\ q \in SectorsOf(own[q])
    BY <1>6 DEF Typed, Mapped, IsLand
  <2>2. PICK i \in 0..n - 1, j \in 0..args.nc - 1 : own[q] = Group(i) + j
    BY <1>6, <2>1, IslandNumbers DEF n
  <2>3. PICK k \in 1..Len(sect[own[q]]) : sect[own[q]][k] = q
    BY <2>1, ListedSectors DEF Typed
  <2>4. i < group
    <3>1. SUFFICES ASSUME i >= group PROVE FALSE
      BY <1>1
    <3>2. i \in group..n - 1
      BY <1>1, <1>3, <3>1
    <3>3. Len(sect[Group(i) + j]) = 0
      BY <1>2, <3>2 DEF GroupsDone, n
    <3> QED
      BY <2>2, <2>3, <3>3
  <2>5. i \in 0..group - 1
    BY <1>1, <2>4
  <2> QED
    BY <2>2, <2>5
<1>7. ASSUME NEW q \in Sectors, own[q] # Sea
      PROVE  own[q] \in 0..FirstIsland - 1
  <2>1. CASE own[q] \in Continents
    <3>1. own[q] \in 0..args.nc - 1
      BY <2>1 DEF Continents
    <3> QED
      BY <1>1, <1>4, <3>1 DEF FirstIsland
  <2>2. CASE own[q] \notin Continents
    <3>1. PICK i \in 0..group - 1, j \in 0..args.nc - 1 : own[q] = Group(i) + j
      BY <1>6, <1>7, <2>2
    <3>2. (i + 1) * args.nc <= group * args.nc /\ (i + 1) * args.nc = i * args.nc + args.nc
          /\ i * args.nc \in Nat
      BY <1>1
    <3>3. Group(i) + j = args.nc + i * args.nc + j
      BY DEF Group
    <3> QED
      BY <1>1, <1>4, <3>1, <3>2, <3>3 DEF FirstIsland
  <2> QED
    BY <2>1, <2>2
<1>8. ASSUME phase \in {"drift", "continents", "sizes", "spheres"}, NEW q \in Sectors, own[q] # Sea
      PROVE  own[q] \in Continents
  BY <1>2, <1>6, <1>8
<1> QED
  BY <1>5, <1>7, <1>8

-----------------------------------------------------------------------------
(* Distances are kept. *)

LEMMA ClearIs ==
    ASSUME args \in Arguments, ValidateArgs(args), NEW a \in Islands \cup {Sea},
           NEW b \in Islands \cup {Sea}, NEW m \in Nat
    PROVE  /\ Clear(a, b, m) => Clear(b, a, m)
           /\ Clear(a, a, m)
           /\ Clear(a, Sea, m)
<1>1. args.nc \in Nat \ {0} /\ a \in Int /\ b \in Int
  BY Command, IslandNumbers DEF Sea
<1>2. \A c : c \in Continents <=> c \in Int /\ 0 <= c /\ c < args.nc
  BY <1>1 DEF Continents
<1>3. Sea \notin Continents /\ ~(Sea >= args.nc)
  BY <1>1, <1>2 DEF Sea
<1> QED
  BY <1>1, <1>2, <1>3 DEF Clear

\* Where a continent, or an island, may grow it is clear of all others.
LEMMA GrowsClear ==
    ASSUME Typed, Mapped, Progress, args \in Arguments, ValidateArgs(args), ZonesKept,
           NEW c \in Islands, NEW s \in Sectors, CanGrowAt(c, s),
           (phase = "continents" /\ c \in Continents) \/ (phase = "islands" /\ c \notin Continents),
           NEW t \in Sectors
    PROVE  Clear(c, own[t], MapDist(s, t))
<1>1. /\ args.nc \in Nat \ {0} /\ c \in Nat /\ own[t] \in Islands \cup {Sea} /\ Islands \subseteq Nat
      /\ \A b \in Islands : b \in Continents <=> b < args.nc
      /\ MapDist(s, t) \in Nat /\ args.di \in Nat /\ args.id \in Nat
      /\ Continents \subseteq Islands
  BY Command, IslandNumbers, Distances DEF Typed
<1>2. own[s] = Sea /\ xzone[s] \in {c, -1}
  BY DEF CanGrowAt
<1>3. CASE own[t] \in {c, Sea}
  BY <1>1, <1>3, ClearIs
<1>4. CASE own[t] \notin {c, Sea}
  <2>1. own[t] \in Islands /\ own[t] \in Nat /\ own[t] # c
    BY <1>1, <1>4
  <2>2. xzone[s] \notin {own[t], Contested}
    BY <1>1, <1>2, <2>1 DEF Contested
  <2>3. CASE phase = "continents" /\ c \in Continents
    <3>1. own[t] \in Continents
      BY <1>4, <2>3, LandSoFar, Phases
    <3>2. MapDist(s, t) > args.di
      BY <1>1, <2>2, <2>3, <3>1 DEF ZonesKept, ContinentZones
    <3> QED
      BY <1>1, <2>1, <2>3, <3>1, <3>2 DEF Clear
  <2>4. CASE phase = "islands" /\ c \notin Continents
    <3>1. IslandZones
      BY <2>4 DEF ZonesKept
    <3>2. own[t] \in Continents \/ args.distinct => MapDist(s, t) > args.id
      BY <1>1, <1>2, <1>4, <2>2, <3>1 DEF IslandZones
    <3> QED
      BY <1>1, <2>1, <2>4, <3>2 DEF Clear
  <2> QED
    BY <2>3, <2>4
<1> QED
  BY <1>3, <1>4

\* New land that is clear of what was there.
LEMMA StaysApart ==
    ASSUME Typed, args \in Arguments, ValidateArgs(args), UNCHANGED args, AllApart, phase \in Running,
           NEW N \in SUBSET Sectors, NEW c \in Islands \cup {Sea},
           own' = [s \in Sectors |-> IF s \in N THEN c ELSE own[s]],
           \A s \in N : \A t \in Sectors : Clear(c, own[t], MapDist(s, t))
    PROVE  AllApart'
<1>1. \A a, b, m : Clear(a, b, m)' <=> Clear(a, b, m)
  BY DEF Clear, Continents
<1>2. own \in [Sectors -> Islands \cup {Sea}] /\ \A s, t \in Sectors : MapDist(s, t) \in Nat
                                                   /\ MapDist(s, t) = MapDist(t, s)
  BY Distances DEF Typed
<1>3. ASSUME NEW s \in Sectors, NEW t \in Sectors
      PROVE  Clear(own'[s], own'[t], MapDist(s, t))
  <2>1. Clear(own[s], own[t], MapDist(s, t))
    BY DEF AllApart
  <2>2. CASE s \in N /\ t \in N
    BY <1>2, <2>2, ClearIs
  <2>3. CASE s \in N /\ t \notin N
    BY <1>2, <2>3
  <2>4. CASE s \notin N /\ t \in N
    <3>1. Clear(c, own[s], MapDist(s, t))
      BY <1>2, <2>4
    <3> QED
      BY <1>2, <2>4, <3>1, ClearIs
  <2> QED
    BY <2>1, <2>2, <2>3, <2>4
<1> QED
  BY <1>1, <1>3 DEF AllApart

LEMMA ZonesSame ==
    ASSUME UNCHANGED <<args, own, xzone>>
    PROVE  /\ ContinentZones => ContinentZones'
           /\ IslandZones => IslandZones'
           /\ AllApart /\ phase \in Running => AllApart'
<1>1. Continents' = Continents
  BY DEF Continents
<1>2. \A a, b, m : Clear(a, b, m) => Clear(a, b, m)'
  BY <1>1 DEF Clear
<1> QED
  BY <1>1, <1>2 DEF ContinentZones, IslandZones, AllApart

\* A sector is added: its zone, and how far it is from the others.
LEMMA AddApart ==
    ASSUME Typed, Mapped, Progress, args \in Arguments, ValidateArgs(args),
           ZonesKept, AllApart, UNCHANGED <<args, phase>>,
           NEW c \in Islands, NEW s \in Sectors, CanGrowAt(c, s), AddSector(c, s),
           (phase = "continents" /\ c \in Continents) \/ (phase = "islands" /\ c \notin Continents)
    PROVE  ZonesKept' /\ AllApart'
<1>1. /\ xzone \in [Sectors -> Int] /\ own \in [Sectors -> Islands \cup {Sea}]
      /\ own' = [t \in Sectors |-> IF t \in {s} THEN c ELSE own[t]]
      /\ xzone' = Zoned(xzone, c, s, ZoneDist(c))
      /\ xzone[s] \in {c, -1}
  BY DEF Typed, AddSector, CanGrowAt
<1>2. /\ Islands \subseteq Nat /\ Continents \subseteq Islands /\ Continents' = Continents
      /\ \A b \in Islands : b \in Continents <=> b < args.nc
      /\ args.nc \in Nat /\ args.id \in Int /\ args.di \in Int
  BY Command, IslandNumbers DEF Continents
<1>3. /\ phase \in Running
      /\ \A t \in Sectors : Clear(c, own[t], MapDist(s, t))
  <2>1. phase \in Running
    BY Phases
  <2>2. \A t \in Sectors : Clear(c, own[t], MapDist(s, t))
    BY GrowsClear
  <2> QED
    BY <2>1, <2>2
<1>4. AllApart'
  <2>1. {s} \in SUBSET Sectors /\ c \in Islands \cup {Sea}
    OBVIOUS
  <2>2. \A r \in {s} : \A t \in Sectors : Clear(c, own[t], MapDist(r, t))
    BY <1>3
  <2> DEFINE N == {s}
  <2>3. /\ own' = [t \in Sectors |-> IF t \in N THEN c ELSE own[t]]
        /\ N \in SUBSET Sectors
        /\ \A r \in N : \A t \in Sectors : Clear(c, own[t], MapDist(r, t))
    BY <1>1, <2>1, <2>2
  <2> HIDE DEF N
  <2> QED
    BY <1>3, <2>1, <2>3, StaysApart
<1>5. CASE phase = "continents" /\ c \in Continents
  <2>1. ZoneDist(c) = args.di
    BY <1>2, <1>5 DEF ZoneDist
  <2>2. ContinentZones
    BY <1>5 DEF ZonesKept
  <2>3. ASSUME NEW t \in Sectors, NEW q \in Sectors, own'[q] \in Continents, MapDist(t, q) <= args.di
        PROVE  xzone'[t] \in {own'[q], Contested}
    <3>1. CASE q = s
      BY <1>1, <1>2, <2>1, <2>3, <3>1, ZonedNear
    <3>2. CASE q # s
      <4>1. own'[q] = own[q] /\ own[q] \in Nat /\ xzone[t] \in {own[q], Contested}
        BY <1>1, <1>2, <2>2, <2>3, <3>2 DEF ContinentZones
      <4> QED
        BY <1>1, <1>2, <4>1, ZonedKeeps
    <3> QED
      BY <3>1, <3>2
  <2> QED
    BY <1>2, <1>4, <1>5, <2>3 DEF ZonesKept, ContinentZones
<1>6. CASE phase = "islands" /\ c \notin Continents
  <2>1. IslandZones
    BY <1>6 DEF ZonesKept
  <2>2. ASSUME NEW t \in Sectors, NEW q \in Sectors, own'[t] = Sea,
               own'[q] \in Continents \/ (own'[q] # Sea /\ args.distinct), MapDist(t, q) <= args.id
        PROVE  xzone'[t] \in {own'[q], Contested}
    <3>1. t # s /\ own[t] = Sea
      BY <1>1, <1>2, <2>2 DEF Sea
    <3>2. CASE q = s
      <4>1. ZoneDist(c) = args.id
        BY <1>1, <1>2, <1>6, <2>2, <3>2 DEF ZoneDist
      <4> QED
        BY <1>1, <1>2, <2>2, <3>2, <4>1, ZonedNear
    <3>3. CASE q # s
      <4>1. own'[q] = own[q]
        BY <1>1, <3>3
      <4>2. own[q] \in Nat
        BY <1>1, <1>2, <2>2, <4>1
      <4>3. xzone[t] \in {own[q], Contested}
        BY <2>1, <2>2, <3>1, <4>1 DEF IslandZones
      <4> QED
        BY <1>1, <1>2, <4>1, <4>2, <4>3, ZonedKeeps
    <3> QED
      BY <3>2, <3>3
  <2>3. IslandZones'
    BY <1>2, <2>2 DEF IslandZones, Sea
  <2> QED
    BY <1>4, <1>6, <2>3 DEF ZonesKept
<1> QED
  BY <1>5, <1>6

LEMMA BlankApart ==
    ASSUME args \in Arguments, ValidateArgs(args), UNCHANGED args, Blank(args), phase' = "drift"
    PROVE  ZonesKept' /\ AllApart'
<1>1. args.nc \in Nat \ {0} /\ \A s \in Sectors : own'[s] = Sea
  BY Command DEF Blank
<1>2. Sea \notin Continents' /\ ~(Sea >= args'.nc)
  BY <1>1 DEF Continents, Sea
<1>3. AllApart'
  BY <1>1, <1>2 DEF AllApart, Clear
<1>4. ZonesKept'
  BY <1>1, <1>2 DEF ZonesKept, ContinentZones
<1> QED
  BY <1>3, <1>4

LEMMA PlaceCapitalApart ==
    ASSUME Typed, Mapped, Progress, args \in Arguments, ValidateArgs(args),
           ZonesKept, AllApart, PlaceCapital, phase' # "failed"
    PROVE  ZonesKept' /\ AllApart'
<1> DEFINE c == turn
           first == cap[c]
           second == Plus(first, 2, 0)
           zone == Zoned(xzone, c, first, args.di)
<1>1. /\ phase = "continents" /\ phase' = "continents" /\ UNCHANGED args
      /\ CanGrowAt(c, first) /\ CanGrowAt(c, second)
      /\ own' = [own EXCEPT ![first] = c, ![second] = c]
      /\ xzone' = Zoned(zone, c, second, args.di)
  BY DEF PlaceCapital
<1>2. /\ c \in Continents /\ c \in Islands /\ c \in Nat
      /\ xzone \in [Sectors -> Int] /\ own \in [Sectors -> Islands \cup {Sea}]
      /\ Islands \subseteq Nat /\ Continents' = Continents /\ args.di \in Int
  <2>1. phase \in Running \ {"drift"}
    BY <1>1, Phases
  <2>2. c \in Continents /\ c \in Islands
    BY <2>1, TurnOfContinent
  <2>3. Islands \subseteq Nat /\ args.di \in Int
    BY IslandNumbers, Command
  <2>4. Continents' = Continents
    BY <1>1 DEF Continents
  <2>5. xzone \in [Sectors -> Int] /\ own \in [Sectors -> Islands \cup {Sea}]
    BY DEF Typed
  <2> HIDE DEF c
  <2> QED
    BY <2>2, <2>3, <2>4, <2>5
<1>3. first \in Sectors /\ second \in Sectors
  <2>1. first \in Sectors
    BY <1>2 DEF Typed
  <2> QED
    BY <2>1, TwinSector
<1> HIDE DEF c, first, second
<1>4. own' = [t \in Sectors |-> IF t \in {first, second} THEN c ELSE own[t]]
  <2> HIDE DEF zone
  <2> QED
    BY <1>1, <1>2, <1>3
<1>5. \A t \in Sectors : /\ Clear(c, own[t], MapDist(first, t))
                         /\ Clear(c, own[t], MapDist(second, t))
  BY <1>1, <1>2, <1>3, GrowsClear
<1>6. AllApart'
  <2>1. \A s \in {first, second} : \A t \in Sectors : Clear(c, own[t], MapDist(s, t))
    BY <1>5
  <2>2. {first, second} \in SUBSET Sectors /\ c \in Islands \cup {Sea} /\ phase \in Running
    BY <1>1, <1>2, <1>3, Phases
  <2> DEFINE N == {first, second}
  <2>3. /\ own' = [t \in Sectors |-> IF t \in N THEN c ELSE own[t]]
        /\ N \in SUBSET Sectors
        /\ \A s \in N : \A t \in Sectors : Clear(c, own[t], MapDist(s, t))
    BY <1>4, <2>1, <2>2
  <2> HIDE DEF N
  <2> QED
    BY <1>1, <2>2, <2>3, StaysApart
<1>7. /\ zone \in [Sectors -> Int]
      /\ xzone[first] \in {c, -1} /\ xzone[second] \in {c, -1}
      /\ zone[second] \in {c, -1}
  <2>1. xzone[first] \in {c, -1} /\ xzone[second] \in {c, -1}
    BY <1>1 DEF CanGrowAt
  <2>2. zone \in [Sectors -> Int]
    BY <1>2, ZonedTyped
  <2>3. zone[second] \in {c, -1}
    BY <1>2, <1>3, <2>1, ZonedFree
  <2> QED
    BY <2>1, <2>2, <2>3
<1>8. ASSUME NEW t \in Sectors, NEW q \in Sectors, own'[q] \in Continents, MapDist(t, q) <= args.di
      PROVE  xzone'[t] \in {own'[q], Contested}
  <2>1. CASE q = second
    <3>1. xzone'[t] \in {c, Contested}
      <4> HIDE DEF zone
      <4> QED
        BY <1>1, <1>2, <1>3, <1>7, <1>8, <2>1, ZonedNear
    <3> QED
      BY <1>4, <1>3, <2>1, <3>1
  <2>2. CASE q = first
    <3>1. zone[t] \in {c, Contested}
      BY <1>2, <1>3, <1>8, <2>2, ZonedNear
    <3>2. xzone'[t] \in {c, Contested}
      <4> HIDE DEF zone
      <4> QED
        BY <1>1, <1>2, <1>3, <1>7, <3>1, ZonedKeeps
    <3> QED
      BY <1>4, <1>3, <2>2, <3>2
  <2>3. CASE q \notin {first, second}
    <3>1. own'[q] = own[q]
      BY <1>4, <2>3
    <3>2. own[q] \in Nat /\ xzone[t] \in {own[q], Contested}
      <4>1. ContinentZones
        BY <1>1 DEF ZonesKept
      <4> QED
        BY <1>2, <1>8, <3>1, <4>1, IslandNumbers DEF ContinentZones
    <3>3. zone[t] \in {own[q], Contested}
      BY <1>2, <1>3, <1>7, <3>2, ZonedKeeps
    <3>4. xzone'[t] \in {own[q], Contested}
      <4> HIDE DEF zone
      <4> QED
        BY <1>1, <1>2, <1>3, <1>7, <3>2, <3>3, ZonedKeeps
    <3> QED
      BY <3>1, <3>4
  <2> QED
    BY <2>1, <2>2, <2>3
<1> QED
  BY <1>1, <1>2, <1>6, <1>8 DEF ZonesKept, ContinentZones

\* The zones of a new group: those kept, or those computed anew.
LEMMA StartGroupApart ==
    ASSUME Typed, Mapped, Progress, args \in Arguments, ValidateArgs(args),
           ZonesKept, AllApart, StartGroup
    PROVE  ZonesKept' /\ AllApart'
<1>1. phase = "borders" /\ phase' \in {"coast", "islands"} /\ UNCHANGED <<args, own, sect>>
  BY DEF StartGroup
<1>2. Continents' = Continents /\ phase \in Running /\ phase \in Running \ {"islands"}
  BY <1>1, Phases DEF Continents
<1>3. AllApart'
  <2>1. \A a, b, m : Clear(a, b, m) => Clear(a, b, m)'
    BY <1>1, <1>2 DEF Clear
  <2> QED
    BY <1>1, <1>2, <2>1 DEF AllApart
<1>4. CASE phase' = "coast"
  BY <1>3, <1>4 DEF ZonesKept
<1>5. CASE phase' = "islands"
  <2>1. xzone' = IF done THEN xzone ELSE ZonesAround(FirstIsland)
    BY <1>5 DEF StartGroup
  <2>2. CASE done
    <3>1. IslandZones
      BY <1>1, <2>2 DEF ZonesKept
    <3>2. IslandZones'
      BY <1>1, <2>1, <2>2, <3>1, ZonesSame
    <3> QED
      BY <1>3, <1>5, <3>2 DEF ZonesKept
  <2>3. CASE ~done
    <3>1. /\ FirstIsland \in 0..args.nc + args.ni
          /\ \A q \in Sectors : own[q] # Sea => own[q] \in 0..FirstIsland - 1
      <4>1. FirstIsland \in Nat /\ FirstIsland <= args.nc + args.ni
        BY <1>2, LandSoFar
      <4>2. args.nc + args.ni \in Nat
        BY Command
      <4> QED
        BY <1>2, <4>1, <4>2, LandSoFar
    <3>2. \A t \in Sectors : own[t] \notin 0..FirstIsland - 1 =>
            \A c \in 0..FirstIsland - 1 : \A s \in SectorsOf(c) :
              t = s \/ (\E d \in 1..args.id : t \in Ring(s, d)) =>
                ZonesAround(FirstIsland)[t] \in {own[s], Contested}
      BY <3>1, ZonesAroundIs
    <3>3. ASSUME NEW t \in Sectors, NEW q \in Sectors, own[t] = Sea, own[q] # Sea,
                 MapDist(t, q) <= args.id
          PROVE  xzone'[t] \in {own[q], Contested}
      <4>1. own[q] \in 0..FirstIsland - 1 /\ own[t] \notin 0..FirstIsland - 1
        BY <3>1, <3>3 DEF Sea
      <4>2. q \in SectorsOf(own[q])
        BY <3>3 DEF Mapped, IsLand
      <4>3. args.id \in Int
        BY Command
      <4>4. t = q \/ \E d \in 1..args.id : t \in Ring(q, d)
        BY <3>3, <4>3, Within, Distances
      <4> QED
        BY <2>1, <2>3, <3>2, <4>1, <4>2, <4>4
    <3>4. IslandZones'
      <4>1. \A q \in Sectors : own[q] \in Continents => own[q] # Sea
        BY Command DEF Continents, Sea
      <4> QED
        BY <1>1, <1>2, <3>3, <4>1 DEF IslandZones, Sea
    <3> QED
      BY <1>3, <1>5, <3>4 DEF ZonesKept
  <2> QED
    BY <2>2, <2>3
<1> QED
  BY <1>1, <1>4, <1>5

\* What islands give back leaves the zones valid if nobody gives anything back.
LEMMA EndGroupApart ==
    ASSUME Typed, Mapped, Progress, args \in Arguments, ValidateArgs(args),
           ZonesKept, AllApart, EndGroup
    PROVE  ZonesKept' /\ AllApart'
<1> DEFINE popped == {Last(sect[c]) : c \in CutBack}
<1>1. /\ phase = "islands" /\ turn = 0 /\ secs >= 1 /\ phase' = "borders"
      /\ UNCHANGED <<args, xzone, done>>
  BY DEF EndGroup
<1>2. own' = [s \in Sectors |-> IF s \in popped THEN Sea ELSE own[s]]
  BY EndGroupIs
<1>3. own \in [Sectors -> Islands \cup {Sea}] /\ phase \in Running
  BY <1>1, Phases DEF Typed
<1>4. AllApart'
  <2>1. \A s, t \in Sectors : MapDist(s, t) \in Nat
    BY Distances
  <2>2. \A s \in popped \cap Sectors : \A t \in Sectors : Clear(Sea, own[t], MapDist(s, t))
    BY <1>3, <2>1, ClearIs
  <2> DEFINE N == popped \cap Sectors
  <2>3. own' = [s \in Sectors |-> IF s \in N THEN Sea ELSE own[s]]
    BY <1>2
  <2>4. N \in SUBSET Sectors /\ Sea \in Islands \cup {Sea} /\ \A s \in N : \A t \in Sectors : Clear(Sea, own[t], MapDist(s, t))
    BY <2>2
  <2> HIDE DEF N, popped
  <2> QED
    BY <1>1, <1>3, <2>3, <2>4, StaysApart
<1>5. CASE done
  <2>1. CutBack = {}
    <3>1. ASSUME NEW c \in FirstIsland..FirstIsland + args.nc - 1
          PROVE  Len(sect[c]) = Settled
      <4>1. PICK j \in 0..args.nc - 1 : c = Group(group) + j
        BY <1>1, CutIs
      <4>2. GroupGrowing
        BY <1>3 DEF Progress
      <4>3. Len(sect[Group(group) + j]) = secs + Grew(j)
        BY <1>1, <1>5, <4>2 DEF GroupGrowing
      <4>4. Grew(j) = 0
        BY <1>1, <4>1, Command DEF Grew
      <4>5. secs \in Nat
        BY DEF Typed
      <4> QED
        BY <1>5, <4>1, <4>3, <4>4, <4>5 DEF Settled
    <3> QED
      BY <3>1 DEF CutBack
  <2>2. own' = own
    BY <1>2, <1>3, <2>1
  <2>3. IslandZones
    BY <1>1 DEF ZonesKept
  <2>4. IslandZones'
    BY <1>1, <2>2, <2>3, ZonesSame
  <2> QED
    BY <1>1, <1>4, <2>4 DEF ZonesKept
<1>6. CASE ~done
  BY <1>1, <1>4, <1>6 DEF ZonesKept
<1> QED
  BY <1>5, <1>6

LEMMA IslandOfTurn ==
    ASSUME Typed, Progress, args \in Arguments, ValidateArgs(args), phase = "islands"
    PROVE  FirstIsland + turn \in Islands /\ FirstIsland + turn \notin Continents
<1>1. turn \in 0..args.nc - 1
  BY Phases, TurnOfContinent
<1>2. /\ \A j \in 0..args.nc - 1 : FirstIsland + j \in Islands /\ FirstIsland + j >= args.nc
      /\ FirstIsland \in Nat
  BY TurnOfIsland
<1>3. args.nc \in Nat /\ FirstIsland + turn \in Nat
  BY <1>1, <1>2, Command
<1> QED
  BY <1>1, <1>2, <1>3 DEF Continents

LEMMA ApartStep ==
    ASSUME WellTyped, Land, Progress, ZonesKept, AllApart, Next
    PROVE  ZonesKept' /\ AllApart'
<1>1. CASE phase' \notin Running
  BY <1>1, Phases DEF ZonesKept, AllApart
<1>2. CASE Start \/ Retry
  <2>1. CASE Blank(args) /\ phase' = "drift"
    <3>1. args \in Arguments /\ ValidateArgs(args) /\ UNCHANGED args
      BY <1>2, <2>1, Phases DEF Start, Retry, WellTyped
    <3> QED
      BY <2>1, <3>1, BlankApart
  <2>2. CASE ~(Blank(args) /\ phase' = "drift")
    BY <1>1, <1>2, <2>2, Phases DEF Start, Retry
  <2> QED
    BY <2>1, <2>2
<1>3. CASE phase \in Running /\ phase' \in Running
  <2>1. Typed /\ Mapped /\ args \in Arguments /\ ValidateArgs(args)
    BY <1>3, RunningTyped DEF Land
  <2>2. CASE Settle \/ DriftCapital \/ ContinentsDone \/ Search \/ SearchFromBorders
             \/ SizeIslands \/ Raise \/ Write
    <3>1. UNCHANGED <<args, own, xzone>>
      BY <2>2 DEF Settle, DriftCapital, ContinentsDone, Search, SearchFromBorders, SizeIslands,
                 Raise, Write, land
    <3>2. /\ ContinentZones => ContinentZones'
          /\ IslandZones => IslandZones'
          /\ AllApart'
      BY <1>3, <3>1, ZonesSame
    <3>3. /\ phase' \in {"drift", "continents"} => phase \in {"drift", "continents"}
          /\ phase' # "islands"
          /\ phase' = "borders" /\ done' => phase = "borders" /\ done
      <4>1. CASE Settle \/ DriftCapital
        BY <4>1 DEF Settle, DriftCapital
      <4>2. CASE Search
        BY <4>2 DEF Search, loops
      <4>3. CASE SearchFromBorders
        BY <4>3 DEF SearchFromBorders
      <4>4. CASE ContinentsDone \/ SizeIslands \/ Raise \/ Write
        BY <4>4 DEF ContinentsDone, SizeIslands, Raise, Write
      <4> QED
        BY <2>2, <4>1, <4>2, <4>3, <4>4
    <3> QED
      BY <3>2, <3>3 DEF ZonesKept
  <2>3. CASE PlaceCapital
    <3>1. phase' # "failed"
      BY <1>3, Phases
    <3> QED
      BY <2>1, <2>3, <3>1, PlaceCapitalApart
  <2>4. CASE GrowContinent
    <3>1. phase = "continents" /\ phase' = "continents" /\ UNCHANGED args
      BY <1>3, <2>4, Phases DEF GrowContinent
    <3>2. PICK spike \in Spikes : \E t \in Candidates(turn, spike) : AddSector(turn, t)
      BY <2>4, <3>1 DEF GrowContinent
    <3>3. PICK t \in Candidates(turn, spike) : AddSector(turn, t)
      BY <3>2
    <3>4. turn \in Continents /\ turn \in Islands
      BY <2>1, <3>1, Phases, TurnOfContinent
    <3>5. t \in Sectors /\ CanGrowAt(turn, t)
      BY <2>1, <3>4, GrowthIs DEF Typed
    <3> QED
      BY <2>1, <3>1, <3>3, <3>4, <3>5, AddApart
  <2>5. CASE StartGroup
    BY <2>1, <2>5, StartGroupApart
  <2>6. CASE PlaceIsland
    <3> DEFINE c == FirstIsland + turn
    <3>1. phase = "islands" /\ phase' = "islands" /\ UNCHANGED args
      BY <1>3, <2>6, Phases DEF PlaceIsland
    <3>2. PICK s \in Places(c) : AddSector(c, s)
      BY <2>6, <3>1 DEF PlaceIsland
    <3>3. c \in Islands /\ c \notin Continents
      BY <2>1, <3>1, IslandOfTurn
    <3>4. s \in Sectors /\ CanGrowAt(c, s)
      BY DEF Places
    <3> HIDE DEF c
    <3> QED
      BY <2>1, <3>1, <3>2, <3>3, <3>4, AddApart
  <2>7. CASE GrowIsland
    <3> DEFINE c == FirstIsland + turn
    <3>1. phase = "islands" /\ phase' = "islands" /\ UNCHANGED args
      BY <2>7 DEF GrowIsland
    <3>2. c \in Islands /\ c \notin Continents
      BY <2>1, <3>1, IslandOfTurn
    <3>3. \/ UNCHANGED land
          \/ \E spike \in Spikes : \E t \in Candidates(c, spike) : AddSector(c, t)
      BY <2>7 DEF GrowIsland
    <3>4. CASE UNCHANGED land
      <4>1. UNCHANGED <<args, own, xzone>>
        BY <3>1, <3>4 DEF land
      <4>2. /\ IslandZones => IslandZones'
            /\ AllApart'
        BY <1>3, <4>1, ZonesSame
      <4> QED
        BY <3>1, <4>2 DEF ZonesKept
    <3>5. CASE \E spike \in Spikes : \E t \in Candidates(c, spike) : AddSector(c, t)
      <4> HIDE DEF c
      <4>1. PICK spike \in Spikes : \E t \in Candidates(c, spike) : AddSector(c, t)
        BY <3>5
      <4>2. PICK t \in Candidates(c, spike) : AddSector(c, t)
        BY <4>1
      <4>3. t \in Sectors /\ CanGrowAt(c, t)
        BY <2>1, <3>2, GrowthIs DEF Typed
      <4> QED
        BY <2>1, <3>1, <3>2, <4>2, <4>3, AddApart
    <3> QED
      BY <3>3, <3>4, <3>5
  <2>8. CASE EndGroup
    BY <2>1, <2>8, EndGroupApart
  <2> QED
    BY <1>3, <2>2, <2>3, <2>4, <2>5, <2>6, <2>7, <2>8, Phases DEF Next, Refuse, Start, Retry
<1>4. CASE phase \notin Running
  BY <1>1, <1>2, <1>4, Phases DEF Next, Refuse, Settle, DriftCapital, PlaceCapital, GrowContinent,
       ContinentsDone, Search, SearchFromBorders, SizeIslands, StartGroup, PlaceIsland, GrowIsland,
       EndGroup, Raise, Write
<1> QED
  BY <1>1, <1>3, <1>4

\* The distances of the command line are kept (xzone, can_grow_at).
LEMMA ApartKept ==
    ASSUME WellTyped, AllApart
    PROVE  ContinentsApart
<1> SUFFICES ASSUME phase \in Growing, NEW s \in Sectors, NEW t \in Sectors
             PROVE  LET a == own[s]
                        b == own[t]
                    IN  /\ a \in Continents /\ b \in Continents \ {a} => MapDist(s, t) > args.di
                        /\ a \in Continents /\ b >= args.nc => MapDist(s, t) > args.id
                        /\ a >= args.nc /\ b > a /\ args.distinct => MapDist(s, t) > args.id
  BY DEF ContinentsApart
<1>1. phase \in Running
  BY Phases DEF Growing
<1>2. Typed /\ args \in Arguments /\ ValidateArgs(args)
  BY <1>1, RunningTyped
<1>3. own[s] \in Int /\ own[t] \in Int /\ args.nc \in Nat
  <2>1. Islands \subseteq Nat /\ args.nc \in Nat
    BY <1>2, IslandNumbers, Command
  <2>2. own[s] \in Islands \cup {Sea} /\ own[t] \in Islands \cup {Sea}
    BY <1>2 DEF Typed
  <2>3. Islands \cup {Sea} \subseteq Int
    BY <2>1 DEF Sea
  <2> QED
    BY <2>1, <2>2, <2>3
<1>4. Clear(own[s], own[t], MapDist(s, t))
  BY <1>1 DEF AllApart
<1>5. own[s] >= args.nc /\ own[t] > own[s] => own[t] >= args.nc /\ own[t] # own[s]
  BY <1>3
<1> QED
  BY <1>4, <1>5 DEF Clear

Spread == WellTyped /\ Land /\ Progress /\ ZonesKept /\ AllApart

LEMMA SpreadInit == Init => Spread
BY GrownInit, Phases DEF Init, Spread, ZonesKept, AllApart

LEMMA SpreadStep == Spread /\ [Next]_vars => Spread'
<1> SUFFICES ASSUME Spread, [Next]_vars
             PROVE  Spread'
  OBVIOUS
<1>1. WellTyped' /\ Land' /\ Progress'
  BY GrownStep DEF Spread
<1>2. CASE Next
  <2>1. ZonesKept' /\ AllApart'
    BY <1>2, ApartStep DEF Spread
  <2> QED
    BY <1>1, <2>1 DEF Spread
<1>3. CASE UNCHANGED vars
  <2>1. UNCHANGED <<args, own, xzone, phase, done>>
    BY <1>3 DEF vars, land, loops
  <2>2. ZonesKept' /\ AllApart'
    BY <2>1, ZonesSame DEF Spread, ZonesKept, AllApart
  <2> QED
    BY <1>1, <2>2 DEF Spread
<1> QED
  BY <1>2, <1>3

-----------------------------------------------------------------------------
(* Spheres of influence. *)

LEMMA ShoreDistIs ==
    ASSUME Typed, Progress, args \in Arguments, ValidateArgs(args),
           phase \in Running \ {"drift", "continents"}, NEW c \in Continents, NEW s \in Sectors
    PROVE  /\ ShoreDist(s, c) \in Nat
           /\ \E u \in SectorsOf(c) : u \in Sectors /\ ShoreDist(s, c) = MapDist(s, u)
           /\ \A u \in SectorsOf(c) : ShoreDist(s, c) <= MapDist(s, u)
<1> DEFINE far == {MapDist(s, u) : u \in SectorsOf(c)}
<1>1. c \in Islands /\ Len(sect[c]) = args.sc /\ args.sc \in Nat /\ args.sc >= 2
  BY Phases, IslandNumbers, Command DEF Progress, ContinentSizes
<1>2. SectorsOf(c) \subseteq Sectors /\ sect[c][1] \in SectorsOf(c)
  <2>1. 1 \in 1..Len(sect[c])
    BY <1>1
  <2> QED
    BY <1>1, <2>1, ListedSectors DEF Typed
<1>3. \A u \in SectorsOf(c) : MapDist(s, u) \in Nat
  BY <1>2, Distances
<1>4. far \subseteq Nat /\ far # {}
  BY <1>2, <1>3
<1>5. ShoreDist(s, c) = Min(far)
  BY DEF ShoreDist
<1>6. \A u \in SectorsOf(c) : MapDist(s, u) \in far
  OBVIOUS
<1>7. \A x \in far : \E u \in SectorsOf(c) : x = MapDist(s, u)
  OBVIOUS
<1> HIDE DEF far
<1>8. Min(far) \in far /\ \A y \in far : Min(far) <= y
  BY <1>4, LeastExists
<1> QED
  BY <1>2, <1>3, <1>4, <1>5, <1>6, <1>7, <1>8

\* The land that is nearest to a sector of the sea is on the coast.
LEMMA NearestIsCoastal ==
    ASSUME Typed, Mapped, NEW o \in Sectors, own[o] = Sea, NEW u \in Sectors, own[u] # Sea,
           \A s \in Sectors : own[s] # Sea => MapDist(o, u) <= MapDist(o, s)
    PROVE  IsCoastal(u)
<1>1. PICK v \in Around(u) : v \in Sectors /\ MapDist(v, o) = MapDist(u, o) - 1
  BY NearerNeighbour
<1>2. MapDist(v, o) = MapDist(o, v) /\ MapDist(u, o) = MapDist(o, u) /\ MapDist(o, u) \in Nat
      /\ MapDist(o, v) \in Nat
  BY <1>1, Distances
<1>3. own[v] = Sea
  BY <1>1, <1>2
<1>4. PICK d \in Directions : v = Step(u, d)
  BY <1>1, Neighbours
<1>5. d \notin adjLand[u]
  BY <1>3, <1>4 DEF Mapped, IsLand
<1> QED
  BY <1>4, <1>5 DEF IsCoastal

\* How far the continents are from a sector of the sea, when the search is over.
LEMMA ShoreOfClaimants ==
    ASSUME Typed, Mapped, Progress, args \in Arguments, ValidateArgs(args), Reach,
           phase = "spheres", bfs = << >>, NEW o \in Sectors, own[o] = Sea
    PROVE  /\ \A b \in Continents : /\ ShoreDist(o, b) \in Nat /\ ShoreDist(o, b) >= distance[o]
                                    /\ b \in Claimants(o) <=> ShoreDist(o, b) = distance[o]
           /\ distance[o] < Far /\ distance[o] \in Nat
           /\ \E b \in Continents : b \in Claimants(o)
<1>1. phase \in Running \ {"drift", "continents"} /\ phase \in Running \ {"islands"}
  BY Phases
<1>2. \A q \in Sectors : own[q] # Sea => own[q] \in Continents
  BY <1>1, LandSoFar
<1>3. Continents \subseteq Islands /\ Sea \notin Continents /\ 0 \in Continents
  BY IslandNumbers, Command DEF Continents, Sea
<1>4. \A s : s \in Sources <=> s \in Sectors /\ own[s] \in Continents /\ IsCoastal(s)
  BY <1>3, CoastOf DEF Sources
<1>5. \A u \in Sources : distance[o] <= MapDist(o, u)
  BY SearchIsOver
<1>6. \A b \in Continents : \A u \in SectorsOf(b) : u \in Sectors /\ own[u] = b
  <2> SUFFICES ASSUME NEW b \in Continents, NEW u \in SectorsOf(b)
               PROVE  u \in Sectors /\ own[u] = b
    OBVIOUS
  <2>1. b \in Islands
    BY <1>3
  <2>2. PICK k \in 1..Len(sect[b]) : sect[b][k] = u
    BY <2>1, ListedSectors DEF Typed
  <2> QED
    BY <2>1, <2>2, ListedSectors DEF Typed, Mapped
<1>7. \A u \in Sectors : own[u] \in Continents => u \in SectorsOf(own[u])
  BY <1>3 DEF Mapped, IsLand
<1>8. \A s \in Sectors : MapDist(o, s) \in Nat /\ MapDist(o, s) < Far
  BY Distances
<1>9. PICK n \in Sectors : own[n] # Sea /\ \A s \in Sectors : own[s] # Sea => MapDist(o, n) <= MapDist(o, s)
  <2> DEFINE L == {s \in Sectors : own[s] # Sea}
             far == {MapDist(o, s) : s \in L}
  <2>1. PICK u \in SectorsOf(0) : u \in Sectors
    BY <1>1, <1>3, ShoreDistIs
  <2>2. u \in L
    BY <1>3, <1>6, <2>1
  <2>3. far \subseteq Nat /\ far # {}
    BY <1>8, <2>2
  <2>4. \A x \in far : \E s \in L : x = MapDist(o, s)
    OBVIOUS
  <2>5. \A s \in L : MapDist(o, s) \in far
    OBVIOUS
  <2> HIDE DEF far
  <2>6. Min(far) \in far /\ \A y \in far : Min(far) <= y
    BY <2>3, LeastExists
  <2>7. PICK s \in L : Min(far) = MapDist(o, s)
    BY <2>4, <2>6
  <2> QED
    BY <2>5, <2>6, <2>7
<1>10. n \in Sources
  BY <1>2, <1>4, <1>9, NearestIsCoastal
<1>11. distance[o] \in Nat /\ distance[o] < Far /\ distance[o] <= MapDist(o, n)
  <2>1. distance[o] \in 0..Far /\ Far \in Nat
    BY FarIs DEF Typed
  <2> QED
    BY <1>5, <1>8, <1>10, <2>1
<1>12. PICK u \in Sources : MapDist(o, u) = distance[o]
  <2>1. PICK u \in Sources : MapDist(o, u) <= distance[o]
    BY <1>11 DEF Reach
  <2> QED
    BY <1>4, <1>5, <1>8, <1>11, <2>1
<1>13. MapDist(o, n) = distance[o]
  BY <1>4, <1>3, <1>8, <1>9, <1>11, <1>12
<1>14. ASSUME NEW b \in Continents
       PROVE  /\ ShoreDist(o, b) \in Nat /\ ShoreDist(o, b) >= distance[o]
              /\ b \in Claimants(o) <=> ShoreDist(o, b) = distance[o]
  <2>1. /\ ShoreDist(o, b) \in Nat
        /\ \A s \in SectorsOf(b) : ShoreDist(o, b) <= MapDist(o, s)
    BY <1>1, ShoreDistIs
  <2>2. PICK s \in SectorsOf(b) : s \in Sectors /\ ShoreDist(o, b) = MapDist(o, s)
    BY <1>1, ShoreDistIs
  <2>3. own[s] = b /\ own[s] # Sea
    BY <1>3, <1>6, <2>2
  <2>4. ShoreDist(o, b) >= distance[o]
    BY <1>8, <1>9, <1>13, <2>2, <2>3
  <2>5. ASSUME b \in Claimants(o) PROVE ShoreDist(o, b) = distance[o]
    <3>1. PICK v \in Sources : own[v] = b /\ MapDist(o, v) = distance[o]
      BY <2>5 DEF Claimants
    <3>2. v \in SectorsOf(b)
      BY <1>4, <1>7, <3>1
    <3> QED
      BY <1>11, <2>1, <2>4, <3>1, <3>2
  <2>6. ASSUME ShoreDist(o, b) = distance[o] PROVE b \in Claimants(o)
    <3>1. \A q \in Sectors : own[q] # Sea => MapDist(o, s) <= MapDist(o, q)
      BY <1>8, <1>9, <1>13, <2>2, <2>6
    <3>2. IsCoastal(s)
      BY <2>2, <2>3, <3>1, NearestIsCoastal
    <3> QED
      BY <1>4, <2>2, <2>3, <2>6, <3>2 DEF Claimants
  <2> QED
    BY <2>1, <2>4, <2>5, <2>6
<1>15. own[u] \in Continents /\ own[u] \in Claimants(o)
  BY <1>4, <1>12 DEF Claimants
<1> QED
  BY <1>11, <1>14, <1>15

\* Who alone is nearest is whom the search has found.
LEMMA AloneIsClosest ==
    ASSUME Typed, Mapped, Progress, args \in Arguments, ValidateArgs(args), Reach, Claims,
           phase = "spheres", bfs = << >>, NEW o \in Sectors, own[o] = Sea, NEW c \in Continents
    PROVE  Alone(o, c) <=> closest[o] = c
<1>1. /\ \A b \in Continents : /\ ShoreDist(o, b) \in Nat /\ ShoreDist(o, b) >= distance[o]
                               /\ b \in Claimants(o) <=> ShoreDist(o, b) = distance[o]
      /\ distance[o] < Far /\ distance[o] \in Nat
  BY ShoreOfClaimants
<1>2. PICK a \in Continents : a \in Claimants(o)
  BY ShoreOfClaimants
<1>3. /\ closest[o] # -1 => Claimants(o) = {closest[o]}
      /\ closest[o] = -1 => \E b, d \in Claimants(o) : b # d
  BY <1>1, ClaimsExact DEF OneClaims
<1>4. Claimants(o) \subseteq Continents /\ c # -1
  BY DEF Claimants, Continents
<1>5. Alone(o, c) <=> Claimants(o) = {c}
  <2>1. ASSUME Alone(o, c) PROVE Claimants(o) = {c}
    <3>1. \A b \in Continents \ {c} : ShoreDist(o, c) < ShoreDist(o, b)
      BY <2>1 DEF Alone
    <3>2. \A b \in Continents \ {c} : b \notin Claimants(o)
      BY <1>1, <3>1
    <3> QED
      BY <1>2, <1>4, <3>2
  <2>2. ASSUME Claimants(o) = {c} PROVE Alone(o, c)
    <3>1. \A b \in Continents \ {c} : ShoreDist(o, b) # distance[o]
      BY <1>1, <2>2
    <3>2. ShoreDist(o, c) = distance[o]
      BY <1>1, <2>2
    <3> QED
      BY <1>1, <3>1, <3>2 DEF Alone
  <2> QED
    BY <2>1, <2>2
<1> QED
  BY <1>3, <1>4, <1>5

LEMMA AloneKept ==
    ASSUME UNCHANGED args, \A b \in Continents : sect'[b] = sect[b]
    PROVE  /\ Continents' = Continents
           /\ \A s : \A c \in Continents : Alone(s, c)' <=> Alone(s, c)
<1>1. Continents' = Continents
  BY DEF Continents
<1>2. \A s : \A b \in Continents : ShoreDist(s, b)' = ShoreDist(s, b)
  BY DEF ShoreDist, SectorsOf
<1> QED
  BY <1>1, <1>2 DEF Alone

\* Islands grow and are cut back; continents, and what the search has found, stay.
LEMMA SpheresStay ==
    ASSUME SpheresKept, phase \in {"borders", "islands"}, bfs' = << >>,
           UNCHANGED <<args, closest, distance>>, \A b \in Continents : sect'[b] = sect[b],
           \A t \in Sectors : own'[t] \in Continents <=> own[t] \in Continents
    PROVE  SpheresKept'
<1>1. /\ Continents' = Continents
      /\ \A s : \A c \in Continents : Alone(s, c)' <=> Alone(s, c)
  BY AloneKept
<1>2. \A t \in Sectors : \A o \in Around(t) : o \in Sectors
  BY Neighbours
<1>3. ASSUME NEW t \in Sectors, own'[t] \notin Continents, NEW c \in Continents, Alone(t, c)
      PROVE  /\ closest'[t] = c
             /\ \/ distance'[t] <= args.id + 1
                \/ \A o \in Around(t) : own'[o] \notin Continents /\ Alone(o, c)
  BY <1>2, <1>3 DEF SpheresKept
<1>4. phase' = "borders" => \A k \in 1..Len(bfs') : distance'[bfs'[k]] > args.id
  BY DEF SpheresKept
<1> QED
  BY <1>1, <1>3, <1>4 DEF SpheresKept

\* The second search goes on from borders that are as far as islands must be.
LEMMA SpheresBegin ==
    ASSUME Typed, Mapped, Progress, args \in Arguments, ValidateArgs(args), Reach, Claims,
           SearchFromBorders
    PROVE  SpheresKept'
<1>1. /\ phase = "spheres" /\ bfs = << >> /\ phase' = "borders"
      /\ bfs' = InOrder(Border, OffsetOrder)
      /\ distance' = [s \in Sectors |-> IF s \in Border THEN args.id + 1 ELSE distance[s]]
      /\ UNCHANGED <<args, own, sect, closest>>
  BY DEF SearchFromBorders, land
<1>2. /\ Continents' = Continents
      /\ \A s : \A c \in Continents : Alone(s, c)' <=> Alone(s, c)
  BY <1>1, AloneKept
<1>3. /\ \A q \in Sectors : own[q] # Sea => own[q] \in Continents
      /\ args.id \in Nat /\ Continents \subseteq Islands /\ -1 \notin Continents
  BY <1>1, Phases, LandSoFar, Command, IslandNumbers DEF Continents
<1>4. \A k \in 1..Len(bfs') : distance'[bfs'[k]] > args.id
  <2>1. \A k \in 1..Len(bfs') : bfs'[k] \in Border
    BY <1>1, BorderInOrder DEF Lists
  <2>2. \A s \in Border : distance'[s] = args.id + 1
    BY <1>1 DEF Border
  <2> QED
    BY <1>3, <2>1, <2>2
<1>5. ASSUME NEW t \in Sectors, own[t] \notin Continents, NEW c \in Continents, Alone(t, c)
      PROVE  /\ closest[t] = c
             /\ \/ distance'[t] <= args.id + 1
                \/ \A o \in Around(t) : own[o] \notin Continents /\ Alone(o, c)
  <2>1. own[t] = Sea
    BY <1>3, <1>5
  <2>2. closest[t] = c
    BY <1>1, <1>5, <2>1, AloneIsClosest
  <2>3. distance[t] \in Nat
    BY FarIs DEF Typed
  <2>4. CASE t \in Border
    BY <1>1, <1>3, <2>2, <2>4
  <2>5. CASE t \notin Border /\ distance[t] <= args.id + 1
    BY <1>1, <2>2, <2>5
  <2>6. CASE t \notin Border /\ distance[t] > args.id + 1
    <3>1. \A o \in Around(t) : closest[o] = c
      BY <1>3, <2>2, <2>6 DEF Border
    <3>2. ASSUME NEW o \in Around(t)
          PROVE  own[o] \notin Continents /\ Alone(o, c)
      <4>1. o \in Sectors /\ t \in Around(o) /\ MapDist(t, o) = 1
        BY Neighbours
      <4>2. own[o] = Sea
        <5>1. SUFFICES ASSUME own[o] # Sea PROVE FALSE
          OBVIOUS
        <5>2. PICK d \in Directions : t = Step(o, d)
          BY <4>1, Neighbours
        <5>3. d \notin adjLand[o]
          BY <2>1, <4>1, <5>2 DEF Mapped, IsLand
        <5>4. o \in Sources
          BY <1>1, <1>3, <4>1, <5>1, <5>2, <5>3, CoastOf DEF Sources, IsCoastal
        <5>5. distance[t] <= 1
          BY <1>1, <4>1, <5>4, SearchIsOver
        <5> QED
          BY <1>3, <2>3, <2>6, <5>5
      <4>3. Alone(o, c)
        BY <1>1, <3>1, <4>1, <4>2, AloneIsClosest
      <4>4. Sea \notin Continents
        BY <1>3 DEF Sea
      <4> QED
        BY <4>2, <4>3, <4>4
    <3> QED
      BY <2>2, <3>2
  <2>7. distance[t] <= args.id + 1 \/ distance[t] > args.id + 1
    BY <1>3, <2>3
  <2> QED
    BY <2>4, <2>5, <2>6, <2>7
<1> QED
  BY <1>1, <1>2, <1>4, <1>5 DEF SpheresKept

\* It comes to no sector that one continent is nearest to from elsewhere.
LEMMA SpheresSearched ==
    ASSUME Typed, args \in Arguments, ValidateArgs(args), Queue, SpheresKept,
           phase = "borders", Search
    PROVE  SpheresKept'
<1> DEFINE o == Head(bfs)
           d == distance[o]
<1>1. /\ o \in Waiting /\ o \in Sectors /\ d \in 0..Far /\ d < Far
      /\ FoundAt(o) \subseteq Sectors
      /\ Waiting' = (Waiting \ {o}) \cup FoundAt(o)
      /\ \A t : t \in FoundAt(o) <=> t \in Around(o) /\ d + 1 < distance[t]
      /\ distance' = [t \in Sectors |-> IF t \in FoundAt(o) THEN d + 1 ELSE distance[t]]
  BY Waits
<1>2. /\ closest' = [t \in Sectors |-> IF t \in FoundAt(o) THEN closest[o]
                       ELSE IF t \in Around(o) /\ distance[t] = d + 1 /\ closest[t] # closest[o] THEN -1
                       ELSE closest[t]]
      /\ phase' = "borders" /\ UNCHANGED <<args, own, sect>>
  BY DEF Search, land
<1>3. /\ Continents' = Continents
      /\ \A s : \A c \in Continents : Alone(s, c)' <=> Alone(s, c)
  BY <1>2, AloneKept
<1>4. args.id \in Nat /\ \A t \in Sectors : distance[t] \in Nat
  BY Command, FarIs DEF Typed
<1>5. \A t \in Waiting : distance[t] > args.id /\ t \in Sectors
  BY DEF SpheresKept, Waiting, Typed
<1>6. d > args.id
  BY <1>1, <1>5
<1> HIDE DEF o, d
<1>7. \A k \in 1..Len(bfs') : distance'[bfs'[k]] > args.id
  <2>1. \A k \in 1..Len(bfs') : bfs'[k] \in Waiting'
    BY DEF Waiting
  <2>2. \A t \in Waiting' : distance'[t] > args.id
    BY <1>1, <1>4, <1>5, <1>6
  <2> QED
    BY <2>1, <2>2
<1>8. ASSUME NEW t \in Sectors, own[t] \notin Continents, NEW c \in Continents, Alone(t, c)
      PROVE  /\ closest'[t] = c
             /\ \/ distance'[t] <= args.id + 1
                \/ \A p \in Around(t) : own[p] \notin Continents /\ Alone(p, c)
  <2>1. /\ closest[t] = c
        /\ \/ distance[t] <= args.id + 1
           \/ \A p \in Around(t) : own[p] \notin Continents /\ Alone(p, c)
    BY <1>8 DEF SpheresKept
  <2>2. ASSUME t \in Around(o), distance[t] > args.id + 1
        PROVE  closest[o] = c
    <3>1. o \in Around(t)
      BY <1>1, <2>2, Neighbours
    <3>2. own[o] \notin Continents /\ Alone(o, c)
      BY <1>4, <2>1, <2>2, <3>1
    <3> QED
      BY <1>1, <3>2 DEF SpheresKept
  <2>3. CASE t \in FoundAt(o)
    <3>1. t \in Around(o) /\ distance[t] > args.id + 1
      BY <1>1, <1>4, <1>6, <2>3
    <3>2. closest'[t] = c
      BY <1>2, <2>2, <2>3, <3>1
    <3> QED
      BY <1>4, <2>1, <3>1, <3>2
  <2>4. CASE t \notin FoundAt(o)
    <3>1. ~(t \in Around(o) /\ distance[t] = d + 1 /\ closest[t] # closest[o])
      <4>1. distance[t] = d + 1 => distance[t] > args.id + 1
        BY <1>1, <1>4, <1>6
      <4> QED
        BY <2>1, <2>2, <4>1
    <3>2. closest'[t] = c /\ distance'[t] = distance[t]
      BY <1>1, <1>2, <2>1, <2>4, <3>1
    <3> QED
      BY <2>1, <3>2
  <2> QED
    BY <2>3, <2>4
<1> QED
  BY <1>2, <1>3, <1>7, <1>8 DEF SpheresKept

\* An island's new sector: in nobody else's sphere, and no sector of a continent.
LEMMA AddNear ==
    ASSUME Typed, args \in Arguments, ValidateArgs(args), SpheresKept, NearOwn, bfs = << >>,
           phase = "islands", UNCHANGED <<args, phase, search>>,
           NEW c \in Islands, c \notin Continents, NEW s \in Sectors, CanGrowAt(c, s), AddSector(c, s)
    PROVE  SpheresKept' /\ NearOwn'
<1>1. /\ own \in [Sectors -> Islands \cup {Sea}] /\ sect \in [Islands -> Seq(Sectors)]
      /\ own' = [t \in Sectors |-> IF t = s THEN c ELSE own[t]] /\ own[s] = Sea
      /\ \A b \in Islands \ {c} : sect'[b] = sect[b]
      /\ c < args.nc \/ closest[s] = c % args.nc
  BY DEF Typed, AddSector, CanGrowAt
<1>2. /\ Continents \subseteq Islands /\ Sea \notin Continents /\ args.nc \in Nat \ {0} /\ c \in Nat
      /\ c >= args.nc
  BY IslandNumbers, Command DEF Continents, Sea
<1>3. \A b \in Continents : sect'[b] = sect[b]
  BY <1>1, <1>2
<1>4. SpheresKept'
  <2>1. \A t \in Sectors : own'[t] \in Continents <=> own[t] \in Continents
    BY <1>1, <1>2
  <2> QED
    BY <1>3, <2>1, SpheresStay DEF search
<1>5. /\ Continents' = Continents
      /\ \A r : \A b \in Continents : Alone(r, b)' <=> Alone(r, b)
  BY <1>3, AloneKept
<1>6. ASSUME NEW t \in Sectors, own'[t] >= args.nc, NEW b \in Continents \ {own'[t] % args.nc}
      PROVE  ~Alone(t, b)
  <2>1. CASE t = s
    <3>1. closest[s] = c % args.nc /\ own'[t] = c
      BY <1>1, <1>2, <2>1
    <3>2. own[s] \notin Continents
      BY <1>1, <1>2
    <3>3. Alone(s, b) => closest[s] = b
      BY <3>2 DEF SpheresKept
    <3> QED
      BY <1>6, <2>1, <3>1, <3>3
  <2>2. CASE t # s
    <3>1. own'[t] = own[t]
      BY <1>1, <2>2
    <3> QED
      BY <1>6, <3>1, Phases DEF NearOwn
  <2> QED
    BY <2>1, <2>2
<1>7. NearOwn'
  BY <1>5, <1>6 DEF NearOwn
<1> QED
  BY <1>4, <1>7

LEMMA EndGroupNear ==
    ASSUME Typed, Mapped, Progress, args \in Arguments, ValidateArgs(args), SpheresKept, NearOwn,
           bfs = << >>, EndGroup
    PROVE  SpheresKept' /\ NearOwn'
<1> DEFINE popped == {Last(sect[c]) : c \in CutBack}
<1>1. /\ phase = "islands" /\ turn = 0 /\ secs >= 1 /\ phase' = "borders"
      /\ UNCHANGED <<args, search>>
  BY DEF EndGroup
<1>2. /\ own' = [s \in Sectors |-> IF s \in popped THEN Sea ELSE own[s]]
      /\ sect' = [c \in Islands |-> IF c \in CutBack THEN Front(sect[c]) ELSE sect[c]]
  BY EndGroupIs
<1>3. \A c \in CutBack : c >= args.nc /\ own[Last(sect[c])] = c
  BY <1>1, PoppedIs
<1>4. /\ Continents \subseteq Islands /\ Sea \notin Continents /\ args.nc \in Nat \ {0}
      /\ ~(Sea >= args.nc) /\ \A b \in Continents : b \in Nat /\ b < args.nc
  BY IslandNumbers, Command DEF Continents, Sea
<1>5. \A b \in Continents : b \notin CutBack /\ sect'[b] = sect[b]
  <2>1. \A b \in Continents : b \notin CutBack
    BY <1>3, <1>4
  <2> QED
    BY <1>2, <1>4, <2>1
<1>6. \A s \in popped : own[s] \notin Continents
  BY <1>3, <1>5
<1> HIDE DEF popped
<1>7. SpheresKept'
  <2>1. \A t \in Sectors : own'[t] \in Continents <=> own[t] \in Continents
    BY <1>2, <1>4, <1>6
  <2> QED
    BY <1>1, <1>5, <2>1, SpheresStay DEF search
<1>8. /\ Continents' = Continents
      /\ \A r : \A b \in Continents : Alone(r, b)' <=> Alone(r, b)
  BY <1>1, <1>5, AloneKept
<1>9. ASSUME NEW t \in Sectors, own'[t] >= args.nc, NEW b \in Continents \ {own'[t] % args.nc}
      PROVE  ~Alone(t, b)
  <2>1. own'[t] = own[t]
    BY <1>2, <1>4, <1>9
  <2> QED
    BY <1>1, <1>9, <2>1, Phases DEF NearOwn
<1>10. NearOwn'
  BY <1>1, <1>8, <1>9 DEF NearOwn
<1> QED
  BY <1>7, <1>10

\* What changes no land keeps what is known of it.
LEMMA NearSame ==
    ASSUME NearOwn, UNCHANGED <<args, own, sect>>,
           phase \in Running \ {"drift", "continents"}
    PROVE  NearOwn'
<1>1. /\ Continents' = Continents
      /\ \A r : \A b \in Continents : Alone(r, b)' <=> Alone(r, b)
  BY AloneKept
<1> QED
  BY <1>1 DEF NearOwn

LEMMA NearStep ==
    ASSUME Searched, SpheresKept, NearOwn, Next
    PROVE  SpheresKept' /\ NearOwn'
<1>1. CASE phase \notin Running \ {"drift"} \/ phase' \notin Running \ {"drift", "continents"}
  <2>1. phase' \notin Running \ {"drift", "continents"}
    BY <1>1, Phases DEF Next, Refuse, Start, Retry, Settle, DriftCapital, PlaceCapital, GrowContinent,
         ContinentsDone, Search, SearchFromBorders, SizeIslands, StartGroup, PlaceIsland, GrowIsland,
         EndGroup, Raise, Write
  <2> QED
    BY <2>1, Phases DEF SpheresKept, NearOwn
<1>2. CASE phase \in Running \ {"drift"} /\ phase' \in Running \ {"drift", "continents"}
  <2>1. Typed /\ Mapped /\ args \in Arguments /\ ValidateArgs(args) /\ Progress /\ Queue /\ Reach /\ Claims
    BY <1>2, RunningTyped DEF Searched, Land
  <2>2. bfs \in Seq(Sectors) /\ (phase = "islands" => bfs = << >>)
    <3>1. bfs \in Seq(Sectors)
      BY <2>1 DEF Typed
    <3>2. phase = "islands" => Len(bfs) = 0
      <4>1. SUFFICES ASSUME phase = "islands", Len(bfs) # 0 PROVE FALSE
        OBVIOUS
      <4>2. 1 \in 1..Len(bfs)
        BY <3>1, <4>1
      <4> QED
        BY <1>2, <2>1, <4>1, <4>2 DEF Queue
    <3> QED
      BY <3>1, <3>2
  <2>3. CASE ContinentsDone
    <3>1. phase = "continents" /\ phase' = "sizes" /\ UNCHANGED <<args, own>>
      BY <2>3 DEF ContinentsDone, land
    <3>2. \A s \in Sectors : own[s] >= args.nc => FALSE
      <4>1. \A q \in Sectors : own[q] # Sea => own[q] \in Continents
        BY <2>1, <3>1, Phases, LandSoFar
      <4>2. args.nc \in Nat \ {0} /\ \A b \in Continents : b < args.nc
        BY <2>1, Command DEF Continents
      <4>3. ~(Sea >= args.nc)
        BY <4>2 DEF Sea
      <4>4. \A b \in Continents : ~(b >= args.nc)
        BY <4>2 DEF Continents
      <4> QED
        BY <4>1, <4>3, <4>4
    <3> QED
      BY <3>1, <3>2 DEF SpheresKept, NearOwn
  <2>4. CASE SizeIslands \/ Raise \/ Write \/ SearchFromBorders \/ Search \/ StartGroup
    <3>1. UNCHANGED <<args, own, sect>> /\ phase \in Running \ {"drift", "continents"}
      BY <2>4, Phases DEF SizeIslands, Raise, Write, SearchFromBorders, Search, StartGroup, land
    <3>2. NearOwn'
      BY <3>1, NearSame DEF Searched
    <3>3. SpheresKept'
      <4>1. CASE SizeIslands \/ Raise \/ Write
        BY <4>1 DEF SizeIslands, Raise, Write, SpheresKept
      <4>2. CASE SearchFromBorders
        BY <2>1, <4>2, SpheresBegin
      <4>3. CASE Search
        <5>1. CASE phase = "borders"
          BY <2>1, <4>3, <5>1, SpheresSearched
        <5>2. CASE phase # "borders"
          BY <4>3, <5>2 DEF Search, SpheresKept
        <5> QED
          BY <5>1, <5>2
      <4>4. CASE StartGroup
        <5>1. phase' = "coast" \/ (phase' = "islands" /\ UNCHANGED search)
          BY <4>4 DEF StartGroup
        <5>2. phase = "borders" /\ bfs = << >>
          BY <4>4 DEF StartGroup
        <5>3. CASE phase' = "coast"
          BY <5>3 DEF SpheresKept
        <5>4. CASE phase' = "islands" /\ UNCHANGED search
          BY <3>1, <5>2, <5>4, SpheresStay DEF search
        <5> QED
          BY <5>1, <5>3, <5>4
      <4> QED
        BY <2>4, <4>1, <4>2, <4>3, <4>4
    <3> QED
      BY <3>2, <3>3
  <2>5. CASE PlaceIsland \/ GrowIsland
    <3> DEFINE c == FirstIsland + turn
    <3>1. phase = "islands" /\ phase' = "islands" /\ UNCHANGED <<args, search>>
      BY <1>2, <2>5, Phases DEF PlaceIsland, GrowIsland
    <3>2. c \in Islands /\ c \notin Continents
      BY <2>1, <3>1, IslandOfTurn
    <3>3. \/ UNCHANGED land
          \/ \E s \in Sectors : CanGrowAt(c, s) /\ AddSector(c, s)
      <4>1. CASE PlaceIsland
        <5>1. PICK s \in Places(c) : AddSector(c, s)
          BY <3>1, <4>1 DEF PlaceIsland
        <5>2. s \in Sectors /\ CanGrowAt(c, s)
          BY DEF Places
        <5> QED
          BY <5>1, <5>2
      <4>2. CASE GrowIsland
        <5>1. \/ UNCHANGED land
              \/ \E spike \in Spikes : \E t \in Candidates(c, spike) : AddSector(c, t)
          BY <4>2 DEF GrowIsland
        <5>2. ASSUME NEW spike \in Spikes, NEW t \in Candidates(c, spike)
              PROVE  t \in Sectors /\ CanGrowAt(c, t)
          BY <2>1, <3>2, GrowthIs DEF Typed
        <5> HIDE DEF c
        <5> QED
          BY <5>1, <5>2
      <4> QED
        BY <2>5, <4>1, <4>2
    <3> HIDE DEF c
    <3>4. CASE UNCHANGED land
      <4>1. UNCHANGED <<own, sect>>
        BY <3>4 DEF land
      <4>2. NearOwn'
        BY <3>1, <4>1, NearSame, Phases
      <4>3. SpheresKept'
        BY <2>2, <3>1, <4>1, SpheresStay DEF search
      <4> QED
        BY <4>2, <4>3
    <3>5. CASE \E s \in Sectors : CanGrowAt(c, s) /\ AddSector(c, s)
      <4>1. PICK s \in Sectors : CanGrowAt(c, s) /\ AddSector(c, s)
        BY <3>5
      <4> QED
        BY <2>1, <2>2, <3>1, <3>2, <4>1, AddNear
    <3> QED
      BY <3>3, <3>4, <3>5
  <2>6. CASE EndGroup
    <3>1. bfs = << >>
      BY <2>2, <2>6 DEF EndGroup
    <3> QED
      BY <2>1, <2>6, <3>1, EndGroupNear
  <2> QED
    BY <1>2, <2>3, <2>4, <2>5, <2>6, Phases DEF Next, Refuse, Start, Retry, Settle, DriftCapital,
         PlaceCapital, GrowContinent
<1> QED
  BY <1>1, <1>2

Placed == Searched /\ SpheresKept /\ NearOwn

LEMMA PlacedInit == Init => Placed
BY SearchedInit, Phases DEF Init, Placed, SpheresKept, NearOwn

LEMMA PlacedStep == Placed /\ [Next]_vars => Placed'
<1> SUFFICES ASSUME Placed, [Next]_vars
             PROVE  Placed'
  OBVIOUS
<1>1. Searched'
  BY SearchedStep DEF Placed
<1>2. CASE Next
  BY <1>1, <1>2, NearStep DEF Placed
<1>3. CASE UNCHANGED vars
  <2>1. UNCHANGED <<args, own, sect, closest, distance, bfs, phase>>
    BY <1>3 DEF vars, land, search
  <2>2. /\ Continents' = Continents
        /\ \A r : \A b \in Continents : Alone(r, b)' <=> Alone(r, b)
    BY <2>1, AloneKept
  <2>3. SpheresKept' /\ NearOwn'
    BY <2>1, <2>2, Neighbours DEF Placed, SpheresKept, NearOwn
  <2> QED
    BY <1>1, <2>3 DEF Placed
<1> QED
  BY <1>2, <1>3

LEMMA PlacedNear ==
    ASSUME Placed
    PROVE  IslandsNearOwn
<1> SUFFICES ASSUME phase \in Growing \ {"continents"}, NEW s \in Sectors, own[s] >= args.nc,
                    NEW c \in Continents \ {own[s] % args.nc}
             PROVE  \E b \in Continents \ {c} : ShoreDist(s, b) <= ShoreDist(s, c)
  BY DEF IslandsNearOwn
<1>1. phase \in Running \ {"drift", "continents"}
  BY Phases DEF Growing
<1>2. Typed /\ Progress /\ args \in Arguments /\ ValidateArgs(args)
  BY <1>1, RunningTyped DEF Placed, Searched
<1>3. \A b \in Continents : ShoreDist(s, b) \in Nat
  BY <1>1, <1>2, ShoreDistIs
<1>4. ~Alone(s, c)
  BY <1>1 DEF Placed, NearOwn
<1> QED
  BY <1>3, <1>4 DEF Alone

\* The distances of the command line are kept, and no island has a sector where a continent
\* it does not belong to is nearer than all others (xzone, can_grow_at, closest), on whatever
\* map.
THEOREM IslandsArePlaced == Spec => []IslandsPlaced
<1>1. Spread => ContinentsApart
  BY ApartKept DEF Spread
<1>2. Placed => IslandsNearOwn
  BY PlacedNear
<1>3. ContinentsApart /\ IslandsNearOwn => IslandsPlaced
  BY DEF IslandsPlaced
<1> QED
  BY <1>1, <1>2, <1>3, SpreadInit, SpreadStep, PlacedInit, PlacedStep, PTL DEF Spec

-----------------------------------------------------------------------------
(* Elevations: what is raised, and how far. *)

LEMMA MovedOnRing ==
    ASSUME NEW n, Ringlike(n), NEW i \in 0..n - 1, NEW d \in -n..n
    PROVE  Apart(i, (i + d) % n, n) <= IF d < 0 THEN -d ELSE d
<1> DEFINE h == n \div 2
           j == (i + d) % n
<1>1. h \in Nat /\ 2 * h = n /\ n \in Nat \ {0} /\ h >= 2
  BY HalfARing DEF Ringlike
<1>2. j = IF i + d < 0 THEN i + d + n ELSE IF i + d >= n THEN i + d - n ELSE i + d
  BY <1>1, Wrapped
<1>3. Apart(i, j, n) = LET e == IF i > j THEN i - j ELSE j - i
                       IN  IF e > h THEN n - e ELSE e
  BY DEF Apart
<1> HIDE DEF h, j
<1>4. j \in Int /\ d \in Int /\ i \in Int /\ -n <= d /\ d <= n /\ 0 <= i /\ i < n
  BY <1>1, <1>2
<1>5. Apart(i, j, n) <= IF d < 0 THEN -d ELSE d
  BY <1>1, <1>2, <1>3, <1>4
<1> QED
  BY <1>5 DEF j

\* A ring around a sector is as far as its number, at most.
LEMMA SideOfRing ==
    ASSUME NEW d \in Directions, NEW n \in 1..3, NEW k \in 0..n - 1,
           NEW dx, NEW dy, OnSide(n, dx, dy, d, k)
    PROVE  /\ dx \in -6..6 /\ dy \in -3..3 /\ (dx + dy) % 2 = 0
           /\ (IF dy < 0 THEN -dy ELSE dy) <= n
           /\ (IF dx < 0 THEN -dx ELSE dx) + (IF dy < 0 THEN -dy ELSE dy) <= 2 * n
<1>1. dx = n * Corner(d)[1] + k * DirOff[d][1] /\ dy = n * Corner(d)[2] + k * DirOff[d][2]
  BY DEF OnSide
<1>2. n \in Int /\ k \in Int /\ n >= 1 /\ n <= 3 /\ k >= 0 /\ k < n
  OBVIOUS
<1>3. CASE d = 1
  <2>1. dx = n * (-2) + k * 1 /\ dy = n * 0 + k * (-1)
    BY <1>1, <1>3, Corners, Offsets
  <2>2. dx = k - 2 * n /\ dy = -k
    BY <1>2, <2>1
  <2> QED
    BY <1>2, <2>2
<1>4. CASE d = 2
  <2>1. dx = n * (-1) + k * 2 /\ dy = n * (-1) + k * 0
    BY <1>1, <1>4, Corners, Offsets
  <2>2. dx = 2 * k - n /\ dy = -n
    BY <1>2, <2>1
  <2> QED
    BY <1>2, <2>2
<1>5. CASE d = 3
  <2>1. dx = n * 1 + k * 1 /\ dy = n * (-1) + k * 1
    BY <1>1, <1>5, Corners, Offsets
  <2>2. dx = n + k /\ dy = k - n
    BY <1>2, <2>1
  <2> QED
    BY <1>2, <2>2
<1>6. CASE d = 4
  <2>1. dx = n * 2 + k * (-1) /\ dy = n * 0 + k * 1
    BY <1>1, <1>6, Corners, Offsets
  <2>2. dx = 2 * n - k /\ dy = k
    BY <1>2, <2>1
  <2> QED
    BY <1>2, <2>2
<1>7. CASE d = 5
  <2>1. dx = n * 1 + k * (-2) /\ dy = n * 1 + k * 0
    BY <1>1, <1>7, Corners, Offsets
  <2>2. dx = n - 2 * k /\ dy = n
    BY <1>2, <2>1
  <2> QED
    BY <1>2, <2>2
<1>8. CASE d = 6
  <2>1. dx = n * (-1) + k * (-1) /\ dy = n * 1 + k * (-1)
    BY <1>1, <1>8, Corners, Offsets
  <2>2. dx = -n - k /\ dy = n - k
    BY <1>2, <2>1
  <2> QED
    BY <1>2, <2>2
<1> QED
  BY <1>3, <1>4, <1>5, <1>6, <1>7, <1>8, Offsets

LEMMA RingIsNear ==
    ASSUME NEW s \in Sectors, NEW n \in 1..3, NEW w \in Steps(n)
    PROVE  At(s, n, w) \in Sectors /\ MapDist(s, At(s, n, w)) <= n
<1>1. PICK d \in Directions, k \in 0..n - 1 : w = <<d, k>>
  BY DEF Steps
<1> DEFINE dx == n * Corner(d)[1] + k * DirOff[d][1]
           dy == n * Corner(d)[2] + k * DirOff[d][2]
           t == Plus(s, dx, dy)
           ax == IF dx < 0 THEN -dx ELSE dx
           ay == IF dy < 0 THEN -dy ELSE dy
<1>2. At(s, n, w) = t
  BY <1>1 DEF At, Corner
<1>3. OnSide(n, dx, dy, d, k)
  BY DEF OnSide
<1> HIDE DEF dx, dy
<1>4. /\ dx \in -6..6 /\ dy \in -3..3 /\ (dx + dy) % 2 = 0
      /\ ay <= n /\ ax + ay <= 2 * n
  BY <1>3, SideOfRing
<1>5. dx \in -WorldX..WorldX /\ dy \in -WorldY..WorldY /\ WorldX \in Nat /\ WorldY \in Nat
  BY <1>4, WorldAssumption
<1>6. t \in Sectors
  BY <1>4, <1>5, PlusSector
<1>7. s[1] \in 0..WorldX - 1 /\ s[2] \in 0..WorldY - 1
  BY Sector
<1>8. t[1] = (s[1] + dx) % WorldX /\ t[2] = (s[2] + dy) % WorldY
  BY DEF Plus
<1> HIDE DEF t
<1>9. Apart(s[1], t[1], WorldX) <= ax /\ Apart(s[2], t[2], WorldY) <= ay
  BY <1>5, <1>7, <1>8, MovedOnRing, WorldIsARing
<1>10. /\ MapDist(s, t) = Hex(Apart(s[1], t[1], WorldX), Apart(s[2], t[2], WorldY))
       /\ Apart(s[1], t[1], WorldX) \in Nat /\ Apart(s[2], t[2], WorldY) \in Nat
       /\ (Apart(s[1], t[1], WorldX) + Apart(s[2], t[2], WorldY)) % 2 = 0
  BY <1>6, MapDistIs
<1> DEFINE a == Apart(s[1], t[1], WorldX)
           b == Apart(s[2], t[2], WorldY)
<1>11. a \in Nat /\ b \in Nat /\ (a + b) % 2 = 0 /\ a <= ax /\ b <= ay /\ MapDist(s, t) = Hex(a, b)
  BY <1>9, <1>10
<1>12. ax \in Nat /\ ay \in Nat
  BY <1>4
<1> HIDE DEF a, b, ax, ay
<1>13. Hex(a, b) \in Nat /\ (Hex(a, b) = b \/ 2 * Hex(a, b) = a + b)
  BY <1>11, HexIs
<1>14. Hex(a, b) <= n
  BY <1>4, <1>11, <1>12, <1>13
<1> QED
  BY <1>2, <1>6, <1>11, <1>14

LEMMA RadiiAre ==
    ASSUME distance \in [Sectors -> 0..Far], NEW s \in Sectors, own[s] # Sea, NEW r \in Radii(s)
    PROVE  r \in 1..4 /\ r <= distance[s] + 1
<1>1. distance[s] \in Nat /\ Far \in Nat /\ Far > 0
  BY FarIs
<1>2. CASE distance[s] = Far
  BY <1>1, <1>2 DEF Radii
<1>3. CASE distance[s] # Far
  <2>1. r \in 1..Min({3, distance[s]}) + 1
    BY <1>3 DEF Radii
  <2>2. Min({3, distance[s]}) \in {3, distance[s]} /\ Min({3, distance[s]}) <= 3
        /\ Min({3, distance[s]}) <= distance[s]
    BY <1>1, MinOfTwo
  <2> DEFINE m == Min({3, distance[s]})
  <2>3. m \in Nat /\ m <= 3 /\ m <= distance[s] /\ r \in 1..m + 1
    BY <1>1, <2>1, <2>2
  <2> HIDE DEF m
  <2> QED
    BY <1>1, <2>3
<1> QED
  BY <1>2, <1>3

\* What is farther than the radius keeps its height.
LEMMA RaisesNear ==
    ASSUME elev \in [Sectors -> Int], NEW s \in Sectors, NEW r \in 1..4, NEW t \in Sectors,
           MapDist(s, t) >= r
    PROVE  Raised(s, r)[t] = elev[t]
<1> DEFINE Hits(d) == Cardinality({w \in Steps(d) : At(s, d, w) = t})
           f == [d \in 1..r - 1 |-> Hits(d) * (r * r - d * d)]
           delta == (IF t = s THEN r * r ELSE 0) + SumFunctionOnSet(f, 1..r - 1)
<1>1. MapDist(s, t) \in Nat /\ t # s
  BY Distances
<1>2. ASSUME NEW d \in 1..r - 1
      PROVE  f[d] = 0
  <2>1. d \in 1..3 /\ d < r
    OBVIOUS
  <2>2. \A w \in Steps(d) : At(s, d, w) # t
    BY <1>1, <2>1, RingIsNear
  <2>3. {w \in Steps(d) : At(s, d, w) = t} = {}
    BY <2>2
  <2>4. Hits(d) = 0
    BY <2>3, FS_EmptySet
  <2>5. r * r - d * d \in Int
    BY <2>1
  <2>6. f[d] = Hits(d) * (r * r - d * d)
    OBVIOUS
  <2> HIDE DEF Hits, f
  <2> QED
    BY <2>4, <2>5, <2>6
<1>3. IsFiniteSet(1..r - 1)
  <2>1. r - 1 \in Nat
    OBVIOUS
  <2> QED
    BY <2>1, UpTo
<1>4. Raised(s, r)[t] = elev[t] + (IF own[s] = Sea THEN -1 ELSE 1) * delta
  BY DEF Raised
<1> HIDE DEF f
<1>5. SumFunctionOnSet(f, 1..r - 1) = 0 * Cardinality(1..r - 1)
  BY <1>2, <1>3, SumConstant
<1>6. Cardinality(1..r - 1) \in Nat
  BY <1>3, FS_CardinalityType
<1>7. delta = 0
  BY <1>1, <1>5, <1>6
<1> HIDE DEF delta
<1> QED
  BY <1>4, <1>7

\* The sea is farther from a sector of land than the coast.
LEMMA SeaBeyondCoast ==
    ASSUME Typed, Mapped, args \in Arguments, ValidateArgs(args), Reach,
           phase = "coast", bfs = << >>, NEW s \in Sectors, own[s] # Sea,
           NEW t \in Sectors, own[t] = Sea
    PROVE  MapDist(s, t) > distance[s]
<1> DEFINE W == {o \in Sectors : own[o] = Sea}
           far == {MapDist(s, o) : o \in W}
<1>1. \A o \in W : MapDist(s, o) \in Nat /\ MapDist(s, o) \in far
  BY Distances
<1>2. far \subseteq Nat /\ far # {}
  BY <1>1
<1>3. \A x \in far : \E o \in W : x = MapDist(s, o)
  OBVIOUS
<1> HIDE DEF far
<1>4. Min(far) \in far /\ \A y \in far : Min(far) <= y
  BY <1>2, LeastExists
<1>5. PICK o \in W : \A p \in W : MapDist(s, o) <= MapDist(s, p)
  BY <1>1, <1>3, <1>4
<1>6. PICK v \in Around(o) : v \in Sectors /\ MapDist(v, s) = MapDist(o, s) - 1
  BY <1>5, NearerNeighbour
<1>7. MapDist(v, s) = MapDist(s, v) /\ MapDist(o, s) = MapDist(s, o)
      /\ MapDist(s, v) \in Nat /\ MapDist(s, o) \in Nat /\ MapDist(s, t) \in Nat
  BY <1>6, Distances
<1>8. own[v] # Sea
  BY <1>5, <1>6, <1>7
<1>9. o \in Around(v)
  BY <1>6, Neighbours
<1>10. PICK d \in Directions : o = Step(v, d)
  BY <1>6, <1>9, Neighbours
<1>11. d \notin adjLand[v]
  BY <1>6, <1>10 DEF Mapped, IsLand
<1>12. v \in Sources
  <2>1. own[v] \in Islands
    BY <1>6, <1>8 DEF Typed
  <2>2. IsCoastal(v)
    BY <1>10, <1>11 DEF IsCoastal
  <2>3. Sources = Coast(Islands)
    BY DEF Sources
  <2> QED
    BY <1>6, <2>1, <2>2, <2>3, CoastOf
<1>13. distance[s] <= MapDist(s, v) /\ distance[s] \in Nat
  <2>1. \A p \in Sectors : distance[p] <= MapDist(p, v)
    BY <1>12, SearchIsOver
  <2>2. distance[s] \in Nat
    BY FarIs DEF Typed
  <2> QED
    BY <2>1, <2>2
<1>14. MapDist(s, o) <= MapDist(s, t)
  BY <1>5
<1> QED
  BY <1>6, <1>7, <1>13, <1>14

\* Only land is raised, before the coast is known nothing is, and what is stored is
\* what was computed.
Heights ==
    /\ phase \in Running => odd <= 0
    /\ phase \in Running \ {"coast", "written"} => \A s \in Sectors : elev[s] <= 0
    /\ phase \in {"coast", "written"} => \A s \in Sectors : own[s] = Sea => elev[s] <= 0
    /\ stored # << >> => phase = "written" /\ stored = [s \in Sectors |-> BuildSector(s)]

LEMMA BuildKept ==
    ASSUME UNCHANGED <<args, own, adjLand, sect, elev, odd>>
    PROVE  \A s \in Sectors : BuildSector(s)' = BuildSector(s)
<1> SUFFICES ASSUME NEW s \in Sectors
             PROVE  BuildSector(s)' = BuildSector(s)
  OBVIOUS
<1>1. args' = args /\ own' = own /\ adjLand' = adjLand /\ sect' = sect /\ elev' = elev /\ odd' = odd
  OBVIOUS
<1>2. SeaHeight(elev[s])' = SeaHeight(elev[s])
  BY <1>1 DEF SeaHeight
<1>3. LandHeight(s)' = LandHeight(s)
  BY <1>1 DEF LandHeight, Mountains, Plateau
<1>4. Height(s)' = Height(s)
  BY <1>1, <1>2, <1>3 DEF Height
<1>5. IsCoastal(s)' = IsCoastal(s)
  BY <1>1 DEF IsCoastal
<1> QED
  BY <1>1, <1>4, <1>5 DEF BuildSector

LEMMA RaiseHeights ==
    ASSUME Typed, Mapped, args \in Arguments, ValidateArgs(args), Reach, Heights, Raise
    PROVE  Heights'
<1>1. /\ phase = "coast" /\ phase' = "coast" /\ bfs = << >>
      /\ UNCHANGED <<own, stored>>
  BY DEF Raise, land
<1>2. \/ odd' = odd /\ \E s \in Sectors : \E r \in Radii(s) : elev' = Raised(s, r)
      \/ odd' = odd - 1 /\ elev' = elev
  BY DEF Raise
<1>3. /\ elev \in [Sectors -> Int] /\ distance \in [Sectors -> 0..Far] /\ odd \in Int
      /\ odd <= 0 /\ \A s \in Sectors : own[s] = Sea => elev[s] <= 0
      /\ stored = << >>
  BY <1>1, Phases DEF Typed, Heights
<1>4. odd' <= 0
  BY <1>2, <1>3
<1>5. ASSUME NEW t \in Sectors, own[t] = Sea
      PROVE  elev'[t] <= 0
  <2>1. CASE elev' = elev
    BY <1>3, <1>5, <2>1
  <2>2. CASE \E s \in Sectors : \E r \in Radii(s) : elev' = Raised(s, r)
    <3>1. PICK s \in Sectors : \E r \in Radii(s) : elev' = Raised(s, r)
      BY <2>2
    <3>2. PICK r \in Radii(s) : elev' = Raised(s, r)
      BY <3>1
    <3>3. CASE own[s] = Sea
      <4>1. Raised(s, r)[t] <= elev[t] /\ Raised(s, r) \in [Sectors -> Int]
        BY <1>3, <3>3, RaisedIs
      <4> QED
        BY <1>3, <1>5, <3>2, <4>1
    <3>4. CASE own[s] # Sea
      <4>1. r \in 1..4 /\ r <= distance[s] + 1
        BY <1>3, <3>4, RadiiAre
      <4>2. MapDist(s, t) > distance[s] /\ MapDist(s, t) \in Nat /\ distance[s] \in Nat
        BY <1>1, <1>3, <1>5, <3>4, SeaBeyondCoast, Distances, FarIs
      <4>3. MapDist(s, t) >= r
        BY <4>1, <4>2
      <4>4. Raised(s, r)[t] = elev[t]
        BY <1>3, <4>1, <4>3, RaisesNear
      <4> QED
        BY <1>3, <1>5, <3>2, <4>4
    <3> QED
      BY <3>3, <3>4
  <2> QED
    BY <1>2, <2>1, <2>2
<1> QED
  BY <1>1, <1>3, <1>4, <1>5, Phases DEF Heights

LEMMA HeightsStep ==
    ASSUME Searched, Heights, Next
    PROVE  Heights'
<1>1. CASE Raise
  <2>1. Typed /\ Mapped /\ args \in Arguments /\ ValidateArgs(args) /\ Reach
    BY <1>1, RunningTyped, Phases DEF Searched, Land, Raise
  <2> QED
    BY <1>1, <2>1, RaiseHeights
<1>2. CASE Write
  <2>1. /\ phase = "coast" /\ phase' = "written" /\ stored' = [s \in Sectors |-> BuildSector(s)]
        /\ UNCHANGED <<args, own, adjLand, sect, elev, odd>>
    BY <1>2 DEF Write, land, heights
  <2>2. stored' = [s \in Sectors |-> BuildSector(s)']
    BY <2>1, BuildKept
  <2>3. odd' <= 0 /\ \A s \in Sectors : own'[s] = Sea => elev'[s] <= 0
    BY <2>1, Phases DEF Heights
  <2> QED
    BY <2>1, <2>2, <2>3, Phases DEF Heights
<1>3. CASE Start \/ Retry
  <2>1. stored = << >> /\ stored' = << >>
    BY <1>3 DEF Start, Retry, Heights
  <2>2. CASE Blank(args) /\ phase' = "drift"
    BY <2>1, <2>2, Phases DEF Blank, Heights
  <2>3. CASE ~(Blank(args) /\ phase' = "drift")
    BY <1>3, <2>1, <2>3, Phases DEF Start, Retry, Heights
  <2> QED
    BY <2>2, <2>3
<1>4. CASE Refuse
  BY <1>4, Phases DEF Refuse, Heights
<1>5. CASE Search \/ SizeIslands \/ StartGroup
  <2>1. /\ UNCHANGED <<own, elev, odd, stored>>
        /\ phase \in Running \ {"written"} /\ phase' \in Running \ {"written"}
        /\ phase = "coast" => phase' = "coast"
    BY <1>5, Phases DEF Search, SizeIslands, StartGroup, land, heights
  <2> QED
    BY <2>1, Phases DEF Heights
<1>6. CASE Settle \/ DriftCapital \/ PlaceCapital \/ GrowContinent \/ ContinentsDone \/ SearchFromBorders
           \/ PlaceIsland \/ GrowIsland \/ EndGroup
  <2>1. /\ UNCHANGED <<elev, odd, stored>> /\ phase \in Running \ {"coast", "written"}
        /\ phase' \notin {"coast", "written"}
    BY <1>6, Phases DEF Settle, DriftCapital, PlaceCapital, GrowContinent, ContinentsDone,
         SearchFromBorders, PlaceIsland, GrowIsland, EndGroup, heights
  <2> QED
    BY <2>1, Phases DEF Heights
<1> QED
  BY <1>1, <1>2, <1>3, <1>4, <1>5, <1>6 DEF Next

LEMMA HeightsInit == Init => Heights
BY Phases DEF Init, Heights

-----------------------------------------------------------------------------
(* How high the sectors become. *)

\* A quotient lies where the dividend does.
LEMMA QuotientIn ==
    ASSUME NEW n \in Nat \ {0}, NEW a \in Int, NEW lo \in Int, NEW hi \in Int,
           lo * n <= a, a < (hi + 1) * n
    PROVE  a \div n \in lo..hi
<1> DEFINE p == a \div n
           r == a % n
<1>1. a = n * p + r /\ 0 <= r /\ r < n /\ p \in Int /\ r \in Int
  OBVIOUS
<1> HIDE DEF p, r
<1>2. lo <= p
  <2> SUFFICES ASSUME p + 1 <= lo
               PROVE  FALSE
    BY <1>1
  <2>1. n * (p + 1) <= n * lo /\ n * (p + 1) = n * p + n /\ n * lo = lo * n
    BY <1>1
  <2>2. n * p \in Int /\ lo * n \in Int
    BY <1>1
  <2> QED
    BY <1>1, <2>1, <2>2
<1>3. p <= hi
  <2> SUFFICES ASSUME hi + 1 <= p
               PROVE  FALSE
    BY <1>1
  <2>1. n * (hi + 1) <= n * p /\ n * (hi + 1) = (hi + 1) * n
    BY <1>1
  <2>2. n * p \in Int /\ (hi + 1) * n \in Int
    BY <1>1
  <2> QED
    BY <1>1, <2>1, <2>2
<1> QED
  BY <1>1, <1>2, <1>3 DEF p

\* The sea stays below the land, and no deeper than 127.
LEMMA SeaRange ==
    ASSUME elev \in [Sectors -> Int], odd \in Int, NEW s \in Sectors, elev[s] <= 0
    PROVE  SeaHeight(elev[s]) \in -127..0
<1> DEFINE T == {elev[t] : t \in Sectors}
           E == {odd} \cup T
           m == Min(E)
           e == elev[s]
<1>1. E \subseteq Int /\ e \in E /\ e \in Int
  OBVIOUS
<1>2. IsFiniteSet(E)
  <2> DEFINE U == Sectors
  <2>1. elev \in Surjection(U, T)
    BY DEF Surjection
  <2>2. IsFiniteSet(U)
    BY SectorsFinite
  <2> HIDE DEF U, T
  <2>3. IsFiniteSet(T)
    BY <2>1, <2>2, FS_Surjection
  <2>4. IsFiniteSet(T \cup {odd})
    BY <2>3, FS_AddElement
  <2>5. E = T \cup {odd}
    OBVIOUS
  <2> QED
    BY <2>4, <2>5
<1>3. m \in Int /\ m <= e
  <2> HIDE DEF E
  <2>1. E # {}
    BY <1>1
  <2>2. m \in E /\ \A y \in E : m <= y
    BY <1>1, <1>2, <2>1, LeastOfFinite
  <2> QED
    BY <1>1, <2>2
<1>4. CASE e = 0
  <2>1. SeaHeight(e) = e
    BY <1>4 DEF SeaHeight
  <2> QED
    BY <1>4, <2>1
<1>5. CASE e < 0
  <2>1. SeaHeight(e) = -1 - ((126 * (-e)) \div (-m))
    BY <1>5 DEF SeaHeight
  <2> HIDE DEF m, e
  <2> DEFINE n == -m
             a == 126 * (-e)
  <2>2. n \in Nat \ {0} /\ a \in Int /\ 0 * n <= a /\ a < (126 + 1) * n
    BY <1>1, <1>3, <1>5
  <2>3. 0 \in Int /\ 126 \in Int
    OBVIOUS
  <2> HIDE DEF n, a
  <2>4. a \div n \in 0..126
    BY <2>2, <2>3, QuotientIn
  <2>5. -1 - (a \div n) \in -127..0
    BY <2>4
  <2> QED
    BY <2>1, <2>5 DEF n, a, e
<1> QED
  BY <1>1, <1>4, <1>5

-----------------------------------------------------------------------------
(* The heights of land go by rank, and by the size of its island. *)

Slopes(c) == {sect[c][k] : k \in Plateau(c) + 1..Len(sect[c])}
Lower == {p \in Sectors \X Sectors : \/ elev[p[1]] < elev[p[2]]
                                     \/ elev[p[1]] = elev[p[2]] /\ Before(p[1], p[2])}
SlopeRank(s) == RankIn(Slopes(own[s]), Lower, s)
Hills(c) == Max({0, Cardinality(Slopes(c)) - Mountains(Len(sect[c]))})
Peaks == Max({1, Mountains(Max({args.sc, args.is * 2}))})
Risen(hills, rank) ==
    IF rank < hills
    THEN (3 * hills + 2 * rank * (HighMin - LandMin - 1)) \div (2 * hills)
    ELSE ((2 * HighMin + 1) * Peaks + 2 * (rank - hills + 1) * (127 - HighMin)) \div (2 * Peaks)

LEMMA SlopesAre ==
    ASSUME Typed, NEW c \in Islands
    PROVE  /\ Len(sect[c]) \in Nat /\ Plateau(c) \in 0..2
           /\ \A k \in Plateau(c) + 1..Len(sect[c]) : k \in 1..Len(sect[c]) /\ sect[c][k] \in Sectors
           /\ Slopes(c) \subseteq Sectors
<1>1. /\ Len(sect[c]) \in Nat
      /\ \A k \in 1..Len(sect[c]) : sect[c][k] \in Sectors
  BY ListedSectors DEF Typed
<1>2. Plateau(c) \in 0..2
  BY DEF Plateau
<1> QED
  BY <1>1, <1>2 DEF Slopes

LEMMA LandHeightIs ==
    ASSUME Typed, NEW s \in Sectors, own[s] \in Islands
    PROVE  LandHeight(s) = IF s \in Slopes(own[s]) THEN Risen(Hills(own[s]), SlopeRank(s)) ELSE PlatMin
<1> DEFINE c == own[s]
           slopes == {sect[c][k] : k \in Plateau(c) + 1..Len(sect[c])}
           Under(t) == elev[t] < elev[s] \/ (elev[t] = elev[s] /\ Before(t, s))
           rank == Cardinality({t \in slopes : Under(t)})
<1>1. slopes = Slopes(c) /\ Slopes(c) \subseteq Sectors
  BY SlopesAre DEF Slopes
<1>2. {t \in slopes : Under(t)} = {t \in Slopes(c) : <<t, s>> \in Lower}
  <2>1. \A t \in Slopes(c) : Under(t) <=> <<t, s>> \in Lower
    <3> SUFFICES ASSUME NEW t \in Slopes(c)
                 PROVE  Under(t) <=> <<t, s>> \in Lower
      OBVIOUS
    <3>1. t \in Sectors
      BY <1>1
    <3> QED
      BY <3>1 DEF Lower
  <2> QED
    BY <1>1, <2>1
<1>3. rank = SlopeRank(s)
  BY <1>2 DEF SlopeRank, RankIn
<1>4. LandHeight(s) = IF s \notin slopes THEN PlatMin ELSE Risen(Hills(c), rank)
  BY <1>1 DEF LandHeight, Risen, Hills, Peaks
<1> QED
  BY <1>1, <1>3, <1>4

LEMMA LowerOrders ==
    ASSUME Typed, NEW S, S \subseteq Sectors
    PROVE  IsFiniteSet(S) /\ Orders(Lower, S)
<1>1. IsFiniteSet(S)
  BY SectorsFinite, FS_Subset
<1>2. \A s, t \in Sectors : <<s, t>> \in Lower <=> elev[s] < elev[t] \/ (elev[s] = elev[t] /\ Before(s, t))
  BY DEF Lower
<1>3. \A s \in S : /\ s \in Sectors /\ s = <<s[1], s[2]>> /\ s[1] \in Int /\ s[2] \in Int
                   /\ elev[s] \in Int
  BY Sector DEF Typed
<1>4. \A s \in S : <<s, s>> \notin Lower
  BY <1>2, <1>3 DEF Before
<1>5. \A s, t \in S : s # t => <<s, t>> \in Lower \/ <<t, s>> \in Lower
  BY <1>2, <1>3 DEF Before
<1>6. \A s, t, u \in S : <<s, t>> \in Lower /\ <<t, u>> \in Lower => <<s, u>> \in Lower
  BY <1>2, <1>3 DEF Before
<1> QED
  BY <1>1, <1>4, <1>5, <1>6 DEF Orders

\* More sectors, at least as many mountains.
LEMMA MountainsAre ==
    ASSUME args \in Arguments, ValidateArgs(args), NEW m \in Nat, NEW n \in Nat, m <= n
    PROVE  Mountains(m) \in 0..m /\ Mountains(n) \in Nat /\ Mountains(m) <= Mountains(n)
<1>1. args.pm \in 0..100
  BY Command
<1> DEFINE a == args.pm * m
           b == args.pm * n
<1>2. a \in Int /\ b \in Int /\ 0 <= a /\ a <= 100 * m /\ a <= b /\ 0 <= b /\ b <= 100 * n
  <2> DEFINE p == args.pm
  <2>1. p \in 0..100
    BY <1>1
  <2> HIDE DEF p
  <2>2. p * m <= 100 * m /\ 0 <= p * m /\ p * n <= 100 * n /\ 0 <= p * n /\ p * m <= p * n
    BY <2>1
  <2>3. p * m \in Int /\ p * n \in Int
    BY <2>1
  <2> QED
    BY <2>2, <2>3 DEF p
<1>3. Mountains(m) = a \div 100 /\ Mountains(n) = b \div 100
  BY DEF Mountains
<1> HIDE DEF a, b
<1> QED
  BY <1>2, <1>3

\* Hills stay below mountains, all are above the sea, and none higher than 127.
LEMMA RisenIs ==
    ASSUME NEW hills \in Nat, NEW rank \in Nat, Peaks \in Nat \ {0}, rank - hills + 1 <= Peaks
    PROVE  /\ rank < hills => Risen(hills, rank) \in 1..HighMin - 1
           /\ rank >= hills => Risen(hills, rank) \in HighMin..127
<1>1. ASSUME rank < hills
      PROVE  Risen(hills, rank) \in 1..97
  <2> DEFINE n == 2 * hills
             a == 3 * hills + 2 * rank * 96
  <2>1. n \in Nat \ {0} /\ a \in Int /\ 1 * n <= a /\ a < (97 + 1) * n
    BY <1>1
  <2>2. 1 \in Int /\ 97 \in Int
    OBVIOUS
  <2>3. Risen(hills, rank) = a \div n
    BY <1>1 DEF Risen, HighMin, LandMin
  <2> HIDE DEF n, a
  <2> QED
    BY <2>1, <2>2, <2>3, QuotientIn
<1>2. ASSUME rank >= hills
      PROVE  Risen(hills, rank) \in 98..127
  <2> DEFINE m == Peaks
             k == rank - hills + 1
             n == 2 * m
             a == 197 * m + 2 * k * 29
  <2>1. m \in Nat \ {0} /\ k \in 1..m
    BY <1>2
  <2>2. Risen(hills, rank) = a \div n
    BY <1>2 DEF Risen, HighMin
  <2> HIDE DEF m, k
  <2>3. n \in Nat \ {0} /\ a \in Int /\ 98 * n <= a /\ a < (127 + 1) * n
    BY <2>1
  <2>4. 98 \in Int /\ 127 \in Int
    OBVIOUS
  <2> HIDE DEF n, a
  <2> QED
    BY <2>2, <2>3, <2>4, QuotientIn
<1> QED
  BY <1>1, <1>2 DEF HighMin

\* How large islands are in the end, and so how many mountains they have.
LEMMA FinalSizes ==
    ASSUME Typed, Progress, args \in Arguments, ValidateArgs(args), phase = "written"
    PROVE  /\ \A c \in Continents : Len(sect[c]) = args.sc
           /\ \A c \in Islands : /\ Len(sect[c]) \in Nat
                                 /\ Len(sect[c]) <= Max({args.sc, args.is * 2})
           /\ Max({args.sc, args.is * 2}) \in Nat
<1>1. Loops /\ ContinentSizes /\ GroupsDone
  BY Phases DEF Progress
<1>2. \A c \in Continents : Len(sect[c]) = args.sc
  BY <1>1 DEF ContinentSizes
<1> DEFINE m == Max({args.sc, args.is * 2})
<1>3. m \in Nat /\ args.sc <= m /\ 2 * args.is <= m
  <2>1. args.sc \in Int /\ args.is * 2 \in Int /\ args.sc \in Nat /\ 2 * args.is = args.is * 2
    BY Command
  <2>2. m \in {args.sc, args.is * 2} /\ m >= args.sc /\ m >= args.is * 2
    BY <2>1, MaxOfTwo
  <2> HIDE DEF m
  <2> QED
    BY <2>1, <2>2
<1>4. group = args.ni \div args.nc
  BY <1>1 DEF Loops
<1>5. ASSUME NEW c \in Islands
      PROVE  Len(sect[c]) \in Nat /\ Len(sect[c]) <= m
  <2>1. Len(sect[c]) \in Nat
    BY ListedSectors DEF Typed
  <2>2. CASE c \in Continents
    BY <1>2, <1>3, <2>1, <2>2
  <2>3. CASE c \notin Continents
    <3>1. PICK i \in 0..group - 1, j \in 0..args.nc - 1 : c = Group(i) + j
      BY <1>4, <2>3, IslandNumbers
    <3>2. Len(sect[c]) \in 1..2 * args.is
      BY <1>1, <3>1 DEF GroupsDone
    <3> HIDE DEF m
    <3>3. 2 * args.is \in Int
      BY Command
    <3> QED
      BY <1>3, <2>1, <3>2, <3>3
  <2> QED
    BY <2>2, <2>3
<1> QED
  BY <1>2, <1>3, <1>5

LEMMA HillsAre ==
    ASSUME Typed, Progress, args \in Arguments, ValidateArgs(args), phase = "written",
           NEW c \in Islands
    PROVE  /\ IsFiniteSet(Slopes(c)) /\ Cardinality(Slopes(c)) \in Nat
           /\ Hills(c) \in 0..Cardinality(Slopes(c))
           /\ Peaks \in Nat \ {0} /\ Mountains(Len(sect[c])) \in Nat
           /\ Cardinality(Slopes(c)) - Hills(c) <= Mountains(Len(sect[c]))
           /\ Mountains(Len(sect[c])) <= Peaks
<1> DEFINE n == Cardinality(Slopes(c))
           k == Mountains(Len(sect[c]))
           m == Max({args.sc, args.is * 2})
<1>1. IsFiniteSet(Slopes(c)) /\ n \in Nat
  BY SlopesAre, LowerOrders, FS_CardinalityType
<1>2. Len(sect[c]) \in Nat /\ m \in Nat /\ Len(sect[c]) <= m
  BY FinalSizes
<1>3. k \in Nat /\ Mountains(m) \in Nat /\ k <= Mountains(m)
  <2> HIDE DEF m
  <2> QED
    BY <1>2, MountainsAre
<1>4. Hills(c) = Max({0, n - k}) /\ Peaks = Max({1, Mountains(m)})
  BY DEF Hills, Peaks
<1> HIDE DEF n, k, m
<1>5. Max({0, n - k}) \in {0, n - k} /\ Max({0, n - k}) >= 0 /\ Max({0, n - k}) >= n - k
  <2>1. 0 \in Int /\ n - k \in Int
    BY <1>1, <1>3
  <2> QED
    BY <2>1, MaxOfTwo
<1>6. Peaks \in {1, Mountains(m)} /\ Peaks >= 1 /\ Peaks >= Mountains(m)
  <2>1. 1 \in Int /\ Mountains(m) \in Int
    BY <1>3
  <2> QED
    BY <1>4, <2>1, MaxOfTwo
<1>7. Hills(c) \in 0..n /\ n - Hills(c) <= k
  BY <1>1, <1>3, <1>4, <1>5
<1>8. Peaks \in Nat \ {0} /\ k <= Peaks
  BY <1>3, <1>6
<1> QED
  BY <1>1, <1>3, <1>7, <1>8 DEF n, k

\* The heights of the map that is written.
LEMMA HeightIs ==
    ASSUME Typed, Progress, args \in Arguments, ValidateArgs(args), phase = "written",
           NEW s \in Sectors, own[s] = Sea => elev[s] <= 0
    PROVE  /\ own[s] = Sea => Height(s) \in -127..0
           /\ own[s] # Sea => /\ Height(s) \in 1..127
                              /\ Height(s) = IF s \in Slopes(own[s])
                                             THEN Risen(Hills(own[s]), SlopeRank(s)) ELSE PlatMin
                              /\ Height(s) >= HighMin <=> /\ s \in Slopes(own[s])
                                                          /\ SlopeRank(s) >= Hills(own[s])
<1>1. CASE own[s] = Sea
  <2>1. SeaHeight(elev[s]) \in -127..0
    BY <1>1, SeaRange DEF Typed
  <2> QED
    BY <1>1, <2>1 DEF Height
<1>2. CASE own[s] # Sea
  <2> DEFINE c == own[s]
             n == Cardinality(Slopes(c))
             h == Hills(c)
             r == SlopeRank(s)
  <2>1. c \in Islands
    BY <1>2 DEF Typed
  <2>2. Height(s) = IF s \in Slopes(c) THEN Risen(h, r) ELSE PlatMin
    BY <1>2, <2>1, LandHeightIs DEF Height
  <2>3. /\ n \in Nat /\ h \in 0..n /\ Peaks \in Nat \ {0} /\ Mountains(Len(sect[c])) \in Nat
        /\ n - h <= Mountains(Len(sect[c])) /\ Mountains(Len(sect[c])) <= Peaks
        /\ IsFiniteSet(Slopes(c))
    BY <2>1, HillsAre
  <2>4. Orders(Lower, Slopes(c))
    BY <2>1, SlopesAre, LowerOrders
  <2>5. s \in Slopes(c) => r \in 0..n - 1
    BY <2>3, <2>4, Ranks DEF SlopeRank
  <2>6. CASE s \in Slopes(c)
    <3> HIDE DEF c, n, h, r
    <3>1. r \in 0..n - 1 /\ h \in Nat /\ r \in Nat
      BY <2>3, <2>5, <2>6
    <3>2. r - h + 1 <= Peaks
      BY <2>3, <3>1
    <3>3. /\ r < h => Risen(h, r) \in 1..HighMin - 1
          /\ r >= h => Risen(h, r) \in HighMin..127
      BY <2>3, <3>1, <3>2, RisenIs
    <3>4. r < h \/ r >= h
      BY <3>1
    <3>5. Height(s) \in 1..127
      BY <2>2, <2>6, <3>3, <3>4 DEF HighMin
    <3>6. Height(s) >= HighMin <=> r >= h
      BY <2>2, <2>6, <3>1, <3>3, <3>4 DEF HighMin
    <3> QED
      BY <1>2, <2>2, <2>6, <3>5, <3>6 DEF c, h, r
  <2>7. CASE s \notin Slopes(c)
    <3>1. Height(s) = 36
      BY <2>2, <2>7 DEF PlatMin
    <3> QED
      BY <1>2, <2>2, <2>7, <3>1 DEF HighMin
  <2> QED
    BY <2>6, <2>7
<1> QED
  BY <1>1, <1>2

-----------------------------------------------------------------------------
(* What continents get: the same heights, whoever has which. *)

\* A row without what tells its owner and its coast.
RowOf(e) ==
    [type |-> ElevToSctType(e), elev |-> e, coastal |-> FALSE, dterr |-> 0,
     min |-> ElevToResource(e, IronConf), gmin |-> ElevToResource(e, GoldConf),
     fertil |-> ElevToResource(e, FertConf), oil |-> ElevToResource(e, OilConf),
     uran |-> ElevToResource(e, UranConf)]

\* The k-th sector of a continent is one of the two capitals, or has a rank.
RankOf(c, k) == IF k <= 2 THEN k - 3 ELSE SlopeRank(sect[c][k])
HillsOfContinent == Max({0, (args.sc - 2) - Mountains(args.sc)})
RowAt(x) == RowOf(IF x < 0 THEN PlatMin ELSE Risen(HillsOfContinent, x))

Final == /\ Typed /\ Mapped /\ Progress /\ args \in Arguments /\ ValidateArgs(args)
         /\ phase = "written"

LEMMA RowIs == \A s : [BuildSector(s) EXCEPT !.coastal = FALSE, !.dterr = 0] = RowOf(Height(s))
<1> SUFFICES ASSUME NEW s
             PROVE  [BuildSector(s) EXCEPT !.coastal = FALSE, !.dterr = 0] = RowOf(Height(s))
  OBVIOUS
<1> DEFINE old == BuildSector(s)
           new == [old EXCEPT !.coastal = FALSE, !.dterr = 0]
           row == RowOf(Height(s))
           fields == {"type", "elev", "coastal", "dterr", "min", "gmin", "fertil", "oil", "uran"}
<1>1. DOMAIN old = fields /\ DOMAIN row = fields
  BY DEF BuildSector, RowOf
<1>2. new = [f \in DOMAIN old |-> IF f = "dterr" THEN 0 ELSE IF f = "coastal" THEN FALSE ELSE old[f]]
  <2> HIDE DEF old
  <2> QED
    BY Zenon
<1>3. row = [f \in DOMAIN row |-> row[f]]
  BY DEF RowOf
<1>4. /\ old.type = row.type /\ old.elev = row.elev /\ old.min = row.min /\ old.gmin = row.gmin
      /\ old.fertil = row.fertil /\ old.oil = row.oil /\ old.uran = row.uran
  BY DEF BuildSector, RowOf
<1>5. row.dterr = 0 /\ row.coastal = FALSE
  BY DEF RowOf
<1> HIDE DEF old, new, row
<1>6. \A f \in fields : new[f] = row[f]
  BY <1>1, <1>2, <1>4, <1>5
<1>7. new = row
  BY <1>1, <1>2, <1>3, <1>6
<1> QED
  BY <1>7 DEF new, old, row

\* The sectors of a continent but its first two are its slopes.
LEMMA SlopesOfContinent ==
    ASSUME Final, NEW c \in Continents
    PROVE  /\ c \in Islands /\ Len(sect[c]) = args.sc /\ args.sc \in Nat /\ args.sc >= 2
           /\ \A k \in 1..args.sc : /\ sect[c][k] \in Sectors /\ own[sect[c][k]] = c
                                    /\ sect[c][k] \in Slopes(c) <=> k > 2
           /\ \A k, l \in 1..args.sc : sect[c][k] = sect[c][l] => k = l
           /\ \A s \in Slopes(c) : \E k \in 3..args.sc : s = sect[c][k]
           /\ Cardinality(Slopes(c)) = args.sc - 2
           /\ Hills(c) = HillsOfContinent
<1>1. args.sc \in Nat /\ args.sc >= 2 /\ args.nc \in Nat
  BY Command DEF Final
<1>2. c \in Islands /\ Plateau(c) = 2
  <2>1. Continents \subseteq Islands
    BY IslandNumbers DEF Final
  <2>2. c < args.nc
    BY <1>1 DEF Continents
  <2> QED
    BY <2>1, <2>2 DEF Plateau
<1>3. Len(sect[c]) = args.sc
  BY FinalSizes DEF Final
<1>4. \A k \in 1..args.sc : sect[c][k] \in Sectors /\ own[sect[c][k]] = c
  <2>1. \A k \in 1..args.sc : sect[c][k] \in Sectors
    BY <1>2, <1>3, ListedSectors DEF Final, Typed
  <2>2. \A k \in 1..args.sc : own[sect[c][k]] = c
    BY <1>2, <1>3 DEF Final, Mapped
  <2> QED
    BY <2>1, <2>2
<1>5. \A k, l \in 1..args.sc : sect[c][k] = sect[c][l] => k = l
  BY <1>2, <1>3 DEF Final, Mapped
<1> DEFINE f == [k \in 3..args.sc |-> sect[c][k]]
           K == 3..args.sc
<1>6. Slopes(c) = {sect[c][k] : k \in K}
  BY <1>2, <1>3 DEF Slopes
<1>7. \A k \in K : k \in 1..args.sc
  BY <1>1
<1>8. \A k \in 1..args.sc : sect[c][k] \in Slopes(c) <=> k > 2
  <2> SUFFICES ASSUME NEW k \in 1..args.sc
               PROVE  sect[c][k] \in Slopes(c) <=> k \in K
    BY <1>1
  <2> HIDE DEF K
  <2> QED
    BY <1>5, <1>6, <1>7
<1>9. Cardinality(Slopes(c)) = args.sc - 2
  <2>1. f \in Bijection(K, Slopes(c))
    <3>1. f \in [K -> Slopes(c)] /\ \A k \in K : f[k] = sect[c][k]
      BY <1>6
    <3> HIDE DEF f, K
    <3>2. \A k, l \in K : f[k] = f[l] => k = l
      BY <1>5, <1>7, <3>1
    <3>3. \A s \in Slopes(c) : \E k \in K : f[k] = s
      BY <1>6, <3>1
    <3> QED
      BY <3>1, <3>2, <3>3 DEF Bijection, Injection, Surjection, IsInjective
  <2>2. IsFiniteSet(K) /\ Cardinality(K) = args.sc - 2
    <3>1. 3 \in Int /\ args.sc \in Int
      BY <1>1
    <3>2. IsFiniteSet(3..args.sc)
          /\ Cardinality(3..args.sc) = IF 3 > args.sc THEN 0 ELSE args.sc - 3 + 1
      BY <3>1, FS_Interval
    <3> QED
      BY <1>1, <3>2
  <2> HIDE DEF f, K
  <2>3. ExistsBijection(K, Slopes(c))
    BY <2>1 DEF ExistsBijection
  <2> QED
    BY <2>2, <2>3, FS_Bijection
<1>10. Hills(c) = HillsOfContinent
  BY <1>3, <1>9 DEF Hills, HillsOfContinent
<1>11. \A s \in Slopes(c) : \E k \in 3..args.sc : s = sect[c][k]
  BY <1>6
<1> QED
  BY <1>1, <1>2, <1>3, <1>4, <1>5, <1>8, <1>9, <1>10, <1>11

LEMMA RanksOfContinent ==
    ASSUME Final, NEW c \in Continents
    PROVE  /\ \A k \in 1..args.sc : RankOf(c, k) \in -2..args.sc - 3
           /\ \A k, l \in 1..args.sc : RankOf(c, k) = RankOf(c, l) => k = l
           /\ \A x \in -2..args.sc - 3 : \E k \in 1..args.sc : RankOf(c, k) = x
<1> DEFINE n == args.sc
           S == Slopes(c)
           q(k) == sect[c][k]
           rank(s) == RankIn(S, Lower, s)
<1>1. /\ n \in Nat /\ n >= 2 /\ c \in Islands
      /\ \A k \in 1..n : q(k) \in Sectors /\ own[q(k)] = c /\ (q(k) \in S <=> k > 2)
      /\ \A k, l \in 1..n : q(k) = q(l) => k = l
      /\ \A s \in S : \E k \in 3..n : s = q(k)
      /\ Cardinality(S) = n - 2
  BY SlopesOfContinent
<1>2. IsFiniteSet(S) /\ Orders(Lower, S)
  BY <1>1, SlopesAre, LowerOrders DEF Final
<1>3. /\ \A s \in S : rank(s) \in 0..Cardinality(S) - 1
      /\ \A s, t \in S : rank(s) = rank(t) => s = t
      /\ \A i \in 0..Cardinality(S) - 1 : \E s \in S : rank(s) = i
  <2> HIDE DEF S
  <2> QED
    BY <1>2, Ranks
<1>4. \A k \in 1..n : RankOf(c, k) = IF k <= 2 THEN k - 3 ELSE rank(q(k))
  BY <1>1 DEF RankOf, SlopeRank
<1>5. Cardinality(S) - 1 = n - 3
  BY <1>1
<1> HIDE DEF n, S, q, rank
<1>6. \A k \in 1..n : k > 2 => rank(q(k)) \in 0..n - 3 /\ q(k) \in S
  BY <1>1, <1>3, <1>5
<1>7. \A k \in 1..n : RankOf(c, k) \in -2..n - 3 /\ (RankOf(c, k) < 0 <=> k <= 2)
  <2> SUFFICES ASSUME NEW k \in 1..n
               PROVE  RankOf(c, k) \in -2..n - 3 /\ (RankOf(c, k) < 0 <=> k <= 2)
    OBVIOUS
  <2>1. CASE k <= 2
    BY <1>1, <1>4, <2>1
  <2>2. CASE k > 2
    BY <1>1, <1>4, <1>6, <2>2
  <2> QED
    BY <1>1, <2>1, <2>2
<1>8. ASSUME NEW k \in 1..n, NEW l \in 1..n, RankOf(c, k) = RankOf(c, l)
      PROVE  k = l
  <2>1. CASE k <= 2
    BY <1>1, <1>4, <1>7, <1>8, <2>1
  <2>2. CASE k > 2
    <3>1. l > 2
      BY <1>1, <1>7, <1>8, <2>2
    <3>2. rank(q(k)) = rank(q(l))
      BY <1>1, <1>4, <1>8, <2>2, <3>1
    <3>3. q(k) = q(l)
      BY <1>3, <1>6, <2>2, <3>1, <3>2
    <3> QED
      BY <1>1, <3>3
  <2> QED
    BY <1>1, <2>1, <2>2
<1>9. ASSUME NEW x \in -2..n - 3
      PROVE  \E k \in 1..n : RankOf(c, k) = x
  <2>1. CASE x < 0
    <3>1. x + 3 \in 1..n /\ x + 3 <= 2 /\ x + 3 - 3 = x
      BY <1>1, <2>1
    <3> QED
      BY <1>4, <3>1
  <2>2. CASE x >= 0
    <3>1. x \in 0..Cardinality(S) - 1
      BY <1>1, <1>5, <2>2
    <3>2. PICK s \in S : rank(s) = x
      BY <1>3, <3>1
    <3>3. PICK k \in 3..n : s = q(k)
      BY <1>1
    <3>4. k \in 1..n /\ ~(k <= 2)
      BY <1>1
    <3> QED
      BY <1>4, <3>2, <3>3, <3>4
  <2> QED
    BY <1>1, <2>1, <2>2
<1> QED
  BY <1>7, <1>8, <1>9 DEF n

\* A height goes to as many sectors of a continent as of any other.
LEMMA SharesAreSame ==
    ASSUME Final, \A s \in Sectors : own[s] = Sea => elev[s] <= 0, NEW c \in Continents, NEW row
    PROVE  Cardinality({k \in 1..args.sc : RowOf(Height(sect[c][k])) = row})
           = Cardinality({x \in -2..args.sc - 3 : RowAt(x) = row})
<1> DEFINE n == args.sc
           K == {k \in 1..n : RowOf(Height(sect[c][k])) = row}
           X == {x \in -2..n - 3 : RowAt(x) = row}
           f == [k \in K |-> RankOf(c, k)]
<1>1. /\ n \in Nat /\ n >= 2
      /\ \A k \in 1..n : sect[c][k] \in Sectors /\ own[sect[c][k]] = c /\ (sect[c][k] \in Slopes(c) <=> k > 2)
      /\ Hills(c) = HillsOfContinent /\ c \in Islands
  BY SlopesOfContinent
<1>2. /\ \A k \in 1..n : RankOf(c, k) \in -2..n - 3
      /\ \A k, l \in 1..n : RankOf(c, k) = RankOf(c, l) => k = l
      /\ \A x \in -2..n - 3 : \E k \in 1..n : RankOf(c, k) = x
  BY RanksOfContinent
<1>3. ASSUME NEW k \in 1..n
      PROVE  RowOf(Height(sect[c][k])) = RowAt(RankOf(c, k))
  <2> DEFINE s == sect[c][k]
  <2>1. s \in Sectors /\ own[s] = c /\ own[s] # Sea
    <3>1. Islands \subseteq Nat
      BY IslandNumbers DEF Final
    <3> QED
      BY <1>1, <3>1 DEF Sea
  <2>2. Height(s) = IF s \in Slopes(c) THEN Risen(HillsOfContinent, SlopeRank(s)) ELSE PlatMin
    <3> HIDE DEF s
    <3>1. own[s] = Sea => elev[s] <= 0
      BY <2>1
    <3>2. Height(s) = IF s \in Slopes(own[s]) THEN Risen(Hills(own[s]), SlopeRank(s)) ELSE PlatMin
      BY <2>1, <3>1, HeightIs DEF Final
    <3> QED
      BY <1>1, <2>1, <3>2
  <2>3. CASE k <= 2
    <3>1. Height(s) = PlatMin
      BY <1>1, <2>2, <2>3
    <3>2. RankOf(c, k) < 0
      BY <2>3 DEF RankOf
    <3> QED
      BY <3>1, <3>2 DEF RowAt
  <2>4. CASE k > 2
    <3>1. Height(s) = Risen(HillsOfContinent, SlopeRank(s))
      BY <1>1, <2>2, <2>4
    <3>2. RankOf(c, k) = SlopeRank(s)
      BY <2>4 DEF RankOf
    <3>3. ~(RankOf(c, k) < 0)
      <4>1. IsFiniteSet(Slopes(c)) /\ Orders(Lower, Slopes(c))
        BY <1>1, SlopesAre, LowerOrders DEF Final
      <4>2. s \in Slopes(c)
        BY <1>1, <2>4
      <4>3. SlopeRank(s) \in 0..Cardinality(Slopes(c)) - 1
        <5> HIDE DEF s
        <5> QED
          BY <2>1, <4>1, <4>2, Ranks DEF SlopeRank
      <4> QED
        BY <3>2, <4>3
    <3> QED
      BY <3>1, <3>2, <3>3 DEF RowAt
  <2> QED
    BY <2>3, <2>4
<1>4. f \in Bijection(K, X)
  <2>1. \A k \in K : k \in 1..n /\ RowAt(RankOf(c, k)) = row
    BY <1>3
  <2>2. f \in [K -> X] /\ \A k \in K : f[k] = RankOf(c, k)
    BY <1>2, <2>1
  <2>3. \A x \in X : \E k \in K : f[k] = x
    <3> SUFFICES ASSUME NEW x \in X
                 PROVE  \E k \in K : f[k] = x
      OBVIOUS
    <3>1. x \in -2..n - 3 /\ RowAt(x) = row
      OBVIOUS
    <3>2. PICK k \in 1..n : RankOf(c, k) = x
      BY <1>2, <3>1
    <3>3. k \in K
      BY <1>3, <3>1, <3>2
    <3> QED
      BY <2>2, <3>2, <3>3
  <2>4. \A k, l \in K : f[k] = f[l] => k = l
    BY <1>2, <2>1, <2>2
  <2> HIDE DEF f, K, X
  <2> QED
    BY <2>2, <2>3, <2>4 DEF Bijection, Injection, Surjection, IsInjective
<1>5. IsFiniteSet(K)
  <2>1. K \subseteq 1..n /\ IsFiniteSet(1..n)
    BY <1>1, UpTo
  <2> HIDE DEF K
  <2> QED
    BY <2>1, FS_Subset
<1>6. ExistsBijection(K, X)
  <2> HIDE DEF f, K, X
  <2> QED
    BY <1>4 DEF ExistsBijection
<1>7. Cardinality(X) = Cardinality(K)
  <2> HIDE DEF K, X
  <2> QED
    BY <1>5, <1>6, FS_Bijection
<1> QED
  BY <1>7

LEMMA TypeOfHeight ==
    ASSUME NEW e \in -127..127
    PROVE  /\ ElevToSctType(e) = "sea" <=> e < 1
           /\ ElevToSctType(e) = "mountain" <=> e >= HighMin
BY DEF ElevToSctType, LandMin, HighMin

\* A continent has its mountains on the highest of its slopes, as far as they go.
LEMMA MountainsOfContinent ==
    ASSUME Final, \A s \in Sectors : own[s] = Sea => elev[s] <= 0, NEW c \in Continents
    PROVE  Cardinality({s \in SectorsOf(c) : ElevToSctType(Height(s)) = "mountain"})
           = Min({Mountains(args.sc), args.sc - 2})
<1> DEFINE S == Slopes(c)
           n == args.sc - 2
           m == Mountains(args.sc)
           h == Hills(c)
           M == {s \in SectorsOf(c) : ElevToSctType(Height(s)) = "mountain"}
           rank(s) == RankIn(S, Lower, s)
           f == [s \in M |-> rank(s)]
<1>1. /\ c \in Islands /\ Len(sect[c]) = args.sc /\ args.sc \in Nat
      /\ \A k \in 1..args.sc : sect[c][k] \in Sectors /\ own[sect[c][k]] = c
      /\ Cardinality(S) = n /\ h = HillsOfContinent
  BY SlopesOfContinent
<1>2. IsFiniteSet(S) /\ n \in Nat /\ h \in 0..n /\ m \in Nat
  BY <1>1, HillsAre DEF Final
<1>3. n - h = Min({m, n})
  <2>1. h = Max({0, n - m})
    BY <1>1 DEF HillsOfContinent
  <2> HIDE DEF n, m, h
  <2>2. 0 \in Int /\ n - m \in Int
    BY <1>2
  <2>3. h \in {0, n - m} /\ h >= 0 /\ h >= n - m
    BY <2>1, <2>2, MaxOfTwo
  <2>4. Min({m, n}) \in {m, n} /\ Min({m, n}) <= m /\ Min({m, n}) <= n
    BY <1>2, MinOfTwo
  <2> QED
    BY <1>2, <2>3, <2>4
<1>4. Orders(Lower, S)
  BY <1>1, SlopesAre, LowerOrders DEF Final
<1>5. /\ \A s \in S : rank(s) \in 0..n - 1
      /\ \A s, t \in S : rank(s) = rank(t) => s = t
      /\ \A i \in 0..n - 1 : \E s \in S : rank(s) = i
  <2>1. /\ \A s \in S : rank(s) \in 0..Cardinality(S) - 1
        /\ \A s, t \in S : rank(s) = rank(t) => s = t
        /\ \A i \in 0..Cardinality(S) - 1 : \E s \in S : rank(s) = i
    <3> HIDE DEF S
    <3> QED
      BY <1>2, <1>4, Ranks
  <2> HIDE DEF S, n, rank
  <2> QED
    BY <1>1, <2>1
<1>6. ASSUME NEW s \in SectorsOf(c)
      PROVE  /\ ElevToSctType(Height(s)) = "mountain" <=> s \in S /\ rank(s) >= h
  <2>1. s \in Sectors /\ own[s] = c
    <3>1. sect \in [Islands -> Seq(Sectors)]
      BY DEF Final, Typed
    <3>2. PICK k \in 1..Len(sect[c]) : sect[c][k] = s
      BY <1>1, <3>1, ListedSectors
    <3> QED
      BY <1>1, <3>2
  <2>2. own[s] # Sea
    <3>1. Islands \subseteq Nat
      BY IslandNumbers DEF Final
    <3> QED
      BY <1>1, <2>1, <3>1 DEF Sea
  <2>3. /\ Height(s) \in 1..127
        /\ Height(s) >= HighMin <=> s \in Slopes(own[s]) /\ SlopeRank(s) >= Hills(own[s])
    BY <2>1, <2>2, HeightIs DEF Final
  <2>4. ElevToSctType(Height(s)) = "mountain" <=> Height(s) >= HighMin
    <3> DEFINE e == Height(s)
    <3>1. e \in -127..127
      BY <2>3
    <3> HIDE DEF e
    <3>2. ElevToSctType(e) = "mountain" <=> e >= HighMin
      BY <3>1, TypeOfHeight
    <3> QED
      BY <3>2 DEF e
  <2> QED
    BY <2>1, <2>3, <2>4 DEF SlopeRank
<1>7. S \subseteq SectorsOf(c)
  <2> SUFFICES ASSUME NEW s \in S
               PROVE  s \in SectorsOf(c)
    OBVIOUS
  <2>1. PICK k \in 3..args.sc : s = sect[c][k]
    BY SlopesOfContinent
  <2>2. k \in 1..Len(sect[c])
    BY <1>1, <2>1
  <2> QED
    BY <1>1, <2>1, <2>2 DEF SectorsOf, ToSet
<1>8. M = {s \in S : rank(s) >= h}
  <2> HIDE DEF S, h, rank
  <2> QED
    BY <1>6, <1>7
<1> HIDE DEF S, n, m, h, rank, M
<1>9. f \in Bijection(M, h..n - 1)
  <2>1. f \in [M -> h..n - 1] /\ \A s \in M : f[s] = rank(s)
    BY <1>2, <1>5, <1>8
  <2> HIDE DEF f
  <2>2. \A s, t \in M : f[s] = f[t] => s = t
    BY <1>5, <1>8, <2>1
  <2>3. \A i \in h..n - 1 : \E s \in M : f[s] = i
    <3> SUFFICES ASSUME NEW i \in h..n - 1
                 PROVE  \E s \in M : f[s] = i
      OBVIOUS
    <3>1. i \in 0..n - 1 /\ i >= h
      BY <1>2
    <3>2. PICK s \in S : rank(s) = i
      BY <1>5, <3>1
    <3> QED
      BY <1>8, <2>1, <3>1, <3>2
  <2> QED
    BY <2>1, <2>2, <2>3 DEF Bijection, Injection, Surjection, IsInjective
<1>10. IsFiniteSet(h..n - 1) /\ Cardinality(h..n - 1) = n - h
  <2>1. h \in Int /\ n - 1 \in Int
    BY <1>2
  <2>2. IsFiniteSet(h..n - 1) /\ Cardinality(h..n - 1) = IF h > n - 1 THEN 0 ELSE n - 1 - h + 1
    BY <2>1, FS_Interval
  <2> QED
    BY <1>2, <2>2
<1>11. Cardinality(M) = n - h
  <2> DEFINE R == h..n - 1
  <2>1. f \in Bijection(M, R) /\ IsFiniteSet(R) /\ Cardinality(R) = n - h
    BY <1>9, <1>10
  <2> HIDE DEF f, R
  <2>2. IsFiniteSet(M)
    BY <2>1, FS_Injection DEF Bijection
  <2>3. ExistsBijection(M, R)
    BY <2>1 DEF ExistsBijection
  <2> QED
    BY <2>1, <2>2, <2>3, FS_Bijection
<1> QED
  BY <1>3, <1>11 DEF M, n, m

LEMMA StartIsFair ==
    ASSUME WellTyped, Land, Progress, Heights
    PROVE  FairStart
<1> SUFFICES ASSUME stored # << >>
             PROVE  FairStart
  BY DEF FairStart
<1> DEFINE Row(s) == stored[s]
           Share(c) == [k \in 1..Len(sect[c]) |-> [Row(sect[c][k]) EXCEPT !.coastal = FALSE, !.dterr = 0]]
           LandIs == \A s \in Sectors : Row(s).type = "sea" <=> ~IsLand(s)
           Within127 == \A s \in Sectors : Row(s).elev \in -127..127
           SameOf(b, c, row) == Cardinality({k \in DOMAIN Share(c) : Share(c)[k] = row})
                                = Cardinality({k \in DOMAIN Share(b) : Share(b)[k] = row})
           Exact(c) == MountainsOf(c) = Min({Mountains(args.sc), args.sc - Plateau(c)})
<1>1. phase = "written" /\ stored = [s \in Sectors |-> BuildSector(s)]
  BY DEF Heights
<1>2. Final
  BY <1>1, RunningTyped, Phases DEF Land, Final
<1>3. \A s \in Sectors : own[s] = Sea => elev[s] <= 0
  BY <1>1 DEF Heights
<1>4. \A s \in Sectors : Row(s).type = ElevToSctType(Height(s)) /\ Row(s).elev = Height(s)
  BY <1>1 DEF BuildSector
<1>5. ASSUME NEW s \in Sectors
      PROVE  /\ Row(s).type = "sea" <=> ~IsLand(s)
             /\ Row(s).elev \in -127..127
  <2>1. /\ own[s] = Sea => Height(s) \in -127..0
        /\ own[s] # Sea => Height(s) \in 1..127
    BY <1>2, <1>3, HeightIs DEF Final
  <2> DEFINE h == Height(s)
  <2> HIDE DEF h
  <2>2. h \in -127..127 /\ (h < 1 <=> own[s] = Sea)
    <3>1. CASE own[s] = Sea
      <4>1. h \in -127..0
        BY <2>1, <3>1 DEF h
      <4>2. h \in -127..127 /\ h < 1
        BY <4>1
      <4> QED
        BY <3>1, <4>2
    <3>2. CASE own[s] # Sea
      <4>1. h \in 1..127
        BY <2>1, <3>2 DEF h
      <4>2. h \in -127..127 /\ ~(h < 1)
        BY <4>1
      <4> QED
        BY <3>2, <4>2
    <3> QED
      BY <3>1, <3>2
  <2>3. ElevToSctType(h) = "sea" <=> own[s] = Sea
    BY <2>2, TypeOfHeight
  <2> QED
    BY <1>4, <2>2, <2>3 DEF IsLand, h
<1>6. LandIs /\ Within127
  BY <1>5
<1>7. ASSUME NEW c \in Continents
      PROVE  /\ DOMAIN Share(c) = 1..args.sc
             /\ \A k \in 1..args.sc : Share(c)[k] = RowOf(Height(sect[c][k]))
  <2>1. Len(sect[c]) = args.sc /\ \A k \in 1..args.sc : sect[c][k] \in Sectors
    BY <1>2, SlopesOfContinent
  <2>2. \A k \in 1..args.sc : Row(sect[c][k]) = BuildSector(sect[c][k])
    BY <1>1, <2>1
  <2>3. \A k \in 1..args.sc : [BuildSector(sect[c][k]) EXCEPT !.coastal = FALSE, !.dterr = 0]
                              = RowOf(Height(sect[c][k]))
    BY RowIs, Zenon
  <2>4. \A k \in 1..args.sc : [Row(sect[c][k]) EXCEPT !.coastal = FALSE, !.dterr = 0]
                              = RowOf(Height(sect[c][k]))
    <3> HIDE DEF Row
    <3> QED
      BY <2>2, <2>3, Zenon
  <2>5. DOMAIN Share(c) = 1..args.sc
    BY <2>1
  <2>6. \A k \in 1..args.sc : Share(c)[k] = [Row(sect[c][k]) EXCEPT !.coastal = FALSE, !.dterr = 0]
    BY <2>1
  <2> HIDE DEF Share, Row
  <2> QED
    BY <2>4, <2>5, <2>6, Zenon
<1>8. ASSUME NEW c \in Continents, NEW row
      PROVE  Cardinality({k \in DOMAIN Share(c) : Share(c)[k] = row})
             = Cardinality({x \in -2..args.sc - 3 : RowAt(x) = row})
  <2> HIDE DEF Share
  <2>1. {k \in DOMAIN Share(c) : Share(c)[k] = row}
        = {k \in 1..args.sc : RowOf(Height(sect[c][k])) = row}
    BY <1>7
  <2>2. Cardinality({k \in 1..args.sc : RowOf(Height(sect[c][k])) = row})
        = Cardinality({x \in -2..args.sc - 3 : RowAt(x) = row})
    BY <1>2, <1>3, SharesAreSame
  <2> QED
    BY <2>1, <2>2
<1>9. \A b, c \in Continents : \A row \in ToSet(Share(c)) : SameOf(b, c, row)
  <2>1. \A b, c \in Continents : \A row : SameOf(b, c, row)
    <3> HIDE DEF Share
    <3> QED
      BY <1>8
  <2> HIDE DEF SameOf, Share
  <2> QED
    BY <2>1, Zenon
<1>10. \A c \in Continents : Exact(c)
  <2> SUFFICES ASSUME NEW c \in Continents
               PROVE  Exact(c)
    OBVIOUS
  <2>1. SectorsOf(c) \subseteq Sectors
    BY <1>2, SlopesOfContinent, ListedSectors DEF Final, Typed
  <2>2. {s \in SectorsOf(c) : Row(s).type = "mountain"}
        = {s \in SectorsOf(c) : ElevToSctType(Height(s)) = "mountain"}
    <3> HIDE DEF Row
    <3> QED
      BY <1>4, <2>1
  <2>3. Cardinality({s \in SectorsOf(c) : ElevToSctType(Height(s)) = "mountain"})
        = Min({Mountains(args.sc), args.sc - 2})
    BY <1>2, <1>3, MountainsOfContinent
  <2>4. Plateau(c) = 2
    <3>1. args.nc \in Nat
      BY <1>2, Command DEF Final
    <3> QED
      BY <3>1 DEF Plateau, Continents
  <2> QED
    BY <2>2, <2>3, <2>4 DEF MountainsOf
<1>11. LandIs /\ Within127 /\ (\A b, c \in Continents : \A row \in ToSet(Share(c)) : SameOf(b, c, row))
       /\ (\A c \in Continents : Exact(c)) => FairStart
  BY DEF FairStart
<1> QED
  BY <1>6, <1>9, <1>10, <1>11

LEMMA StoredStep == Searched /\ Heights /\ [Next]_vars => Heights'
<1> SUFFICES ASSUME Searched, Heights, [Next]_vars
             PROVE  Heights'
  OBVIOUS
<1>1. CASE Next
  BY <1>1, HeightsStep
<1>2. CASE UNCHANGED vars
  <2>1. UNCHANGED <<args, phase, own, adjLand, sect, elev, odd, stored>>
    BY <1>2 DEF vars, land, heights
  <2>2. [s \in Sectors |-> BuildSector(s)'] = [s \in Sectors |-> BuildSector(s)]
    BY <2>1, BuildKept
  <2>3. stored # << >> => stored' = [s \in Sectors |-> BuildSector(s)']
    BY <2>1, <2>2 DEF Heights
  <2> QED
    BY <2>1, <2>3 DEF Heights
<1> QED
  BY <1>1, <1>2

\* Whatever is rolled, the rows written have land where it grew, with heights that fit their
\* bytes, and to every continent the same land: as many sectors of each height and so of each
\* kind and fertility, and the mountains asked for, except on the two sectors of the capital
\* (elevate_land, build_sectors).
THEOREM SharesAreFair == Spec => []FairShares
<1>1. Searched => WellTyped /\ Land /\ Progress
  BY DEF Searched
<1>2. WellTyped /\ Land /\ Progress /\ Heights => FairStart
  BY StartIsFair
<1>3. EqualShares /\ FairStart => FairShares
  BY DEF FairShares
<1> QED
  BY <1>1, <1>2, <1>3, SharesAreEqual, SearchedInit, SearchedStep, HeightsInit, StoredStep, PTL DEF Spec
=============================================================================
