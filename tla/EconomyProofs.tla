--------------------------- MODULE EconomyProofs ---------------------------
(***************************************************************************)
(* Proofs about modules Economy and Distribution, the two halves of an     *)
(* update, for any map, any tables of sector types, products and units,    *)
(* any rates, any orders and any number of nations: the treasuries account *)
(* for all that is booked, nobody builds on in debt, no work takes more    *)
(* than there is, a prepared sector is owned by those in it, and goods     *)
(* move within their limits and are conserved.                             *)
(***************************************************************************)
EXTENDS Economy, Distribution, SetLemmas

-----------------------------------------------------------------------------
(* Arithmetic: numbers stay whole, fractions keep a positive denominator *)

Positive == Nat \ {0}
Fraction == Int \X Positive

LEMMA Product == \A a, b \in Int : a * b \in Int
OBVIOUS

LEMMA PositiveProduct == \A a, b \in Positive : a * b \in Positive
BY DEF Positive

LEMMA Quotient == \A a \in Int, b \in Positive : a \div b \in Int /\ a % b \in Int
BY DEF Positive

LEMMA Bounds ==
    /\ \A a, b \in Int : Lower(a, b) \in Int /\ Higher(a, b) \in Int
    /\ \A a \in Int : Higher(a, 1) \in Positive
BY DEF Positive, Lower, Higher

LEMMA Numerals ==
    /\ {2, 20, 100, 400, 1000, 2400, 10000} \subseteq Positive
    /\ \A a \in Int : a \div 2 \in Int /\ a \div 3 \in Int /\ a \div 20 \in Int
                      /\ a \div 100 \in Int /\ a \div 400 \in Int /\ a \div 1000 \in Int
BY DEF Positive

LEMMA Pairs ==
    /\ \A a \in Int, b \in Positive :
          <<a, b>> \in Fraction /\ <<a, b>>[1] = a /\ <<a, b>>[2] = b
    /\ \A q \in Fraction : q[1] \in Int /\ q[2] \in Positive /\ q = <<q[1], q[2]>>
BY DEF Fraction

LEMMA Fractions ==
    /\ \A q, r \in Fraction : Times(q, r) \in Fraction /\ Less(q, r) \in Fraction
    /\ \A q \in Fraction : Whole(q) \in Int /\ RoundAvg(q) \subseteq Int /\ Rounded(q) \in Int
    /\ \A k \in Int : Percent(k) \in Fraction
<1>1. ASSUME NEW q \in Fraction, NEW r \in Fraction
      PROVE  Times(q, r) \in Fraction /\ Less(q, r) \in Fraction
  <2>1. q[1] * r[1] \in Int /\ q[2] * r[2] \in Positive
    BY Pairs, Product, PositiveProduct
  <2> QED
    BY <2>1, Pairs DEF Times, Less
<1>2. ASSUME NEW q \in Fraction
      PROVE  Whole(q) \in Int /\ RoundAvg(q) \subseteq Int /\ Rounded(q) \in Int
  <2>1. q[1] \in Int /\ q[2] \in Positive
    BY Pairs
  <2>2. Whole(q) \in Int
    BY <2>1, Quotient DEF Whole
  <2>3. RoundAvg(q) \subseteq Int
    BY <2>2 DEF RoundAvg
  <2>4. 2 * q[2] \in Positive /\ 2 * q[1] + q[2] \in Int /\ q[2] - 2 * q[1] \in Int
    BY <2>1 DEF Positive
  <2>5. (2 * q[1] + q[2]) \div (2 * q[2]) \in Int /\ (q[2] - 2 * q[1]) \div (2 * q[2]) \in Int
    BY <2>4, Quotient
  <2>6. Rounded(q) \in Int
    BY <2>5 DEF Rounded
  <2> QED
    BY <2>2, <2>3, <2>6
<1>3. \A k \in Int : Percent(k) \in Fraction
  BY Pairs DEF Percent, Positive
<1> QED
  BY <1>1, <1>2, <1>3

-----------------------------------------------------------------------------
(* The loops in their order *)

Phases == {"idle", "prepare", "reserve", "produce", "goods", "finish",
           "ships", "ocean", "planes", "land", "nat", "age"}

LEMMA Order ==
    /\ After("prepare") = "reserve" /\ After("reserve") = "produce"
    /\ After("produce") = "goods" /\ After("goods") = "finish"
    /\ After("finish") = "ships" /\ After("ships") = "ocean"
    /\ After("ocean") = "planes" /\ After("planes") = "land"
    /\ After("land") = "nat" /\ After("nat") = "age" /\ After("age") = "idle"
<1>1. DOMAIN Loops = 1..11 /\ Len(Loops) = 11
  BY DEF Loops
<1>2. /\ Loops[1] = "prepare" /\ Loops[2] = "reserve" /\ Loops[3] = "produce"
      /\ Loops[4] = "goods" /\ Loops[5] = "finish" /\ Loops[6] = "ships"
      /\ Loops[7] = "ocean" /\ Loops[8] = "planes" /\ Loops[9] = "land"
      /\ Loops[10] = "nat" /\ Loops[11] = "age"
  BY DEF Loops
<1>3. ASSUME NEW k \in 1..11
      PROVE  After(Loops[k]) = IF k = 11 THEN "idle" ELSE Loops[k + 1]
  <2>1. \A j \in DOMAIN Loops : Loops[j] = Loops[k] => j = k
    BY <1>1, <1>2
  <2>2. (CHOOSE j \in DOMAIN Loops : Loops[j] = Loops[k]) = k
    BY <2>1, <1>1
  <2> QED
    BY <2>2, <1>1 DEF After
<1> QED
  BY <1>2, <1>3

-----------------------------------------------------------------------------
(* Types: numbers are whole, rows belong to nations and lie in sectors *)

SectorRow == [own : 0..NNations, oldOwn : 0..NNations, type : Types, newType : Types,
              effic : Int, avail : Int, work : Int, loyal : Int, off : BOOLEAN,
              items : [Items -> Int], deposit : [Deposits -> Int]]
UnitRow == [own : 0..NNations, at : Sectors, effic : Int, off : BOOLEAN,
            items : [Items -> Int]]
NationRow == [money : Int, reserve : Int, level : [Levels -> Int]]

Typed ==
    /\ sect \in [Sectors -> SectorRow]
    /\ unit \in [Units -> UnitRow]
    /\ nat \in [Nations -> NationRow]
    /\ budget \in [Nations -> Budget]
    /\ phase \in Phases /\ row \in 1..Rows(phase)
    /\ enlistPay \in [Nations -> Int] /\ onCredit \in [Nations -> Int]

\* The assumptions on the constants, in the form the proofs need them.
LEMMA Constants ==
    /\ NNations \in Nat /\ NSectors \in Positive /\ NUnits \in Positive
    /\ {"civil", "milit", "uw", "food", "bar", "lcm", "hcm", "oil"} \subseteq Items
    /\ {"fertil", "oil"} \subseteq Deposits
    /\ {OilField, Agri} \subseteq Types
    /\ {TypeChr[OilField].product, TypeChr[Agri].product} \subseteq Products
    /\ Dollar \in Positive /\ Etu \in Int /\ ItemMax \in Int
    /\ {CivTax, UwTax, BankInterest, MilPay, ReservePay} \subseteq Int
    /\ {CivBirths, UwBirths, Eats, BabyEats, WorkBump} \subseteq Int
    /\ \A k \in {"ship", "plane", "land"} : GrowCap[k] \in Int
    /\ Playing \subseteq Nations
BY EconomyAssumption DEF Positive

LEMMA Tables ==
    /\ \A t \in Types :
         /\ {TypeChr[t].maxpop, TypeChr[t].bwork, TypeChr[t].cost, TypeChr[t].peff} \subseteq Int
         /\ TypeChr[t].maint \in Nat
         /\ TypeChr[t].product \in Products \cup {"none"}
    /\ \A u \in Units :
         /\ {UnitChr[u].bwork, UnitChr[u].lcm, UnitChr[u].hcm, UnitChr[u].cost} \subseteq Int
         /\ \A i \in Items : UnitChr[u].room[i] \in Int
         /\ Kind[u] \in {"ship", "plane", "land"}
<1>1. ASSUME NEW t \in Types
      PROVE  /\ {TypeChr[t].maxpop, TypeChr[t].bwork, TypeChr[t].cost, TypeChr[t].peff}
                    \subseteq Int
             /\ TypeChr[t].maint \in Nat
             /\ TypeChr[t].product \in Products \cup {"none"}
  <2>1. TypeChr[t] \in TypeRecord
    BY EconomyAssumption
  <2> QED
    BY <2>1 DEF TypeRecord
<1>2. ASSUME NEW u \in Units
      PROVE  /\ {UnitChr[u].bwork, UnitChr[u].lcm, UnitChr[u].hcm, UnitChr[u].cost}
                    \subseteq Int
             /\ \A i \in Items : UnitChr[u].room[i] \in Int
             /\ Kind[u] \in {"ship", "plane", "land"}
  <2>1. UnitChr[u] \in UnitRecord /\ Kind[u] \in {"ship", "plane", "land"} /\ ItemMax \in Nat
    BY EconomyAssumption
  <2> QED
    BY <2>1 DEF UnitRecord
<1> QED
  BY <1>1, <1>2

\* What the proofs say of a product.
ProductTyped(d) ==
    /\ d.bwork \in Int /\ d.cost \in Int /\ d.nrdep \in Nat
    /\ d.min \in Int /\ d.lag \in Int /\ d.output \in Items \cup {"level"}
    /\ d.needs \in Levels \cup {"none"} /\ d.resource \in Deposits \cup {"none"}
    /\ \A k \in 1..3 : d.inputs[k].item \in Items /\ d.inputs[k].amount \in Nat

LEMMA ProductTable ==
    ASSUME NEW c \in Products
    PROVE  ProductTyped(ProductChr[c])
<1>1. ProductChr[c] \in ProductRecord
  BY EconomyAssumption
<1>2. ProductChr[c].inputs \in [1..3 -> Input]
  BY <1>1 DEF ProductRecord
<1>3. \A k \in 1..3 : ProductChr[c].inputs[k] \in Input
  BY <1>2
<1>4. \A k \in 1..3 : ProductChr[c].inputs[k].item \in Items
                      /\ ProductChr[c].inputs[k].amount \in Nat
  BY <1>3 DEF Input
<1> QED
  BY <1>1, <1>4 DEF ProductRecord, ProductTyped

LEMMA Advancing ==
    ASSUME Typed, phase # "idle", Advance
    PROVE  /\ phase' \in Phases /\ row' \in 1..Rows(phase')
           /\ phase' = "prepare" => phase = "prepare"
           /\ phase' = "reserve" => phase \in {"prepare", "reserve"}
           /\ phase = "nat" => phase' = "age"
           /\ phase = "age" => phase' = "idle"
           /\ phase' = "age" => phase = "nat"
<1>1. \A p \in Phases : Rows(p) \in Nat /\ 1 \in 1..Rows(p)
  BY Constants DEF Rows, Positive
<1>2. CASE row < Rows(phase)
  <2>1. row' = row + 1 /\ phase' = phase
    BY <1>2 DEF Advance
  <2>2. row' \in 1..Rows(phase)
    BY <2>1, <1>1, <1>2 DEF Typed
  <2>3. phase \notin {"nat", "age"}
    BY <1>2 DEF Typed, Rows
  <2> QED
    BY <2>1, <2>2, <2>3 DEF Typed
<1>3. CASE ~(row < Rows(phase))
  <2>1. row' = 1 /\ phase' = After(phase)
    BY <1>3 DEF Advance
  <2>2. phase \in Phases
    BY DEF Typed
  <2>3. /\ phase' \in Phases
        /\ phase' = "prepare" => phase = "prepare"
        /\ phase' = "reserve" => phase \in {"prepare", "reserve"}
        /\ phase = "nat" => phase' = "age"
        /\ phase = "age" => phase' = "idle"
        /\ phase' = "age" => phase = "nat"
    BY <2>1, <2>2, Order DEF Phases
  <2> QED
    BY <2>1, <2>3, <1>1
<1> QED
  BY <1>2, <1>3

-----------------------------------------------------------------------------
(* What is booked under a heading is what the balance changes by *)

LEMMA Booking ==
    ASSUME NEW b \in Budget, NEW h \in Headings, NEW m \in Int
    PROVE  /\ Book(b, h, m) \in Budget
           /\ Book(b, h, m).money = b.money + m
           /\ Book(b, h, m).start = b.start
           /\ Booked(Book(b, h, m)) = Booked(b) + m
           /\ Booked(b) \in Int
<1>1. \A g \in Headings : b.book[g] \in Int
  BY DEF Budget
<1>2. /\ Book(b, h, m) \in Budget
      /\ Book(b, h, m).money = b.money + m
      /\ Book(b, h, m).start = b.start
  <2>1. b.book \in [Headings -> Int] /\ b.start \in Int /\ b.money \in Int
    BY DEF Budget
  <2>2. [b.book EXCEPT ![h] = @ + m] \in [Headings -> Int]
    BY <2>1
  <2> QED
    BY <2>1, <2>2 DEF Budget, Book
<1>3. \A g \in Headings : Book(b, h, m).book[g] = IF g = h THEN b.book[g] + m ELSE b.book[g]
  BY DEF Budget, Book
<1>4. Booked(b) \in Int
  BY <1>1 DEF Booked, Headings
<1>5. Booked(Book(b, h, m)) = Booked(b) + m
  BY <1>1, <1>3 DEF Booked, Headings
<1> QED
  BY <1>2, <1>4, <1>5

\* A budget that has booked something has the same account of its balance.
Kept(b, c) ==
    /\ c \in Budget /\ c.start = b.start
    /\ c.money - Booked(c) = b.money - Booked(b)

LEMMA Keeping ==
    ASSUME NEW a, NEW b \in Budget, NEW h \in Headings, NEW m \in Int, Kept(a, b)
    PROVE  Kept(a, Book(b, h, m))
<1>1. a.money - Booked(a) = b.money - Booked(b)
  BY DEF Kept
<1>2. b.money \in Int /\ Booked(b) \in Int
  BY Booking DEF Budget
<1>3. Book(b, h, m).money = b.money + m /\ Booked(Book(b, h, m)) = Booked(b) + m
  BY Booking
<1>4. Book(b, h, m).money - Booked(Book(b, h, m)) = b.money - Booked(b)
  BY <1>2, <1>3
<1> QED
  BY <1>1, <1>4, Booking DEF Kept

-----------------------------------------------------------------------------
(* Rows that are rewritten stay rows *)

LEMMA SectorFields ==
    ASSUME NEW p \in SectorRow
    PROVE  /\ p.own \in 0..NNations /\ p.oldOwn \in 0..NNations
           /\ p.type \in Types /\ p.newType \in Types /\ p.effic \in Int /\ p.avail \in Int
           /\ p.work \in Int /\ p.loyal \in Int /\ p.off \in BOOLEAN
           /\ \A i \in Items : p.items[i] \in Int
           /\ \A d \in Deposits : p.deposit[d] \in Int
BY DEF SectorRow

LEMMA SectorRewrites ==
    ASSUME NEW p \in SectorRow, NEW x \in Int, NEW i \in Items, NEW d \in Deposits
    PROVE  /\ [p EXCEPT !.avail = x] \in SectorRow
           /\ [p EXCEPT !.effic = x] \in SectorRow
           /\ [p EXCEPT !.work = x] \in SectorRow
           /\ [p EXCEPT !.type = p.newType] \in SectorRow
           /\ [p EXCEPT !.oldOwn = p.own] \in SectorRow
           /\ [p EXCEPT !.items[i] = x] \in SectorRow
           /\ [p EXCEPT !.deposit[d] = x] \in SectorRow
BY DEF SectorRow

LEMMA AddedTyped ==
    /\ \A p \in SectorRow, i \in Items, k \in Int : Added(p, i, k) \in SectorRow
    /\ \A u \in UnitRow, i \in Items, k \in Int : Added(u, i, k) \in UnitRow
BY DEF SectorRow, UnitRow, Added

LEMMA FedTyped ==
    ASSUME NEW p \in SectorRow
    PROVE  Fed(p) \subseteq SectorRow
<1> DEFINE civ == p.items["civil"]
           uw == p.items["uw"]
           people == civ + uw + p.items["milit"]
           babies == (civ * CivBirths) \div 1000
           babyUw == (uw * UwBirths) \div 1000
           need == (people + babies + babyUw) * Eats + (babies + babyUw) * BabyEats
           left == 1000 * p.items["food"] - need
<1>1. civ \in Int /\ uw \in Int /\ p.items["milit"] \in Int /\ p.items["food"] \in Int
  BY SectorFields, Constants
<1>2. civ * CivBirths \in Int /\ uw * UwBirths \in Int
  BY <1>1, Constants, Product
<1>3. babies \in Int /\ babyUw \in Int
  <2> HIDE DEF civ, uw
  <2> QED
    BY <1>2, Numerals
<1>4. need \in Int
  <2>1. people + babies + babyUw \in Int /\ babies + babyUw \in Int
    BY <1>1, <1>3
  <2> QED
    BY <2>1, Constants, Product
<1>5. left \in Int
  BY <1>1, <1>4
<1>6. CASE people = 0 \/ need <= 0
  BY <1>6 DEF Fed
<1>7. CASE ~(people = 0 \/ need <= 0) /\ left >= 0
  <2>1. Fed(p) = {[Added(Added(p, "civil", babies), "uw", babyUw)
                    EXCEPT !.items["food"] = left \div 1000, !.work = Lower(p.work + WorkBump, 100)]}
    BY <1>7 DEF Fed
  <2>2. left \div 1000 \in Int
    BY <1>5, Numerals
  <2> HIDE DEF left, babies, babyUw
  <2>3. Added(Added(p, "civil", babies), "uw", babyUw) \in SectorRow
    BY <1>3, AddedTyped, Constants
  <2>4. Lower(p.work + WorkBump, 100) \in Int
    <3>1. p.work \in Int /\ WorkBump \in Int
      BY Constants, SectorFields
    <3> QED
      BY <3>1 DEF Lower
  <2>5. \A q \in SectorRow, x, y \in Int :
            [q EXCEPT !.items["food"] = x, !.work = y] \in SectorRow
    BY Constants DEF SectorRow
  <2>6. [Added(Added(p, "civil", babies), "uw", babyUw)
            EXCEPT !.items["food"] = left \div 1000, !.work = Lower(p.work + WorkBump, 100)]
        \in SectorRow
    <3> DEFINE x == left \div 1000
               y == Lower(p.work + WorkBump, 100)
               q == Added(Added(p, "civil", babies), "uw", babyUw)
    <3>1. x \in Int /\ y \in Int /\ q \in SectorRow
      BY <2>2, <2>3, <2>4
    <3> HIDE DEF x, y, q
    <3>2. [q EXCEPT !.items["food"] = x, !.work = y] \in SectorRow
      BY <3>1, <2>5
    <3> QED
      BY <3>2 DEF x, y, q
  <2> QED
    BY <2>1, <2>6
<1>8. CASE ~(people = 0 \/ need <= 0) /\ ~(left >= 0)
  <2>1. Fed(p) = {[Added(Added(p, "civil", -c), "uw", -u) EXCEPT !.items["food"] = 0] :
                c \in RoundAvg(<<-left * civ, 2 * need>>), u \in RoundAvg(<<-left * uw, 2 * need>>)}
    BY <1>8 DEF Fed
  <2>2. 2 * need \in Positive
    BY <1>8, <1>4 DEF Positive
  <2>5. -left * civ \in Int /\ -left * uw \in Int
    <3> HIDE DEF left, civ, uw
    <3>1. left * civ \in Int /\ left * uw \in Int
      BY <1>1, <1>5, Product
    <3> QED
      BY <3>1
  <2>3. /\ RoundAvg(<<-left * civ, 2 * need>>) \subseteq Int
        /\ RoundAvg(<<-left * uw, 2 * need>>) \subseteq Int
    BY <2>2, <2>5, Pairs, Fractions
  <2> HIDE DEF left, need, civ, uw
  <2>4. ASSUME NEW c \in Int, NEW u \in Int
        PROVE  [Added(Added(p, "civil", -c), "uw", -u) EXCEPT !.items["food"] = 0] \in SectorRow
    <3>1. Added(Added(p, "civil", -c), "uw", -u) \in SectorRow
      BY AddedTyped, Constants
    <3>2. \A q \in SectorRow : [q EXCEPT !.items["food"] = 0] \in SectorRow
      BY Constants DEF SectorRow
    <3> QED
      BY <3>1, <3>2
  <2> QED
    BY <2>1, <2>3, <2>4
<1> QED
  BY <1>6, <1>7, <1>8

LEMMA CheckPopLossTyped ==
    ASSUME NEW q \in SectorRow
    PROVE  CheckPopLoss(q) \in SectorRow
<1>1. \A x, y \in Int, n \in 0..NNations :
         [q EXCEPT !.work = x, !.loyal = y, !.oldOwn = n] \in SectorRow
  BY DEF SectorRow
<1>2. \A x, y \in Int, n \in 0..NNations :
         [q EXCEPT !.work = x, !.loyal = y, !.own = n, !.oldOwn = n] \in SectorRow
  BY DEF SectorRow
<1>3. 0 \in 0..NNations /\ q.own \in 0..NNations
  BY Constants, SectorFields
<1>4. [q EXCEPT !.work = 100, !.loyal = 0, !.oldOwn = q.own] \in SectorRow
  <2> DEFINE x == 100
             y == 0
             n == q.own
  <2>1. x \in Int /\ y \in Int /\ n \in 0..NNations
    BY <1>3
  <2> HIDE DEF x, y, n
  <2>2. [q EXCEPT !.work = x, !.loyal = y, !.oldOwn = n] \in SectorRow
    BY <1>1, <2>1
  <2> QED
    BY <2>2 DEF x, y, n
<1>5. [q EXCEPT !.work = 100, !.loyal = 0, !.own = 0, !.oldOwn = 0] \in SectorRow
  <2> DEFINE x == 100
             y == 0
  <2>1. x \in Int /\ y \in Int /\ y \in 0..NNations
    BY <1>3
  <2> HIDE DEF x, y
  <2>2. [q EXCEPT !.work = x, !.loyal = y, !.own = y, !.oldOwn = y] \in SectorRow
    BY <1>2, <2>1
  <2> QED
    BY <2>2 DEF x, y
<1> QED
  BY <1>4, <1>5 DEF CheckPopLoss

LEMMA SettledTyped ==
    ASSUME NEW p \in SectorRow
    PROVE  Settled(p) \in SectorRow
<1>1. Truncated(p) \in SectorRow
  <2> DEFINE maxpop == Higher(TypeChr[p.type].maxpop, 1)
             Cut(q, i) == [q EXCEPT !.items[i] = Lower(@, maxpop)]
  <2>1. maxpop \in Int
    BY Tables, SectorFields DEF Higher
  <2> HIDE DEF maxpop
  <2>2. \A q \in SectorRow, i \in Items : Cut(q, i) \in SectorRow
    BY <2>1 DEF SectorRow, Lower
  <2> HIDE DEF Cut
  <2>3. Cut(Cut(p, "civil"), "uw") \in SectorRow
    BY <2>2, Constants
  <2> QED
    BY <2>3 DEF Truncated, Cut, maxpop
<1>2. \A q \in SectorRow : CheckPopLoss(q) \in SectorRow
  BY CheckPopLossTyped
<1>3. \A q \in SectorRow : Reconciled(q) \in SectorRow
  BY DEF Reconciled, SectorRow
<1> QED
  BY <1>1, <1>2, <1>3 DEF Settled

LEMMA WorkersTyped ==
    ASSUME NEW work \in Int, NEW items \in [Items -> Int], NEW maxpop \in Int
    PROVE  RoundAvg(Workers(work, items, maxpop)) \subseteq Int
<1> DEFINE c == Lower(items["civil"], maxpop)
           m == Lower(items["milit"], maxpop)
           u == Lower(items["uw"], maxpop)
<1>1. c \in Int /\ m \in Int /\ u \in Int
  BY Constants, Bounds
<1> HIDE DEF c, m, u
<1>2. c * work \in Int
  BY <1>1, Product
<1>3. c * work + 40 * m + 100 * u \in Int /\ Etu \in Int /\ 10000 \in Positive
  BY <1>1, <1>2, Constants, Numerals
<1>4. (c * work + 40 * m + 100 * u) * Etu \in Int
  BY <1>3, Product
<1>5. <<(c * work + 40 * m + 100 * u) * Etu, 10000>> \in Fraction
  BY <1>3, <1>4, Pairs
<1>6. Workers(work, items, maxpop) = <<(c * work + 40 * m + 100 * u) * Etu, 10000>>
  BY DEF Workers, c, m, u
<1> QED
  BY <1>5, <1>6, Fractions

LEMMA PreparedTyped ==
    ASSUME NEW p \in SectorRow
    PROVE  Prepared(p) \subseteq SectorRow
<1> DEFINE m == Higher(TypeChr[p.type].maxpop, 1)
           rested == {[p EXCEPT !.avail = Lower(@ \div 2 + w, 10000)] :
                        w \in RoundAvg(Workers(p.work, p.items, m))}
<1>1. m \in Int /\ p.work \in Int /\ p.items \in [Items -> Int]
  BY Tables, SectorFields DEF Higher, SectorRow
<1> HIDE DEF m
<1>2. RoundAvg(Workers(p.work, p.items, m)) \subseteq Int
  BY <1>1, WorkersTyped
<1>3. ASSUME NEW w \in Int
      PROVE  [p EXCEPT !.avail = Lower(@ \div 2 + w, 10000)] \in SectorRow
  <2>1. p.avail \div 2 \in Int
    BY SectorFields, Numerals
  <2>2. Lower(p.avail \div 2 + w, 10000) \in Int
    BY <2>1 DEF Lower
  <2>3. \A x \in Int : [p EXCEPT !.avail = x] \in SectorRow
    BY DEF SectorRow
  <2> QED
    BY <2>2, <2>3
<1>4. rested \subseteq SectorRow
  BY <1>2, <1>3
<1> HIDE DEF rested
<1>5. Prepared(p) = IF Wild(p) THEN {p}
                    ELSE IF p.own = 0 THEN rested
                    ELSE {Settled(q) : q \in UNION {Fed(r) : r \in rested}}
  BY DEF Prepared, rested, m
<1>6. UNION {Fed(r) : r \in rested} \subseteq SectorRow
  BY <1>4, FedTyped
<1>7. {Settled(q) : q \in UNION {Fed(r) : r \in rested}} \subseteq SectorRow
  BY <1>6, SettledTyped
<1> QED
  BY <1>4, <1>5, <1>7

LEMMA TaxedKept ==
    ASSUME NEW b \in Budget, NEW p \in SectorRow
    PROVE  Kept(b, Taxed(b, p))
<1> DEFINE share(rate, k) == (rate * p.items[k] * p.effic) \div 100
           bars == IF TypeChr[p.type].bank THEN share(BankInterest, "bar") ELSE 0
           civ == (CivTax * p.items["civil"] * p.effic)
                    \div (IF p.oldOwn = p.own THEN 100 ELSE 400)
           mil == MilPay * p.items["milit"]
           uw == share(UwTax, "uw")
<1>1. ASSUME NEW rate \in Int, NEW k \in Items
      PROVE  rate * p.items[k] * p.effic \in Int /\ share(rate, k) \in Int
  <2>1. p.items[k] \in Int /\ p.effic \in Int
    BY SectorFields
  <2>2. rate * p.items[k] \in Int
    BY <2>1, Product
  <2>3. rate * p.items[k] * p.effic \in Int
    BY <2>1, <2>2, Product
  <2> QED
    BY <2>3, Numerals
<1>2. {CivTax, UwTax, BankInterest, MilPay} \subseteq Int
      /\ {"civil", "milit", "uw", "bar"} \subseteq Items
  BY Constants
<1>3. bars \in Int /\ uw \in Int
  BY <1>1, <1>2
<1>4. civ \in Int
  <2>1. CivTax * p.items["civil"] * p.effic \in Int
    BY <1>1, <1>2
  <2> QED
    BY <2>1, Numerals
<1>5. mil \in Int
  BY <1>2, SectorFields, Product
<1> HIDE DEF share, bars, civ, mil, uw
<1>6. {"civ", "uw", "mil", "bars"} \subseteq Headings
  BY DEF Headings
<1>7. Kept(b, b)
  BY DEF Kept
<1>8. Kept(b, Book(b, "civ", civ)) /\ Book(b, "civ", civ) \in Budget
  BY <1>4, <1>6, <1>7, Keeping DEF Kept
<1> DEFINE b1 == Book(b, "civ", civ)
<1> HIDE DEF b1
<1>9. Kept(b, Book(b1, "uw", uw)) /\ Book(b1, "uw", uw) \in Budget
  BY <1>3, <1>6, <1>8, Keeping DEF Kept, b1
<1> DEFINE b2 == Book(b1, "uw", uw)
<1> HIDE DEF b2
<1>10. Kept(b, Book(b2, "mil", mil)) /\ Book(b2, "mil", mil) \in Budget
  BY <1>5, <1>6, <1>9, Keeping DEF Kept, b2
<1> DEFINE b3 == Book(b2, "mil", mil)
<1> HIDE DEF b3
<1>11. Kept(b, Book(b3, "bars", bars))
  BY <1>3, <1>6, <1>10, Keeping DEF b3
<1> QED
  BY <1>11 DEF b3, b2, b1, Taxed, share, bars, civ, mil, uw

LEMMA BuildTyped ==
    ASSUME NEW p \in SectorRow
    PROVE  BuildEff(p) \in SectorRow /\ BuildCost(p) \in Int
<1>1. \A q \in SectorRow : Builders(q) \in Int /\ BuildWork(q) \in Positive
  <2> SUFFICES ASSUME NEW q \in SectorRow
               PROVE  Builders(q) \in Int /\ BuildWork(q) \in Positive
    OBVIOUS
  <2>1. q.avail \div 2 \in Int /\ TypeChr[q.type].bwork \in Int
    BY SectorFields, Numerals, Tables
  <2> QED
    <3>1. 100 * (q.avail \div 2) \in Int
      BY <2>1
    <3>2. Higher(TypeChr[q.type].bwork, 1) \in Positive
      BY <2>1, Bounds
    <3> QED
      BY <3>1, <3>2 DEF Builders, BuildWork
<1>2. TornDown(p) \in Int
  <2>1. (4 * Builders(p)) \div BuildWork(p) \in Int
    <3>1. 4 * Builders(p) \in Int /\ BuildWork(p) \in Positive
      BY <1>1
    <3> QED
      BY <3>1, Quotient
  <2> QED
    <3>1. p.effic \in Int
      BY SectorFields
    <3>2. Lower((4 * Builders(p)) \div BuildWork(p), p.effic) \in Int
      BY <2>1, <3>1, Bounds
    <3> QED
      BY <3>2 DEF TornDown
<1>3. Cleared(p) \in SectorRow
  <2> DEFINE x == p.effic - TornDown(p)
             q == [p EXCEPT !.effic = x]
  <2>1. x \in Int
    BY <1>2, SectorFields
  <2> HIDE DEF x
  <2>2. q \in SectorRow /\ q.effic = x
    BY <2>1, SectorRewrites, Constants DEF SectorRow
  <2>3. p.newType \in Types
    BY SectorFields
  <2>4. [q EXCEPT !.type = p.newType] \in SectorRow
    <3> HIDE DEF q
    <3> QED
      BY <2>2, <2>3 DEF SectorRow
  <2> QED
    BY <2>2, <2>4 DEF Cleared, x
<1> DEFINE q == Cleared(p)
<1>4. q \in SectorRow
  BY <1>3
<1> HIDE DEF q
<1>5. Grown(q) \in Int
  <2>1. Builders(q) \div BuildWork(q) \in Int
    BY <1>1, <1>4, Quotient
  <2>2. 100 - q.effic \in Int
    BY <1>4, SectorFields
  <2> QED
    <3>1. Lower(Builders(q) \div BuildWork(q), 100 - q.effic) \in Int
      BY <2>1, <2>2, Bounds
    <3> QED
      BY <3>1 DEF Grown
<1>6. BuildEff(p) \in SectorRow
  <2> DEFINE x == q.effic + Grown(q)
             y == (q.avail + 1) \div 2 + Builders(q) \div 100
  <2>1. x \in Int
    BY <1>4, <1>5, SectorFields
  <2>2. y \in Int
    <3>1. q.avail + 1 \in Int /\ Builders(q) \in Int
      BY <1>1, <1>4, SectorFields
    <3>2. (q.avail + 1) \div 2 \in Int /\ Builders(q) \div 100 \in Int
      BY <3>1, Numerals
    <3> QED
      BY <3>2
  <2> HIDE DEF x, y
  <2>3. [q EXCEPT !.effic = x, !.avail = y] \in SectorRow
    BY <2>1, <2>2, <1>4 DEF SectorRow
  <2> QED
    BY <2>3 DEF BuildEff, x, y, q
<1>7. BuildCost(p) \in Int
  <2>1. TypeChr[q.type].cost \in Int /\ Dollar \in Int
    BY <1>4, SectorFields, Tables, Constants DEF Positive
  <2>2. Grown(q) * TypeChr[q.type].cost \in Int
    BY <2>1, <1>5, Product
  <2>3. 25 * TornDown(p) + Grown(q) * TypeChr[q.type].cost \in Int
    BY <2>2, <1>2
  <2>4. Dollar * (25 * TornDown(p) + Grown(q) * TypeChr[q.type].cost) \in Int
    BY <2>1, <2>3, Product
  <2> QED
    BY <2>4, Numerals DEF BuildCost, q
<1> QED
  BY <1>6, <1>7

LEMMA RecruitsTyped ==
    ASSUME NEW p \in SectorRow, NEW chr
    PROVE  Recruits(p, chr) \in Int /\ Enlist(p, Recruits(p, chr)) \in SectorRow
<1>1. p.items["milit"] \in Int /\ p.items["civil"] \in Int /\ Etu \in Int
  BY SectorFields, Constants
<1>2. Etu * (10 + p.items["milit"]) \in Int
  <2>1. 10 + p.items["milit"] \in Int
    BY <1>1
  <2> QED
    BY <2>1, <1>1, Product
<1>3. /\ (Etu * (10 + p.items["milit"])) \div 20 \in Int
      /\ p.items["civil"] \div 2 - p.items["milit"] \in Int
  BY <1>1, <1>2, Numerals
<1>4. Recruits(p, chr) \in Int
  <2> DEFINE x == (Etu * (10 + p.items["milit"])) \div 20
             y == p.items["civil"] \div 2 - p.items["milit"]
  <2>1. x \in Int /\ y \in Int
    BY <1>3
  <2>2. Recruits(p, chr) = 0 \/ Recruits(p, chr) = Higher(0, Lower(x, y))
    BY DEF Recruits
  <2> HIDE DEF x, y
  <2>3. Higher(0, Lower(x, y)) \in Int
    BY <2>1, Bounds
  <2> QED
    BY <2>2, <2>3
<1>5. -Recruits(p, chr) \in Int
  BY <1>4
<1> QED
  BY <1>4, <1>5, AddedTyped, Constants DEF Enlist

-----------------------------------------------------------------------------
(* Products *)

LEMMA ResourceTyped ==
    ASSUME NEW p \in SectorRow, NEW d, ProductTyped(d)
    PROVE  Resource(p, d) \in Int /\ ResourceLimit(p, d) \in Fraction
<1>1. Resource(p, d) \in Int
  BY SectorFields DEF Resource, ProductTyped
<1>2. <<9999, 1>> \in Fraction
  BY Pairs DEF Positive
<1>3. d.nrdep # 0 => <<100 * Resource(p, d), d.nrdep>> \in Fraction
  BY <1>1, Pairs DEF ProductTyped, Positive
<1> QED
  BY <1>1, <1>2, <1>3 DEF ResourceLimit

LEMMA EfficiencyTyped ==
    ASSUME NEW d, ProductTyped(d), NEW level \in [Levels -> Int], NEW peff \in Int
    PROVE  ProdEff(d, level, peff) \in Fraction
<1>1. CASE d.needs = "none"
  BY <1>1, Fractions DEF ProdEff
<1>2. CASE d.needs # "none"
  <2> DEFINE delta == level[d.needs] - d.min
  <2>1. delta \in Int /\ d.lag \in Int
    BY <1>2 DEF ProductTyped
  <2>2. ProdEff(d, level, peff) =
            IF delta < 0 THEN <<0, 1>> ELSE <<delta * peff, 100 * Higher(d.lag + delta, 1)>>
    BY <1>2 DEF ProdEff
  <2> HIDE DEF delta
  <2>3. delta * peff \in Int /\ 100 * Higher(d.lag + delta, 1) \in Positive
    <3>1. d.lag + delta \in Int /\ 100 \in Positive
      BY <2>1, Numerals
    <3>2. Higher(d.lag + delta, 1) \in Positive
      BY <3>1, Bounds
    <3> QED
      BY <2>1, <3>1, <3>2, Product, PositiveProduct
  <2>4. <<delta * peff, 100 * Higher(d.lag + delta, 1)>> \in Fraction /\ <<0, 1>> \in Fraction
    BY <2>3, Pairs DEF Positive
  <2> QED
    BY <2>2, <2>4
<1> QED
  BY <1>1, <1>2

\* What is less than two fractions is positive only if both are.
LEMMA LessPositive ==
    ASSUME NEW q \in Fraction, NEW r \in Fraction, Less(q, r)[1] > 0
    PROVE  q[1] > 0 /\ r[1] > 0
<1>1. /\ q[1] \in Int /\ r[1] \in Int
      /\ q[2] \in Nat /\ r[2] \in Nat /\ q[2] > 0 /\ r[2] > 0
  BY Pairs DEF Positive
<1>2. \A a, b \in Int : b > 0 => (a * b > 0 <=> a > 0)
  OBVIOUS
<1>3. CASE q[1] * r[2] <= r[1] * q[2]
  <2>1. q[1] > 0
    BY <1>3 DEF Less
  <2>2. q[1] * r[2] > 0
    BY <2>1, <1>1, <1>2
  <2>3. q[1] * r[2] \in Int /\ r[1] * q[2] \in Int
    BY <1>1, Product
  <2>4. r[1] * q[2] > 0
    BY <2>2, <2>3, <1>3
  <2> QED
    BY <2>1, <2>4, <1>1, <1>2
<1>4. CASE ~(q[1] * r[2] <= r[1] * q[2])
  <2>1. r[1] > 0
    BY <1>4 DEF Less
  <2>2. r[1] * q[2] > 0
    BY <2>1, <1>1, <1>2
  <2>3. q[1] * r[2] \in Int /\ r[1] * q[2] \in Int
    BY <1>1, Product
  <2>4. q[1] * r[2] > 0
    BY <2>2, <2>3, <1>4
  <2> QED
    BY <2>1, <2>4, <1>1, <1>2
<1> QED
  BY <1>3, <1>4

LEMMA BatchTyped ==
    ASSUME NEW p \in SectorRow, NEW d, ProductTyped(d)
    PROVE  /\ Batch(p, d) \in Fraction
           /\ Batch(p, d)[1] > 0 => p.avail * p.effic * Resource(p, d) > 0
<1> DEFINE limit(k) == IF d.inputs[k].amount = 0 THEN <<9999, 1>>
                       ELSE <<p.items[d.inputs[k].item], d.inputs[k].amount>>
<1>1. <<9999, 1>> \in Fraction
  BY Pairs DEF Positive
<1>2. ASSUME NEW k \in 1..3
      PROVE  limit(k) \in Fraction
  <2>1. p.items[d.inputs[k].item] \in Int
    BY SectorFields DEF ProductTyped
  <2>2. d.inputs[k].amount # 0 => d.inputs[k].amount \in Positive
    BY DEF ProductTyped, Positive
  <2> QED
    BY <1>1, <2>1, <2>2, Pairs
<1>3. MaterialLimit(p, d) = Less(Less(<<9999, 1>>, limit(1)), Less(limit(2), limit(3)))
  BY DEF MaterialLimit
<1> HIDE DEF limit
<1>4. MaterialLimit(p, d) \in Fraction
  BY <1>1, <1>2, <1>3, Fractions
<1> DEFINE n == p.avail * p.effic * Resource(p, d)
           m == 10000 * Higher(d.bwork, 1)
<1>5. n \in Int
  <2>1. p.avail \in Int /\ p.effic \in Int /\ Resource(p, d) \in Int
    BY SectorFields, ResourceTyped
  <2>2. p.avail * p.effic \in Int
    BY <2>1, Product
  <2> QED
    BY <2>1, <2>2, Product
<1>6. m \in Positive
  <2>1. 10000 \in Positive /\ Higher(d.bwork, 1) \in Positive
    <3>1. d.bwork \in Int
      BY DEF ProductTyped
    <3>2. Higher(d.bwork, 1) \in Positive
      BY <3>1 DEF Higher, Positive
    <3> QED
      BY <3>2, Numerals
  <2> QED
    BY <2>1, PositiveProduct
<1>7. WorkerLimit(p, d) = <<n, m>>
  BY DEF WorkerLimit
<1> HIDE DEF n, m
<1>8. WorkerLimit(p, d) \in Fraction /\ WorkerLimit(p, d)[1] = n
  BY <1>5, <1>6, <1>7, Pairs
<1> DEFINE both == Less(MaterialLimit(p, d), WorkerLimit(p, d))
<1>9. both \in Fraction
  BY <1>4, <1>8, Fractions
<1>10. Batch(p, d) = Less(both, ResourceLimit(p, d))
  BY DEF Batch
<1>11. Batch(p, d) \in Fraction
  BY <1>9, <1>10, ResourceTyped, Fractions
<1>12. ASSUME Batch(p, d)[1] > 0
       PROVE  n > 0
  <2>1. both[1] > 0
    <3> HIDE DEF both
    <3> QED
      BY <1>9, <1>10, <1>12, ResourceTyped, LessPositive
  <2> QED
    BY <2>1, <1>4, <1>8, LessPositive
<1> QED
  BY <1>11, <1>12 DEF n

LEMMA UsedTyped ==
    ASSUME NEW p \in SectorRow, NEW d, ProductTyped(d), NEW pe \in Fraction, pe[1] > 0
    PROVE  Made(p, d, pe) \in Fraction /\ Used(p, d, pe) \in Fraction
<1>1. Batch(p, d) \in Fraction
  BY BatchTyped
<1>2. Times(Batch(p, d), pe) \in Fraction /\ Whole(Times(Batch(p, d), pe)) \in Int
  BY <1>1, Fractions
<1>3. pe[1] \in Positive /\ pe[2] \in Int
  BY Pairs DEF Positive
<1>4. CASE d.output = "level"
  BY <1>1, <1>2, <1>4 DEF Made, Used
<1>5. CASE d.output # "level"
  <2> DEFINE k == Lower(Whole(Times(Batch(p, d), pe)), Higher(ItemMax - p.items[d.output], 0))
  <2>1. Made(p, d, pe) = <<k, 1>> /\ Used(p, d, pe) = <<Made(p, d, pe)[1] * pe[2], pe[1]>>
    BY <1>5 DEF Made, Used
  <2>2. k \in Int
    <3>1. p.items[d.output] \in Int
      BY <1>5, SectorFields DEF ProductTyped
    <3>2. ItemMax - p.items[d.output] \in Int
      BY <3>1, Constants
    <3>3. Higher(ItemMax - p.items[d.output], 0) \in Int
      BY <3>2 DEF Higher
    <3> QED
      BY <3>3, <1>2 DEF Lower
  <2> HIDE DEF k
  <2>3. Made(p, d, pe) \in Fraction /\ Made(p, d, pe)[1] = k
    BY <2>1, <2>2, Pairs DEF Positive
  <2>4. k * pe[2] \in Int
    BY <2>2, <1>3, Product
  <2> QED
    BY <2>1, <2>3, <2>4, <1>3, Pairs
<1> QED
  BY <1>4, <1>5

LEMMA StoredTyped ==
    ASSUME NEW p \in SectorRow, NEW d, ProductTyped(d), NEW pe \in Fraction, pe[1] > 0
    PROVE  Stored(p, d, pe) \in SectorRow
<1> DEFINE use(k, i) == IF d.inputs[k].item # i THEN 0
                        ELSE Rounded(Times(<<d.inputs[k].amount, 1>>, Used(p, d, pe)))
<1>1. ASSUME NEW k \in 1..3, NEW i \in Items
      PROVE  use(k, i) \in Int
  <2>1. <<d.inputs[k].amount, 1>> \in Fraction
    BY Pairs DEF ProductTyped, Positive
  <2>2. Rounded(Times(<<d.inputs[k].amount, 1>>, Used(p, d, pe))) \in Int
    BY <2>1, UsedTyped, Fractions
  <2> QED
    BY <2>2
<1>2. \A i \in Items : Consumed(p, d, pe, i) = use(1, i) + use(2, i) + use(3, i)
  BY DEF Consumed
<1> HIDE DEF use
<1>3. \A i \in Items : Consumed(p, d, pe, i) \in Int
  BY <1>1, <1>2
<1>4. Made(p, d, pe)[1] \in Int
  BY UsedTyped, Pairs
<1> DEFINE f == [i \in Items |-> p.items[i] - Consumed(p, d, pe, i)
                                 + (IF i = d.output THEN Made(p, d, pe)[1] ELSE 0)]
<1>5. f \in [Items -> Int]
  BY <1>3, <1>4, SectorFields
<1> HIDE DEF f
<1>6. [p EXCEPT !.items = f] \in SectorRow
  BY <1>5 DEF SectorRow
<1> QED
  BY <1>6 DEF Stored, f

LEMMA DepletionTyped ==
    ASSUME NEW d, ProductTyped(d), NEW q \in Fraction
    PROVE  Depletion(d, q) \subseteq Int
<1>1. <<d.nrdep, 100>> \in Fraction
  BY Numerals, Pairs DEF ProductTyped
<1>2. RoundAvg(Times(<<d.nrdep, 100>>, q)) \subseteq Int
  BY <1>1, Fractions
<1> QED
  BY <1>2 DEF Depletion

LEMMA DepletedTyped ==
    ASSUME NEW p \in SectorRow, NEW d, ProductTyped(d), NEW k \in Int
    PROVE  Depleted(p, d, k) \in SectorRow
<1>1. CASE d.resource = "none"
  BY <1>1 DEF Depleted
<1>2. CASE d.resource # "none"
  <2>1. d.resource \in Deposits
    BY <1>2 DEF ProductTyped
  <2> DEFINE x == Higher(p.deposit[d.resource] - k, 0)
  <2>2. x \in Int
    <3>1. p.deposit[d.resource] - k \in Int
      BY <2>1, SectorFields
    <3> QED
      BY <3>1 DEF Higher
  <2> HIDE DEF x
  <2>3. [p EXCEPT !.deposit[d.resource] = x] \in SectorRow
    BY <2>1, <2>2 DEF SectorRow
  <2> QED
    BY <1>2, <2>3 DEF Depleted, x
<1> QED
  BY <1>1, <1>2

LEMMA TiredTyped ==
    ASSUME NEW p \in SectorRow, NEW w \in Int
    PROVE  Tired(p, w) \in SectorRow
<1> DEFINE x == Higher(p.avail - w, 0)
<1>1. x \in Int
  <2>1. p.avail - w \in Int
    BY SectorFields
  <2> QED
    BY <2>1 DEF Higher
<1> HIDE DEF x
<1>2. [p EXCEPT !.avail = x] \in SectorRow
  BY <1>1 DEF SectorRow
<1> QED
  BY <1>2 DEF Tired, x

\* A positive batch needs a resource, so its labour is a fraction.
LEMMA LabourTyped ==
    ASSUME NEW p \in SectorRow, NEW d, ProductTyped(d),
           p.effic >= 60, p.avail > 0, Batch(p, d)[1] > 0
    PROVE  Labour(p, d) \subseteq Int
<1>1. /\ p.effic \in Positive /\ p.avail \in Positive /\ Resource(p, d) \in Int
  BY SectorFields, ResourceTyped DEF Positive
<1>2. p.avail * p.effic \in Positive
  BY <1>1, PositiveProduct
<1>3. Resource(p, d) \in Positive
  <2> DEFINE a == p.avail * p.effic
             r == Resource(p, d)
  <2>1. a * r > 0
    BY BatchTyped
  <2>2. a \in Int /\ a > 0 /\ r \in Int
    BY <1>1, <1>2 DEF Positive
  <2> HIDE DEF a, r
  <2>3. r > 0
    BY <2>1, <2>2
  <2> QED
    BY <2>2, <2>3 DEF r, Positive
<1> DEFINE b == Batch(p, d)
           n == Higher(d.bwork, 1) * b[1] * 10000
           m == b[2] * p.effic * Resource(p, d)
<1>4. b[1] \in Int /\ b[2] \in Positive
  BY BatchTyped, Pairs
<1>5. Higher(d.bwork, 1) \in Int
  <2>1. d.bwork \in Int
    BY DEF ProductTyped
  <2> QED
    BY <2>1 DEF Higher
<1> HIDE DEF b
<1>6. n \in Int
  <2>1. Higher(d.bwork, 1) * b[1] \in Int
    BY <1>4, <1>5, Product
  <2> QED
    BY <2>1
<1>7. m \in Positive
  <2>1. b[2] * p.effic \in Positive
    BY <1>1, <1>4, PositiveProduct
  <2> QED
    BY <2>1, <1>3, PositiveProduct
<1>8. Labour(p, d) = RoundAvg(<<n, m>>)
  BY DEF Labour, b
<1> HIDE DEF n, m
<1> QED
  BY <1>6, <1>7, <1>8, Pairs, Fractions

LEMMA ProducedTyped ==
    ASSUME NEW p \in SectorRow, NEW t \in Types, NEW level \in [Levels -> Int],
           NEW o \in Produced(p, TypeChr[t], level)
    PROVE  o.sect \in SectorRow /\ o.cost \in Int
<1> DEFINE chr == TypeChr[t]
           d == ProductChr[chr.product]
           pe == ProdEff(d, level, chr.peff)
           cost == (Dollar * d.cost * Used(p, d, pe)[1]) \div Used(p, d, pe)[2]
           nothing == [sect |-> p, cost |-> 0, hid |-> FALSE]
           ready == chr.product # "none" /\ p.effic >= 60 /\ pe[1] > 0 /\ p.avail > 0
                        /\ Batch(p, d)[1] > 0
<1>1. CASE o = nothing
  BY <1>1
<1>2. CASE o # nothing
  <2>1. chr.product # "none" /\ ~(p.effic < 60)
        /\ ~(pe[1] <= 0 \/ p.avail <= 0 \/ Batch(p, d)[1] <= 0)
    BY <1>2 DEF Produced
  <2>2. ProductTyped(d) /\ chr.peff \in Int
    BY <2>1, ProductTable, Tables
  <2>3. pe \in Fraction /\ pe[1] \in Int /\ p.effic \in Int /\ p.avail \in Int
    BY <2>2, EfficiencyTyped, SectorFields, Pairs
  <2>4. Batch(p, d) \in Fraction /\ Batch(p, d)[1] \in Int
    BY <2>2, BatchTyped, Pairs
  <2>5. p.effic >= 60 /\ pe[1] > 0 /\ p.avail > 0 /\ Batch(p, d)[1] > 0
    BY <2>1, <2>3, <2>4
  <2>6. PICK k \in Depletion(d, Batch(p, d)), w \in Labour(p, d) :
            /\ o.sect = Tired(Depleted(Stored(p, d, pe), d, k), w)
            /\ o.cost = cost
    BY <2>1, <1>2 DEF Produced
  <2> HIDE DEF d, pe
  <2>7. k \in Int /\ w \in Int
    BY <2>2, <2>4, <2>5, DepletionTyped, LabourTyped
  <2>8. Depleted(Stored(p, d, pe), d, k) \in SectorRow
    BY <2>2, <2>3, <2>5, <2>7, StoredTyped, DepletedTyped
  <2>9. o.sect \in SectorRow
    BY <2>6, <2>7, <2>8, TiredTyped
  <2>10. cost \in Int
    <3>1. Used(p, d, pe)[1] \in Int /\ Used(p, d, pe)[2] \in Positive
      BY <2>2, <2>3, <2>5, UsedTyped, Pairs
    <3>2. Dollar \in Int /\ d.cost \in Int
      BY <2>2, Constants DEF ProductTyped, Positive
    <3>3. Dollar * d.cost \in Int
      BY <3>2, Product
    <3>4. Dollar * d.cost * Used(p, d, pe)[1] \in Int
      BY <3>1, <3>3, Product
    <3> QED
      BY <3>1, <3>4, Quotient
  <2> QED
    BY <2>6, <2>9, <2>10
<1> QED
  BY <1>1, <1>2

-----------------------------------------------------------------------------
(* The invariant *)

\* What a nation's balance has changed by is booked, or is the pay of recruits.
Balanced ==
    \A n \in Nations :
        budget[n].money - Booked(budget[n]) = budget[n].start - enlistPay[n]

\* After prod_nat and before anything else the nation has what the budget has.
Written ==
    phase = "age" =>
        \A n \in Playing : nat[n].money = Rounded(<<budget[n].money, Dollar>>)

\* Who has gone into debt by building stays there for the rest of the update.
Once ==
    \A n \in Nations :
        /\ onCredit[n] \in {0, 1}
        /\ onCredit[n] = 1 => budget[n].money < 0 /\ phase \notin {"prepare", "reserve"}

Inv == Typed /\ Balanced /\ Written /\ Once

LEMMA Visited ==
    ASSUME Typed
    PROVE  /\ phase \in {"prepare", "produce"} => row \in Sectors
           /\ phase \in {"ships", "ocean", "planes", "land"} => row \in Units
BY DEF Typed, Rows, Sectors, Units

LEMMA Balancing ==
    ASSUME Typed, Balanced, enlistPay' = enlistPay,
           \A n \in Nations : Kept(budget[n], budget'[n])
    PROVE  Balanced'
BY DEF Typed, Balanced, Kept

LEMMA Unbooked ==
    ASSUME NEW b \in Budget, NEW m \in Int
    PROVE  /\ [b EXCEPT !.money = m] \in Budget
           /\ [b EXCEPT !.money = m].money = m
           /\ [b EXCEPT !.money = m].start = b.start
           /\ Booked([b EXCEPT !.money = m]) = Booked(b)
<1> DEFINE c == [b EXCEPT !.money = m]
<1>1. c \in Budget /\ c.money = m /\ c.start = b.start /\ c.book = b.book
  BY DEF Budget
<1> HIDE DEF c
<1>2. Booked(c) = Booked(b)
  BY <1>1 DEF Booked
<1> QED
  BY <1>1, <1>2 DEF c

\* A balance that is charged, with what a payment to recruits takes from it.
LEMMA Paying ==
    ASSUME Typed, Balanced, NEW n \in Nations, NEW c, Kept(budget[n], c), NEW pay \in Int,
           budget' = [budget EXCEPT ![n] = [c EXCEPT !.money = @ - pay]],
           enlistPay' = [enlistPay EXCEPT ![n] = @ + pay]
    PROVE  /\ budget' \in [Nations -> Budget] /\ enlistPay' \in [Nations -> Int]
           /\ budget'[n].money = c.money - pay
           /\ Balanced'
<1>1. c \in Budget /\ c.money \in Int /\ c.start = budget[n].start
      /\ c.money - Booked(c) = budget[n].money - Booked(budget[n])
  BY DEF Kept, Budget
<1> DEFINE m == c.money - pay
           e == [c EXCEPT !.money = m]
<1>2. m \in Int
  BY <1>1
<1>3. budget' = [budget EXCEPT ![n] = e]
  OBVIOUS
<1> HIDE DEF m
<1>4. e \in Budget /\ e.money = m /\ e.start = c.start /\ Booked(e) = Booked(c)
  BY <1>1, <1>2, Unbooked
<1> HIDE DEF e
<1>5. /\ budget \in [Nations -> Budget] /\ enlistPay \in [Nations -> Int]
  BY DEF Typed
<1>6. budget' \in [Nations -> Budget] /\ enlistPay' \in [Nations -> Int]
  BY <1>3, <1>4, <1>5
<1>7. /\ budget'[n] = e /\ enlistPay'[n] = enlistPay[n] + pay
      /\ \A k \in Nations \ {n} : budget'[k] = budget[k] /\ enlistPay'[k] = enlistPay[k]
  BY <1>3, <1>5
<1>8. e.money - Booked(e) = e.start - (enlistPay[n] + pay)
  <2>1. Booked(c) \in Int /\ Booked(budget[n]) \in Int
    BY <1>1, <1>5, Booking DEF Headings
  <2>2. budget[n].money - Booked(budget[n]) = budget[n].start - enlistPay[n]
    BY DEF Balanced
  <2>3. budget[n].start \in Int /\ budget[n].money \in Int /\ enlistPay[n] \in Int
    BY <1>5 DEF Budget
  <2>4. e.money = c.money - pay /\ e.start = budget[n].start /\ Booked(e) = Booked(c)
    BY <1>1, <1>4 DEF m
  <2> DEFINE x == c.money
             y == Booked(c)
             z == budget[n].money - Booked(budget[n])
  <2>5. x \in Int /\ y \in Int /\ z \in Int /\ x - y = z
    BY <1>1, <2>1, <2>3
  <2> HIDE DEF x, y, z
  <2>6. (x - pay) - y = z - pay
    BY <2>5
  <2>7. z - pay = budget[n].start - (enlistPay[n] + pay)
    BY <2>2, <2>3 DEF z
  <2> QED
    BY <2>4, <2>6, <2>7 DEF x, y
<1>9. Balanced'
  BY <1>7, <1>8 DEF Balanced
<1> QED
  BY <1>4, <1>6, <1>7, <1>9 DEF m

\* The steps that leave the budgets alone.
LEMMA Quiet ==
    ASSUME Inv, Advance, phase \notin {"idle", "nat"},
           UNCHANGED <<budget, enlistPay, onCredit>>
    PROVE  (Balanced /\ Written /\ Once)'
<1>1. Balanced'
  BY DEF Inv, Balanced
<1>2. Written' /\ Once'
  BY Advancing DEF Inv, Written, Once, Typed
<1> QED
  BY <1>1, <1>2

-----------------------------------------------------------------------------
(* Its steps *)

LEMMA NewBudgetTyped ==
    ASSUME NEW m \in Int
    PROVE  /\ NewBudget(m) \in Budget
           /\ NewBudget(m).money = m /\ NewBudget(m).start = m
           /\ Booked(NewBudget(m)) = 0
<1>1. /\ NewBudget(m) \in Budget
      /\ NewBudget(m).money = m /\ NewBudget(m).start = m
      /\ NewBudget(m).book = [h \in Headings |-> 0]
  BY DEF NewBudget, Budget
<1>2. \A h \in Headings : NewBudget(m).book[h] = 0
  BY <1>1
<1> QED
  BY <1>1, <1>2 DEF Booked, Headings

LEMMA InitInv == Init => Inv
<1> SUFFICES ASSUME Init
             PROVE  Inv
  OBVIOUS
<1>1. PICK s \in Starts : sect = s.sect /\ unit = s.unit /\ nat = s.nat
  BY DEF Init
<1>2. /\ sect \in [Sectors -> Sector] /\ unit \in [Units -> Unit] /\ nat \in [Nations -> Nation]
  BY <1>1, EconomyAssumption
<1>3. Sector \subseteq SectorRow /\ Unit \subseteq UnitRow /\ Nation \subseteq NationRow
  <2>1. (0..ItemMax) \subseteq Int /\ (0..100) \subseteq Int /\ Nat \subseteq Int
    BY Constants
  <2>2. [Items -> 0..ItemMax] \subseteq [Items -> Int]
        /\ [Deposits -> 0..100] \subseteq [Deposits -> Int]
    BY <2>1
  <2> QED
    BY <2>1, <2>2 DEF Sector, Unit, Nation, SectorRow, UnitRow, NationRow
<1>4. budget \in [Nations -> Budget] /\ \A n \in Nations : budget[n] = NewBudget(0)
  BY NewBudgetTyped DEF Init
<1>5. phase \in Phases /\ row \in 1..Rows(phase)
  BY DEF Init, Phases, Rows
<1>6. Typed
  BY <1>2, <1>3, <1>4, <1>5 DEF Init, Typed
<1>7. Balanced
  BY <1>4, NewBudgetTyped DEF Init, Balanced
<1>8. Written /\ Once
  BY DEF Init, Written, Once
<1> QED
  BY <1>6, <1>7, <1>8 DEF Inv

LEMMA BeginUpdateStep == Inv /\ BeginUpdate => Inv'
<1> SUFFICES ASSUME Inv, BeginUpdate
             PROVE  Inv'
  OBVIOUS
<1> DEFINE m(n) == IF n \in Playing THEN Dollar * nat[n].money ELSE 0
<1>1. \A n \in Nations : m(n) \in Int
  <2> SUFFICES ASSUME NEW n \in Nations
               PROVE  m(n) \in Int
    OBVIOUS
  <2>1. Dollar \in Int /\ nat[n].money \in Int
    BY Constants DEF Inv, Typed, NationRow, Positive
  <2>2. Dollar * nat[n].money \in Int
    BY <2>1, Product
  <2> QED
    BY <2>2
<1>2. budget' = [n \in Nations |-> NewBudget(m(n))]
  BY DEF BeginUpdate
<1> HIDE DEF m
<1>3. budget' \in [Nations -> Budget] /\ \A n \in Nations : budget'[n] = NewBudget(m(n))
  BY <1>1, <1>2, NewBudgetTyped
<1>4. phase' \in Phases /\ row' \in 1..Rows(phase')
  BY Constants DEF BeginUpdate, Phases, Rows, Positive
<1>5. Typed'
  BY <1>3, <1>4 DEF BeginUpdate, Inv, Typed
<1>6. Balanced'
  BY <1>1, <1>3, NewBudgetTyped DEF BeginUpdate, Balanced
<1>7. Written' /\ Once'
  BY DEF BeginUpdate, Written, Once
<1> QED
  BY <1>5, <1>6, <1>7 DEF Inv

LEMMA PrepareStep == Inv /\ Prepare => Inv'
<1> SUFFICES ASSUME Inv, Prepare
             PROVE  Inv'
  OBVIOUS
<1>1. Typed /\ phase = "prepare" /\ Advance /\ row \in Sectors
  BY Visited DEF Inv, Prepare
<1>2. phase' \in Phases /\ row' \in 1..Rows(phase')
  BY <1>1, Advancing
<1>3. sect[row] \in SectorRow
  BY <1>1 DEF Typed
<1>4. sect' \in [Sectors -> SectorRow]
  BY <1>1, <1>3, PreparedTyped DEF Prepare, Typed
<1>5. ASSUME NEW n \in Nations
      PROVE  Kept(budget[n], budget'[n])
  <2>1. budget[n] \in Budget
    BY <1>1 DEF Typed
  <2>2. budget'[n] = Taxed(budget[n], sect[row]) \/ budget'[n] = budget[n]
    BY DEF Prepare
  <2> QED
    BY <1>3, <2>1, <2>2, TaxedKept DEF Kept
<1>6. budget' \in [Nations -> Budget]
  BY <1>5 DEF Prepare, Kept
<1>7. enlistPay' = enlistPay /\ onCredit' = onCredit /\ UNCHANGED <<unit, nat>>
  BY DEF Prepare, history
<1>8. Typed'
  BY <1>1, <1>2, <1>4, <1>6, <1>7 DEF Typed
<1>9. Balanced'
  BY <1>1, <1>5, <1>7, Balancing DEF Inv
<1>10. Written' /\ Once'
  BY <1>1, <1>7, Advancing DEF Inv, Written, Once
<1> QED
  BY <1>8, <1>9, <1>10 DEF Inv

LEMMA PayReserveStep == Inv /\ PayReserve => Inv'
<1> SUFFICES ASSUME Inv, PayReserve
             PROVE  Inv'
  OBVIOUS
<1>1. Typed /\ phase = "reserve" /\ Advance
  BY DEF Inv, PayReserve
<1>2. phase' \in Phases /\ row' \in 1..Rows(phase')
  BY <1>1, Advancing
<1>3. ASSUME NEW n \in Nations
      PROVE  Kept(budget[n], budget'[n])
  <2>1. budget[n] \in Budget /\ nat[n].reserve \in Int /\ ReservePay \in Int
    BY <1>1, Constants DEF Typed, NationRow
  <2>2. ReservePay * nat[n].reserve \in Int /\ "mil" \in Headings
    BY <2>1, Product DEF Headings
  <2>3. \/ budget'[n] = Book(budget[n], "mil", ReservePay * nat[n].reserve)
        \/ budget'[n] = budget[n]
    BY DEF PayReserve
  <2>4. Kept(budget[n], budget[n])
    BY <2>1 DEF Kept
  <2> QED
    BY <2>1, <2>2, <2>3, <2>4, Keeping
<1>4. budget' \in [Nations -> Budget]
  BY <1>3 DEF PayReserve, Kept
<1>5. enlistPay' = enlistPay /\ onCredit' = onCredit /\ UNCHANGED <<sect, unit, nat>>
  BY DEF PayReserve, history
<1>6. Typed'
  BY <1>1, <1>2, <1>4, <1>5 DEF Typed
<1>7. Balanced'
  BY <1>1, <1>3, <1>5, Balancing DEF Inv
<1>8. Written' /\ Once'
  BY <1>1, <1>5, Advancing DEF Inv, Written, Once
<1> QED
  BY <1>6, <1>7, <1>8 DEF Inv

\* Upkeep is paid by those who have it and those who do not.
LEMMA UpkeepKept ==
    ASSUME Typed, NEW p \in SectorRow, p.own # 0
    PROVE  /\ p.own \in Nations
           /\ Kept(budget[p.own], Upkeep(budget[p.own], p))
           /\ Upkeep(budget[p.own], p) \in Budget
           /\ Upkeep(budget[p.own], p).money <= budget[p.own].money
           /\ Upkeep(budget[p.own], p).money \in Int
<1>1. p.own \in Nations
  BY SectorFields, Constants DEF Nations
<1>2. budget[p.own] \in Budget /\ budget[p.own].money \in Int
  BY <1>1 DEF Typed, Budget
<1>3. TypeChr[p.type].maint \in Nat
  BY SectorFields, Tables
<1>4. -TypeChr[p.type].maint \in Int /\ "maint" \in Headings
  BY <1>3 DEF Headings
<1>5. /\ Upkeep(budget[p.own], p) \in Budget
      /\ Upkeep(budget[p.own], p).money = budget[p.own].money - TypeChr[p.type].maint
  BY <1>2, <1>3, <1>4, Booking DEF Upkeep
<1>6. Kept(budget[p.own], budget[p.own])
  BY <1>2 DEF Kept
<1> QED
  BY <1>1, <1>2, <1>3, <1>4, <1>5, <1>6, Keeping DEF Upkeep

LEMMA PassOverStep == Inv /\ PassOver => Inv'
<1> SUFFICES ASSUME Inv, PassOver
             PROVE  Inv'
  OBVIOUS
<1> DEFINE p == sect[row]
           b == Upkeep(budget[p.own], p)
<1>1. Typed /\ phase = "produce" /\ Advance /\ row \in Sectors
  BY Visited DEF Inv, PassOver
<1>2. phase' \in Phases /\ row' \in 1..Rows(phase')
      /\ phase' \notin {"prepare", "reserve", "age"}
  BY <1>1, Advancing
<1>3. p \in SectorRow
  BY <1>1 DEF Typed
<1>4. enlistPay' = enlistPay /\ onCredit' = onCredit /\ UNCHANGED <<unit, nat>>
  BY DEF PassOver, history
<1>5. sect' \in [Sectors -> SectorRow]
  <2>1. [p EXCEPT !.avail = 0] \in SectorRow
    BY <1>3 DEF SectorRow
  <2>2. sect' = sect \/ sect' = [sect EXCEPT ![row] = [p EXCEPT !.avail = 0]]
    BY DEF PassOver
  <2> QED
    BY <1>1, <2>1, <2>2 DEF Typed
<1>6. budget' = budget \/ (p.own # 0 /\ budget' = [budget EXCEPT ![p.own] = b])
  BY DEF PassOver
<1> HIDE DEF p
<1>7. ASSUME NEW n \in Nations
      PROVE  Kept(budget[n], budget'[n]) /\ budget'[n].money <= budget[n].money
             /\ budget'[n].money \in Int /\ budget[n].money \in Int
  <2>1. budget[n] \in Budget /\ budget[n].money \in Int
    BY <1>1 DEF Typed, Budget
  <2>2. CASE budget'[n] = budget[n]
    BY <2>1, <2>2 DEF Kept
  <2>3. CASE budget'[n] # budget[n]
    <3>1. p.own # 0 /\ n = p.own /\ budget'[n] = b
      BY <1>1, <1>6, <2>3 DEF Typed
    <3> QED
      BY <1>1, <1>3, <2>1, <3>1, UpkeepKept
  <2> QED
    BY <2>2, <2>3
<1>8. budget' \in [Nations -> Budget]
  BY <1>1, <1>6, <1>7 DEF Kept, Typed
<1>9. Typed'
  BY <1>1, <1>2, <1>4, <1>5, <1>8 DEF Typed
<1>10. Balanced'
  BY <1>1, <1>4, <1>7, Balancing DEF Inv
<1>11. Written' /\ Once'
  BY <1>2, <1>4, <1>7 DEF Inv, Written, Once
<1> QED
  BY <1>9, <1>10, <1>11 DEF Inv

LEMMA ProduceStep == Inv /\ Produce => Inv'
<1> SUFFICES ASSUME Inv, Produce
             PROVE  Inv'
  OBVIOUS
<1> DEFINE p == sect[row]
           chr == TypeChr[p.type]
           n == p.own
           b == Upkeep(budget[n], p)
           built == BuildEff(p)
           recruits == Recruits(built, chr)
           pay == 3 * Dollar * recruits
<1>1. Typed /\ phase = "produce" /\ Advance /\ row \in Sectors /\ n # 0 /\ ~Idle(p, b)
  BY Visited DEF Inv, Produce
<1>2. phase' \in Phases /\ row' \in 1..Rows(phase')
      /\ phase' \notin {"prepare", "reserve", "age"}
  BY <1>1, Advancing
<1>3. p \in SectorRow
  BY <1>1 DEF Typed
<1>4. PICK o \in Produced(Enlist(built, recruits), chr, nat[n].level) :
        LET c == Book(Book(b, "build", -BuildCost(p)), "prod", -o.cost)
        IN /\ sect' = [sect EXCEPT ![row] = o.sect]
           /\ budget' = [budget EXCEPT ![n] = [c EXCEPT !.money = @ - pay]]
           /\ onCredit' = [onCredit EXCEPT ![n] = IF c.money - pay < 0 THEN @ + 1 ELSE @]
  BY DEF Produce
<1>5. enlistPay' = [enlistPay EXCEPT ![n] = @ + pay] /\ UNCHANGED <<unit, nat>>
  BY DEF Produce
<1>6. /\ n \in Nations /\ Kept(budget[n], b) /\ b \in Budget
      /\ b.money \in Int /\ b.money <= budget[n].money
  BY <1>1, <1>3, UpkeepKept
<1> DEFINE c == Book(Book(b, "build", -BuildCost(p)), "prod", -o.cost)
<1>7. built \in SectorRow /\ BuildCost(p) \in Int
  BY <1>3, BuildTyped
<1>8. recruits \in Int /\ Enlist(built, recruits) \in SectorRow
  BY <1>7, RecruitsTyped
<1>9. o.sect \in SectorRow /\ o.cost \in Int
  <2>1. p.type \in Types
    BY <1>3, SectorFields
  <2>2. nat[n].level \in [Levels -> Int]
    BY <1>1, <1>6 DEF Typed, NationRow
  <2> QED
    BY <1>4, <1>8, <2>1, <2>2, ProducedTyped
<1>10. pay \in Int
  <2> HIDE DEF recruits
  <2>1. 3 * Dollar \in Int
    BY Constants DEF Positive
  <2> QED
    BY <1>8, <2>1, Product
<1> HIDE DEF p, b, built, recruits, pay
<1>11. Kept(budget[n], c)
  <2>1. -BuildCost(p) \in Int /\ -o.cost \in Int /\ {"build", "prod"} \subseteq Headings
    BY <1>7, <1>9 DEF Headings
  <2>2. Kept(budget[n], Book(b, "build", -BuildCost(p)))
    BY <1>6, <2>1, Keeping
  <2>3. Book(b, "build", -BuildCost(p)) \in Budget
    BY <2>2 DEF Kept
  <2> QED
    BY <2>1, <2>2, <2>3, Keeping
<1> HIDE DEF c
<1>12. /\ sect' = [sect EXCEPT ![row] = o.sect]
       /\ budget' = [budget EXCEPT ![n] = [c EXCEPT !.money = @ - pay]]
       /\ onCredit' = [onCredit EXCEPT ![n] = IF c.money - pay < 0 THEN @ + 1 ELSE @]
  BY <1>4 DEF c, b, p, pay, recruits, built
<1> HIDE DEF n
<1>13. /\ budget' \in [Nations -> Budget] /\ enlistPay' \in [Nations -> Int]
       /\ budget'[n].money = c.money - pay /\ Balanced'
  <2>1. enlistPay' = [enlistPay EXCEPT ![n] = @ + pay]
    BY <1>5 DEF n, p, pay, recruits, built
  <2>2. Balanced
    BY DEF Inv
  <2> QED
    BY <1>1, <1>6, <1>10, <1>11, <1>12, <2>1, <2>2, Paying
<1>14. onCredit[n] = 0
  <2>1. ~(b.money < 0)
    BY <1>1 DEF Idle
  <2>2. budget[n].money \in Int
    BY <1>1, <1>6 DEF Typed, Budget
  <2>3. ~(budget[n].money < 0)
    BY <1>6, <2>1, <2>2
  <2> QED
    BY <1>6, <2>3 DEF Inv, Once
<1>15. Once'
  <2>1. onCredit \in [Nations -> Int] /\ budget \in [Nations -> Budget]
    BY <1>1 DEF Typed
  <2>2. onCredit'[n] = IF budget'[n].money < 0 THEN 1 ELSE 0
    BY <1>6, <1>12, <1>13, <1>14, <2>1
  <2>3. \A k \in Nations \ {n} : onCredit'[k] = onCredit[k] /\ budget'[k] = budget[k]
    BY <1>12, <2>1
  <2> QED
    BY <1>2, <2>2, <2>3 DEF Inv, Once
<1>16. Typed'
  <2>1. sect' \in [Sectors -> SectorRow]
    BY <1>1, <1>9, <1>12 DEF Typed
  <2>2. onCredit' \in [Nations -> Int]
    BY <1>1, <1>6, <1>12, <1>14 DEF Typed
  <2> QED
    BY <1>1, <1>2, <1>5, <1>13, <2>1, <2>2 DEF Typed
<1>17. Written'
  BY <1>2 DEF Written
<1> QED
  BY <1>13, <1>15, <1>16, <1>17 DEF Inv

LEMMA GoodsSteps == Inv /\ (Carry \/ Finish) => Inv'
<1> SUFFICES ASSUME Inv, Carry \/ Finish
             PROVE  Inv'
  OBVIOUS
<1>1. Typed /\ phase \in {"goods", "finish"} /\ Advance
      /\ UNCHANGED <<unit, nat, budget, enlistPay, onCredit>>
  BY DEF Inv, Carry, Finish, history
<1>2. phase' \in Phases /\ row' \in 1..Rows(phase')
  BY <1>1, Advancing
<1>3. sect' \in [Sectors -> SectorRow]
  <2>1. CASE Carry
    <3>1. PICK s \in Sectors, t \in Sectors, i \in Items, k \in 0..MaxCarried :
            /\ s # t
            /\ sect' = [sect EXCEPT ![s] = Added(@, i, -k), ![t] = Added(@, i, k)]
      BY <2>1 DEF Carry
    <3>2. k \in Int /\ -k \in Int
      BY EconomyAssumption
    <3>3. Added(sect[s], i, -k) \in SectorRow /\ Added(sect[t], i, k) \in SectorRow
      BY <1>1, <3>2, AddedTyped DEF Typed
    <3>4. sect' = [sect EXCEPT ![s] = Added(sect[s], i, -k), ![t] = Added(sect[t], i, k)]
      BY <1>1, <3>1 DEF Typed
    <3> QED
      BY <1>1, <3>3, <3>4 DEF Typed
  <2>2. CASE Finish
    <3>1. ASSUME NEW s \in Sectors
          PROVE  [sect[s] EXCEPT !.avail = Lower(@, 1000)] \in SectorRow
      <4>1. sect[s] \in SectorRow /\ Lower(sect[s].avail, 1000) \in Int
        BY <1>1, SectorFields DEF Typed, Lower
      <4> DEFINE x == Lower(sect[s].avail, 1000)
      <4> HIDE DEF x
      <4>2. [sect[s] EXCEPT !.avail = x] \in SectorRow
        BY <4>1 DEF x, SectorRow
      <4> QED
        BY <4>2 DEF x
    <3> QED
      BY <2>2, <3>1 DEF Finish
  <2> QED
    BY <2>1, <2>2
<1>4. Typed'
  BY <1>1, <1>2, <1>3 DEF Typed
<1> QED
  BY <1>1, <1>4, Quiet DEF Inv

-----------------------------------------------------------------------------
(* Units *)

LEMMA UnitFields ==
    ASSUME Typed, NEW u \in Units
    PROVE  /\ unit[u] \in UnitRow
           /\ unit[u].own \in 0..NNations /\ unit[u].at \in Sectors /\ unit[u].effic \in Int
           /\ \A i \in Items : unit[u].items[i] \in Int
           /\ unit[u].items \in [Items -> Int]
           /\ sect[unit[u].at] \in SectorRow
<1>1. unit[u] \in UnitRow
  BY DEF Typed
<1> QED
  BY <1>1 DEF UnitRow, Typed

LEMMA GrowthTyped ==
    ASSUME Typed, NEW u \in Units
    PROVE  /\ Growth(u) \in Int
           /\ \A k \in Int : Needed(u, k) \subseteq Int
           /\ Wages(u) \subseteq Int
<1>1. Crew(u) \in Int
  <2>1. unit[u].items["civil"] \in Int /\ unit[u].items["milit"] \in Int /\ Etu \in Int
    BY UnitFields, Constants
  <2>2. unit[u].items["civil"] \div 2 + unit[u].items["milit"] \div 5 \in Int
    BY <2>1
  <2>3. Etu * (unit[u].items["civil"] \div 2 + unit[u].items["milit"] \div 5) \in Int
    BY <2>1, <2>2, Product
  <2> QED
    BY <2>3 DEF Crew
<1>2. Pool(u) \in Int
  <2>1. sect[unit[u].at].avail \in Int
    BY UnitFields, SectorFields
  <2> QED
    BY <1>1, <2>1 DEF Pool
<1>3. UnitWork(u) \in Positive
  <2>1. UnitChr[u].bwork \in Int
    BY Tables
  <2> QED
    BY <2>1 DEF UnitWork, Higher, Positive
<1>4. Pace(u) \in Int
  <2> DEFINE x == Pool(u) \div UnitWork(u)
             y == 100 - unit[u].effic
  <2>1. x \in Int /\ y \in Int /\ GrowCap[Kind[u]] \in Int
    BY <1>2, <1>3, Quotient, UnitFields, Tables, Constants
  <2> HIDE DEF x, y
  <2>2. Lower(x, Lower(GrowCap[Kind[u]], y)) \in Int
    BY <2>1 DEF Lower
  <2> QED
    BY <2>2 DEF Pace, x, y
<1>5. ASSUME NEW i \in Items, NEW need \in Int
      PROVE  Supply(u, i, need) \in Int
  <2>1. 100 * sect[unit[u].at].items[i] \in Int
    <3>1. sect[unit[u].at].items[i] \in Int
      BY UnitFields, SectorFields
    <3> QED
      BY <3>1
  <2>2. need > 0 => need \in Positive
    BY DEF Positive
  <2> QED
    BY <2>1, <2>2, Quotient DEF Supply
<1>6. Delta(u) \in Int
  <2> DEFINE x == Supply(u, "lcm", UnitChr[u].lcm)
             y == Supply(u, "hcm", UnitChr[u].hcm)
  <2>1. UnitChr[u].lcm \in Int /\ UnitChr[u].hcm \in Int
        /\ "lcm" \in Items /\ "hcm" \in Items
    BY Tables, Constants
  <2>2. x \in Int /\ y \in Int
    BY <1>5, <2>1
  <2> HIDE DEF x, y
  <2>3. Lower(Pace(u), Lower(x, y)) \in Int
    BY <1>4, <2>2 DEF Lower
  <2> QED
    BY <2>3 DEF Delta, x, y
<1>7. Growth(u) \in Int
  <2>1. Delta(u) \div 3 \in Int
    BY <1>6, Numerals
  <2> QED
    BY <1>6, <2>1 DEF Growth
<1>8. ASSUME NEW k \in Int
      PROVE  Needed(u, k) \subseteq Int
  <2>1. k * Growth(u) \in Int /\ 100 \in Positive
    BY <1>7, Product, Numerals
  <2>2. <<k * Growth(u), 100>> \in Fraction
    BY <2>1, Pairs
  <2> QED
    BY <2>2, Fractions DEF Needed
<1>9. Wages(u) \subseteq Int
  <2> DEFINE x == Delta(u) * UnitWork(u)
             y == Higher(x - Crew(u), 0)
  <2>1. x \in Int
    <3>1. UnitWork(u) \in Int
      BY <1>3 DEF Positive
    <3> QED
      BY <1>6, <3>1, Product
  <2> HIDE DEF x
  <2>2. y \in Int
    BY <1>1, <2>1 DEF Higher
  <2> HIDE DEF y
  <2>3. <<y, 100>> \in Fraction
    BY <2>2, Numerals, Pairs
  <2> QED
    BY <2>3, Fractions DEF Wages, x, y
<1> QED
  BY <1>7, <1>8, <1>9

LEMMA BuildStep == Inv /\ Build => Inv'
<1> SUFFICES ASSUME Inv, Build
             PROVE  Inv'
  OBVIOUS
<1> DEFINE u == row
           s == unit[u].at
           n == unit[u].own
           cost == (Dollar * UnitChr[u].cost * Growth(u)) \div 100
           c == Book(budget[n], Kind[u], -cost)
<1>1. Typed /\ phase \in {"ships", "planes", "land"} /\ Advance /\ u \in Units
      /\ MayBuild(u)
  BY Visited DEF Inv, Build
<1>2. phase' \in Phases /\ row' \in 1..Rows(phase')
      /\ phase' \notin {"prepare", "reserve", "age"}
  BY <1>1, Advancing
<1>3. n \in Nations /\ s \in Sectors /\ budget[n].money >= 0
  <2>1. n \in 0..NNations /\ s \in Sectors
    BY <1>1, UnitFields
  <2>2. n # 0 /\ budget[n].money >= 0
    BY <1>1 DEF MayBuild, Solvent
  <2> QED
    BY <2>1, <2>2, Constants DEF Nations
<1>4. cost \in Int
  <2>1. UnitChr[u].cost \in Int /\ Growth(u) \in Int /\ Dollar \in Int
    BY <1>1, Tables, GrowthTyped, Constants DEF Positive
  <2>2. Dollar * UnitChr[u].cost \in Int
    BY <2>1, Product
  <2>3. Dollar * UnitChr[u].cost * Growth(u) \in Int
    BY <2>1, <2>2, Product
  <2> QED
    BY <2>3, Numerals
<1>5. /\ budget' = [budget EXCEPT ![n] = Book(@, Kind[u], -cost)]
      /\ onCredit' = [onCredit EXCEPT ![n] = IF budget[n].money < cost THEN @ + 1 ELSE @]
      /\ unit' = [unit EXCEPT ![u].effic = @ + Growth(u)]
      /\ UNCHANGED <<nat, enlistPay>>
  BY DEF Build
<1>6. sect' \in [Sectors -> SectorRow]
  <2>1. PICK lcm \in Needed(u, UnitChr[u].lcm), hcm \in Needed(u, UnitChr[u].hcm), w \in Wages(u) :
            sect' = [sect EXCEPT ![s] = Tired(Added(Added(@, "lcm", -lcm), "hcm", -hcm), w)]
    BY DEF Build
  <2>2. lcm \in Int /\ hcm \in Int /\ w \in Int /\ -lcm \in Int /\ -hcm \in Int
    BY <1>1, GrowthTyped, Tables
  <2>3. sect[s] \in SectorRow
    BY <1>1, <1>3 DEF Typed
  <2>4. Tired(Added(Added(sect[s], "lcm", -lcm), "hcm", -hcm), w) \in SectorRow
    BY <2>2, <2>3, AddedTyped, TiredTyped, Constants
  <2> HIDE DEF s
  <2> QED
    BY <1>1, <1>3, <2>1, <2>4 DEF Typed
<1>7. unit' \in [Units -> UnitRow]
  <2> DEFINE x == unit[u].effic + Growth(u)
  <2>1. x \in Int /\ unit[u] \in UnitRow
    BY <1>1, UnitFields, GrowthTyped
  <2>2. unit' = [unit EXCEPT ![u] = [unit[u] EXCEPT !.effic = x]]
    BY <1>1, <1>5 DEF Typed
  <2> HIDE DEF x
  <2>3. [unit[u] EXCEPT !.effic = x] \in UnitRow
    BY <2>1 DEF UnitRow
  <2> QED
    BY <1>1, <2>2, <2>3 DEF Typed
<1>8. Kind[u] \in Headings
  BY <1>1, Tables DEF Headings
<1> HIDE DEF n, s, cost
<1>9. /\ budget[n] \in Budget /\ budget[n].money \in Int /\ -cost \in Int
  BY <1>1, <1>3, <1>4 DEF Typed, Budget
<1>10. Kept(budget[n], c) /\ c \in Budget /\ c.money = budget[n].money - cost
  <2>1. Kept(budget[n], budget[n])
    BY <1>9 DEF Kept
  <2>2. Kept(budget[n], c)
    BY <1>8, <1>9, <2>1, Keeping
  <2>3. c.money = budget[n].money + (-cost)
    BY <1>8, <1>9, Booking
  <2> QED
    BY <1>4, <1>9, <2>2, <2>3 DEF Kept
<1>11. budget' = [budget EXCEPT ![n] = c]
  BY <1>1, <1>3, <1>5 DEF Typed
<1> HIDE DEF c
<1>12. budget' \in [Nations -> Budget] /\ budget'[n] = c
       /\ \A k \in Nations \ {n} : budget'[k] = budget[k]
  BY <1>1, <1>3, <1>10, <1>11 DEF Typed
<1>13. \A k \in Nations : Kept(budget[k], budget'[k])
  BY <1>1, <1>10, <1>12 DEF Kept, Typed
<1>14. Balanced'
  BY <1>1, <1>5, <1>13, Balancing DEF Inv
<1>15. onCredit[n] = 0
  BY <1>3, <1>9 DEF Inv, Once
<1>16. Once'
  <2>1. onCredit \in [Nations -> Int]
    BY <1>1 DEF Typed
  <2>2. onCredit'[n] = IF budget'[n].money < 0 THEN 1 ELSE 0
    BY <1>3, <1>4, <1>5, <1>9, <1>10, <1>12, <1>15, <2>1
  <2>3. \A k \in Nations \ {n} : onCredit'[k] = onCredit[k]
    BY <1>5, <2>1
  <2> QED
    BY <1>2, <1>12, <2>2, <2>3 DEF Inv, Once
<1>17. Typed'
  <2>1. onCredit' \in [Nations -> Int]
    BY <1>1, <1>3, <1>5, <1>15 DEF Typed
  <2> QED
    BY <1>1, <1>2, <1>5, <1>6, <1>7, <1>12, <2>1 DEF Typed
<1>18. Written'
  BY <1>2 DEF Written
<1> QED
  BY <1>14, <1>16, <1>17, <1>18 DEF Inv

LEMMA DrillStep == Inv /\ Drill => Inv'
<1> SUFFICES ASSUME Inv, Drill
             PROVE  Inv'
  OBVIOUS
<1> DEFINE u == row
           s == unit[u].at
           d == ProductChr[TypeChr[OilField].product]
<1>1. Typed /\ phase = "ocean" /\ Advance /\ u \in Units
      /\ UNCHANGED <<nat, budget, enlistPay, onCredit>>
  BY Visited DEF Inv, Drill
<1>2. phase' \in Phases /\ row' \in 1..Rows(phase')
  BY <1>1, Advancing
<1>3. unit[u].own \in Nations /\ s \in Sectors
  <2>1. unit[u].own # 0
    BY DEF Drill, MayDrill
  <2> QED
    BY <1>1, <2>1, UnitFields, Constants DEF Nations
<1>4. nat[unit[u].own].level \in [Levels -> Int]
  BY <1>1, <1>3 DEF Typed, NationRow
<1>5. ASSUME NEW t \in {OilField, Agri}, NEW work \in Int, NEW k \in Deposits
      PROVE  Afloat(u, t, work, k) \in Fraction
  <2>1. t \in Types /\ TypeChr[t].product \in Products
    BY Constants
  <2>2. ProductTyped(ProductChr[TypeChr[t].product]) /\ TypeChr[t].peff \in Int
    BY <2>1, ProductTable, Tables
  <2> DEFINE pe == ProdEff(ProductChr[TypeChr[t].product], nat[unit[u].own].level, TypeChr[t].peff)
             x == work * unit[u].effic * sect[s].deposit[k]
  <2>3. pe \in Fraction
    BY <1>4, <2>2, EfficiencyTyped
  <2>4. x \in Int
    <3>1. unit[u].effic \in Int /\ sect[s].deposit[k] \in Int
      BY <1>1, UnitFields, SectorFields
    <3>2. work * unit[u].effic \in Int
      BY <3>1, Product
    <3> QED
      BY <3>1, <3>2, Product
  <2>5. <<x, 10000>> \in Fraction
    BY <2>4, Numerals, Pairs
  <2> HIDE DEF pe, x
  <2>6. Times(<<x, 10000>>, pe) \in Fraction
    BY <2>3, <2>5, Fractions
  <2> QED
    BY <2>6 DEF Afloat, pe, x
<1>6. ASSUME NEW i \in Items, NEW k \in Int
      PROVE  Hold(u, i, k) \in Int
  <2>1. UnitChr[u].room[i] - unit[u].items[i] \in Int
    BY <1>1, Tables, UnitFields
  <2> QED
    BY <2>1 DEF Hold, Lower, Higher
<1>7. ProductTyped(d) /\ {"fertil", "oil"} \subseteq Deposits /\ {"oil", "food"} \subseteq Items
  BY Constants, ProductTable
<1>8. PICK work \in RoundAvg(Workers(100, unit[u].items, ItemMax)) :
        \E oil \in Drilled(u, work), fish \in Fished(u, work) :
        \E k \in Depletion(d, <<oil, 1>>) :
            /\ unit' = [unit EXCEPT ![u] = Added(Added(@, "oil", oil), "food", fish)]
            /\ sect' = [sect EXCEPT ![s] = Depleted(@, d, k)]
  BY DEF Drill
<1>9. work \in Int
  BY <1>1, UnitFields, WorkersTyped, Constants
<1>10. Drilled(u, work) \subseteq Int
  <2>1. Afloat(u, OilField, work, "oil") \in Fraction
    BY <1>5, <1>7, <1>9
  <2>2. ResourceLimit(sect[s], d) \in Fraction
    BY <1>1, <1>7, UnitFields, ResourceTyped
  <2> DEFINE q == Less(Afloat(u, OilField, work, "oil"), ResourceLimit(sect[s], d))
  <2>3. RoundAvg(q) \subseteq Int
    BY <2>1, <2>2, Fractions
  <2>4. Drilled(u, work) = {0} \/ Drilled(u, work) = {Hold(u, "oil", k) : k \in RoundAvg(q)}
    BY DEF Drilled
  <2> HIDE DEF q
  <2> QED
    BY <1>6, <1>7, <2>3, <2>4
<1>11. Fished(u, work) \subseteq Int
  <2>1. RoundAvg(Afloat(u, Agri, work, "fertil")) \subseteq Int
    BY <1>5, <1>7, <1>9, Fractions
  <2> QED
    BY <1>6, <1>7, <2>1 DEF Fished
<1>12. PICK oil \in Drilled(u, work), fish \in Fished(u, work) :
        \E k \in Depletion(d, <<oil, 1>>) :
            /\ unit' = [unit EXCEPT ![u] = Added(Added(@, "oil", oil), "food", fish)]
            /\ sect' = [sect EXCEPT ![s] = Depleted(@, d, k)]
  BY <1>8
<1>13. PICK k \in Depletion(d, <<oil, 1>>) :
            /\ unit' = [unit EXCEPT ![u] = Added(Added(@, "oil", oil), "food", fish)]
            /\ sect' = [sect EXCEPT ![s] = Depleted(@, d, k)]
  BY <1>12
<1>14. oil \in Int /\ fish \in Int
  BY <1>10, <1>11
<1>15. k \in Int
  <2>1. <<oil, 1>> \in Fraction
    BY <1>14, Pairs DEF Positive
  <2> HIDE DEF d
  <2> QED
    BY <1>7, <2>1, DepletionTyped
<1>16. unit' \in [Units -> UnitRow]
  <2>1. unit[u] \in UnitRow
    BY <1>1, UnitFields
  <2>2. Added(Added(unit[u], "oil", oil), "food", fish) \in UnitRow
    BY <1>7, <1>14, <2>1, AddedTyped
  <2> QED
    BY <1>1, <1>13, <2>2 DEF Typed
<1>17. sect' \in [Sectors -> SectorRow]
  <2> HIDE DEF d, s
  <2>1. Depleted(sect[s], d, k) \in SectorRow
    BY <1>1, <1>3, <1>7, <1>15, DepletedTyped DEF Typed
  <2> QED
    BY <1>1, <1>3, <1>13, <2>1 DEF Typed
<1>18. Typed'
  BY <1>1, <1>2, <1>16, <1>17 DEF Typed
<1> QED
  BY <1>1, <1>18, Quiet DEF Inv

LEMMA SkipStep == Inv /\ Skip => Inv'
<1> SUFFICES ASSUME Inv, Skip
             PROVE  Inv'
  OBVIOUS
<1>1. /\ phase \notin {"idle", "nat"} /\ Advance
      /\ UNCHANGED <<sect, unit, nat, budget, enlistPay, onCredit>>
  BY DEF Skip, KindOf, history
<1>2. phase' \in Phases /\ row' \in 1..Rows(phase')
  BY <1>1, Advancing DEF Inv
<1>3. Typed'
  BY <1>1, <1>2 DEF Inv, Typed
<1> QED
  BY <1>1, <1>3, Quiet DEF Inv

-----------------------------------------------------------------------------
(* Nations, and a command *)

LEMMA ProdNatStep == Inv /\ ProdNat => Inv'
<1> SUFFICES ASSUME Inv, ProdNat
             PROVE  Inv'
  OBVIOUS
<1>1. Typed /\ phase = "nat" /\ Advance /\ phase' = "age"
      /\ UNCHANGED <<sect, unit, budget, enlistPay, onCredit>>
  BY Advancing DEF Inv, ProdNat, history
<1>2. phase' \in Phases /\ row' \in 1..Rows(phase')
  BY <1>1, Advancing
<1> DEFINE m(n) == Rounded(<<budget[n].money, Dollar>>)
<1>3. \A n \in Nations : m(n) \in Int
  <2> SUFFICES ASSUME NEW n \in Nations
               PROVE  m(n) \in Int
    OBVIOUS
  <2>1. budget[n].money \in Int
    BY <1>1 DEF Typed, Budget
  <2>2. <<budget[n].money, Dollar>> \in Fraction
    BY <2>1, Constants, Pairs
  <2> QED
    BY <2>2, Fractions
<1>4. nat' = [n \in Nations |-> IF n \in Playing THEN [nat[n] EXCEPT !.money = m(n)] ELSE nat[n]]
  BY DEF ProdNat
<1> HIDE DEF m
<1>5. ASSUME NEW n \in Nations
      PROVE  /\ nat[n] \in NationRow /\ [nat[n] EXCEPT !.money = m(n)] \in NationRow
             /\ [nat[n] EXCEPT !.money = m(n)].money = m(n)
  <2>1. nat[n] \in NationRow
    BY <1>1 DEF Typed
  <2> QED
    BY <1>3, <2>1 DEF NationRow
<1>6. nat' \in [Nations -> NationRow]
  BY <1>4, <1>5
<1>7. \A n \in Playing : nat'[n].money = m(n)
  BY <1>4, <1>5, Constants
<1>8. Typed'
  BY <1>1, <1>2, <1>6 DEF Typed
<1>9. Balanced' /\ Once'
  BY <1>1 DEF Inv, Balanced, Once
<1>10. Written'
  BY <1>1, <1>7 DEF Written, m
<1> QED
  BY <1>8, <1>9, <1>10 DEF Inv

LEMMA AgeLevelsStep == Inv /\ AgeLevels => Inv'
<1> SUFFICES ASSUME Inv, AgeLevels
             PROVE  Inv'
  OBVIOUS
<1>1. Typed /\ phase = "age" /\ Advance
      /\ UNCHANGED <<sect, unit, budget, enlistPay, onCredit>>
  BY DEF Inv, AgeLevels, history
<1>2. phase' \in Phases /\ row' \in 1..Rows(phase')
  BY <1>1, Advancing
<1>3. PICK level \in LevelChoices,
           reserve \in [Nations -> UNION {AgedReserve(n) : n \in Nations}] :
            /\ \A n \in Nations : reserve[n] \in AgedReserve(n)
            /\ nat' = [n \in Nations |->
                    [nat[n] EXCEPT !.level = level[n], !.reserve = reserve[n]]]
  BY DEF AgeLevels
<1>4. ASSUME NEW n \in Nations
      PROVE  [nat[n] EXCEPT !.level = level[n], !.reserve = reserve[n]] \in NationRow
  <2>1. nat[n] \in NationRow /\ nat[n].reserve \in Int
    BY <1>1 DEF Typed, NationRow
  <2>2. level[n] \in [Levels -> Int]
    BY EconomyAssumption
  <2>3. reserve[n] \in Int
    <3>1. 2400 - Etu \in Int /\ 2400 \in Positive
      BY Constants, Numerals
    <3>2. nat[n].reserve * (2400 - Etu) \in Int
      BY <2>1, <3>1, Product
    <3>3. <<nat[n].reserve * (2400 - Etu), 2400>> \in Fraction
      BY <3>1, <3>2, Pairs
    <3>4. AgedReserve(n) \subseteq Int
      BY <2>1, <3>3, Fractions DEF AgedReserve
    <3> QED
      BY <1>3, <3>4
  <2> DEFINE l == level[n]
             r == reserve[n]
  <2> HIDE DEF l, r
  <2>4. [nat[n] EXCEPT !.level = l, !.reserve = r] \in NationRow
    BY <2>1, <2>2, <2>3 DEF NationRow, l, r
  <2> QED
    BY <2>4 DEF l, r
<1>5. nat' \in [Nations -> NationRow]
  BY <1>3, <1>4
<1>6. Typed'
  BY <1>1, <1>2, <1>5 DEF Typed
<1> QED
  BY <1>1, <1>6, Quiet DEF Inv

LEMMA DesignateStep ==
    ASSUME Inv, NEW s \in Sectors, NEW t \in Types, Designate(s, t)
    PROVE  Inv'
<1>1. UNCHANGED <<unit, nat, budget, phase, row, enlistPay, onCredit>>
  BY DEF Designate
<1>2. sect' = [sect EXCEPT ![s] = [sect[s] EXCEPT !.effic = 0, !.type = t, !.newType = t]]
  BY DEF Designate, Inv, Typed
<1>3. [sect[s] EXCEPT !.effic = 0, !.type = t, !.newType = t] \in SectorRow
  <2> DEFINE x == 0
  <2>1. sect[s] \in SectorRow /\ x \in Int
    BY DEF Inv, Typed
  <2> HIDE DEF x
  <2>2. [sect[s] EXCEPT !.effic = x, !.type = t, !.newType = t] \in SectorRow
    BY <2>1 DEF SectorRow
  <2> QED
    BY <2>2 DEF x
<1>4. Typed'
  BY <1>1, <1>2, <1>3 DEF Inv, Typed
<1>5. (Balanced /\ Written /\ Once)'
  BY <1>1 DEF Inv, Balanced, Written, Once
<1> QED
  BY <1>4, <1>5 DEF Inv

-----------------------------------------------------------------------------
(* The theorems *)

LEMMA NextInv == Inv /\ [Next]_vars => Inv'
<1> SUFFICES ASSUME Inv, [Next]_vars
             PROVE  Inv'
  OBVIOUS
<1>1. CASE UNCHANGED vars
  BY <1>1 DEF vars, history, Inv, Typed, Balanced, Written, Once
<1>2. CASE Next
  <2>1. CASE BeginUpdate \/ Prepare \/ PayReserve
    BY <2>1, BeginUpdateStep, PrepareStep, PayReserveStep
  <2>2. CASE PassOver \/ Produce \/ Carry \/ Finish
    BY <2>2, PassOverStep, ProduceStep, GoodsSteps
  <2>3. CASE Build \/ Drill \/ Skip
    BY <2>3, BuildStep, DrillStep, SkipStep
  <2>4. CASE ProdNat \/ AgeLevels
    BY <2>4, ProdNatStep, AgeLevelsStep
  <2>5. CASE \E s \in Sectors, t \in Types : Designate(s, t)
    BY <2>5, DesignateStep
  <2> QED
    BY <1>2, <2>1, <2>2, <2>3, <2>4, <2>5 DEF Next
<1> QED
  BY <1>1, <1>2

\* Numbers stay whole, and balances, rows and the count of debts agree.
THEOREM InvHolds == Spec => []Inv
BY InitInv, NextInv, PTL DEF Spec

\* What prod_nat has written is all that was booked in the update, and the pay
\* of recruits: building, production and upkeep reach the treasury, in
\* whichever order sectors and units come (the comment at update.rs:337).
THEOREM TreasuriesAreAccounted == Spec => []TreasuryAccounted
<1>1. Inv => TreasuryAccounted
  <2> SUFFICES ASSUME Inv, phase = "age", NEW n \in Playing
               PROVE  nat[n].money =
                        Rounded(<<budget[n].start + Booked(budget[n]) - enlistPay[n], Dollar>>)
    BY DEF TreasuryAccounted
  <2>1. n \in Nations /\ budget[n] \in Budget /\ enlistPay[n] \in Int
    BY Constants DEF Inv, Typed
  <2>2. budget[n].start \in Int /\ budget[n].money \in Int /\ Booked(budget[n]) \in Int
    BY <2>1, Booking DEF Budget, Headings
  <2>3. budget[n].money - Booked(budget[n]) = budget[n].start - enlistPay[n]
    BY <2>1 DEF Inv, Balanced
  <2>4. budget[n].money = budget[n].start + Booked(budget[n]) - enlistPay[n]
    <3> DEFINE x == budget[n].money
               y == Booked(budget[n])
               z == budget[n].start
               w == enlistPay[n]
    <3>1. x \in Int /\ y \in Int /\ z \in Int /\ w \in Int /\ x - y = z - w
      BY <2>1, <2>2, <2>3
    <3> HIDE DEF x, y, z, w
    <3>2. x = z + y - w
      BY <3>1
    <3> QED
      BY <3>2 DEF x, y, z, w
  <2> QED
    BY <2>4 DEF Inv, Written
<1> QED
  BY <1>1, InvHolds, PTL

\* In an update a nation goes into debt at most once by building, enlisting or
\* producing: nothing of it is worked on afterwards (update.rs:549, 706, 794, 1044).
THEOREM AtMostOnceOnCredit == Spec => []OnceOnCredit
<1>1. Inv => OnceOnCredit
  BY DEF Inv, Once, OnceOnCredit
<1> QED
  BY <1>1, InvHolds, PTL

-----------------------------------------------------------------------------
(* Arithmetic of what is rounded: it stays below what is whole *)

LEMMA WholeDivision ==
    ASSUME NEW a \in Int, NEW b \in Positive
    PROVE  /\ a = b * (a \div b) + (a % b)
           /\ 0 <= a % b /\ a % b < b
           /\ a \div b \in Int /\ a % b \in Int
BY DEF Positive

LEMMA Cancel ==
    ASSUME NEW a \in Int, NEW c \in Int, NEW b \in Positive, a * b <= c * b
    PROVE  a <= c
BY DEF Positive

LEMMA CancelLess ==
    ASSUME NEW a \in Int, NEW c \in Int, NEW b \in Positive, a * b < c * b
    PROVE  a < c
BY DEF Positive

LEMMA Scale ==
    ASSUME NEW a \in Int, NEW c \in Int, NEW b \in Nat, a <= c
    PROVE  a * b <= c * b
OBVIOUS

LEMMA Commutes ==
    /\ \A a, b \in Int : a * b = b * a
    /\ \A a, b, c \in Int : (a * b) * c = a * (b * c)
OBVIOUS

LEMMA NaturalProduct == \A a, b \in Nat : a * b \in Nat
OBVIOUS

LEMMA Quotients ==
    ASSUME NEW a \in Int, NEW b \in Positive
    PROVE  /\ (a \div b) * b <= a
           /\ \A n \in Int : a <= n * b => a \div b <= n
           /\ \A n \in Int : a <= n * b /\ a % b # 0 => a \div b + 1 <= n
           /\ a >= 0 => a \div b \in Nat
<1> DEFINE d == a \div b
           r == a % b
<1>1. a = b * d + r /\ 0 <= r /\ r < b /\ d \in Int /\ r \in Int /\ b \in Int
  BY WholeDivision DEF Positive
<1> HIDE DEF d, r
<1>2. b * d = d * b /\ d * b \in Int
  BY <1>1, Commutes, Product
<1>3. d * b <= a
  BY <1>1, <1>2
<1>4. ASSUME NEW n \in Int, a <= n * b
      PROVE  d <= n /\ (r # 0 => d + 1 <= n)
  <2>1. n * b \in Int
    BY <1>1, Product
  <2>2. d * b <= n * b
    BY <1>2, <1>3, <1>4, <2>1
  <2>3. r # 0 => d * b < n * b
    BY <1>1, <1>2, <1>4, <2>1
  <2> QED
    BY <1>1, <2>2, <2>3, Cancel, CancelLess
<1>5. a >= 0 => d \in Nat
  <2>1. SUFFICES ASSUME a >= 0
                 PROVE  d >= 0
    BY <1>1
  <2>2. (-1) * b < d * b
    <3>1. (-1) * b = -b
      BY <1>1
    <3> QED
      BY <1>1, <1>2, <2>1, <3>1
  <2>3. -1 < d
    BY <1>1, <2>2, CancelLess
  <2> QED
    BY <1>1, <2>3
<1> QED
  BY <1>3, <1>4, <1>5 DEF d, r

LEMMA Capped ==
    ASSUME NEW q \in Fraction, NEW n \in Int, q[1] <= n * q[2]
    PROVE  /\ \A k \in RoundAvg(q) : k <= n
           /\ Rounded(q) <= n \/ q[1] < 0
<1>1. q[1] \in Int /\ q[2] \in Positive /\ q[2] \in Int
  BY Pairs DEF Positive
<1>2. Whole(q) <= n /\ (q[1] % q[2] # 0 => Whole(q) + 1 <= n)
  BY <1>1, Quotients DEF Whole
<1>3. \A k \in RoundAvg(q) : k <= n
  BY <1>2 DEF RoundAvg
<1>4. ASSUME q[1] >= 0
      PROVE  Rounded(q) <= n
  <2> DEFINE a == 2 * q[1] + q[2]
             b == 2 * q[2]
             m == n * q[2]
  <2>1. a \in Int /\ b \in Positive /\ b \in Int /\ m \in Int
    BY <1>1, Product DEF Positive
  <2>2. Rounded(q) = a \div b
    BY <1>4 DEF Rounded
  <2>3. (a \div b) * b <= a
    BY <2>1, Quotients
  <2>4. a < 2 * m + b
    BY <1>1, <2>1 DEF Positive
  <2>5. (n + 1) * b = 2 * m + b
    BY <1>1
  <2> HIDE DEF a, b, m
  <2>6. a \div b \in Int /\ n + 1 \in Int
    BY <2>1, Quotient
  <2>7. (a \div b) * b \in Int
    BY <2>1, <2>6, Product
  <2>8. (a \div b) * b < (n + 1) * b
    BY <2>1, <2>3, <2>4, <2>5, <2>7
  <2>9. a \div b < n + 1
    BY <2>1, <2>6, <2>8, CancelLess
  <2> QED
    BY <2>2, <2>6, <2>9
<1> QED
  BY <1>1, <1>3, <1>4

LEMMA Rounding ==
    ASSUME NEW q \in Fraction, q[1] >= 0
    PROVE  Whole(q) \in Nat /\ RoundAvg(q) \subseteq Nat /\ Rounded(q) \in Nat
           /\ Whole(q) * q[2] <= q[1]
<1>1. q[1] \in Int /\ q[2] \in Positive /\ q[2] \in Int
  BY Pairs DEF Positive
<1>2. Whole(q) \in Nat /\ Whole(q) * q[2] <= q[1]
  BY <1>1, Quotients DEF Whole
<1>3. RoundAvg(q) \subseteq Nat
  BY <1>2 DEF RoundAvg
<1>4. Rounded(q) \in Nat
  <2>1. 2 * q[1] + q[2] \in Int /\ 2 * q[2] \in Positive /\ 2 * q[1] + q[2] >= 0
    BY <1>1 DEF Positive
  <2>2. (2 * q[1] + q[2]) \div (2 * q[2]) \in Nat
    BY <2>1, Quotients
  <2> QED
    BY <2>2 DEF Rounded
<1> QED
  BY <1>2, <1>3, <1>4

\* One fraction is no more than another.
Under(q, r) == q[1] * r[2] <= r[1] * q[2]

LEMMA LessUnder ==
    ASSUME NEW q \in Fraction, NEW r \in Fraction
    PROVE  Under(Less(q, r), q) /\ Under(Less(q, r), r)
<1>1. /\ q[1] \in Int /\ q[2] \in Int /\ r[1] \in Int /\ r[2] \in Int
  BY Pairs DEF Positive
<1>2. q[1] * r[2] \in Int /\ r[1] * q[2] \in Int /\ q[1] * q[2] \in Int /\ r[1] * r[2] \in Int
  BY <1>1, Product
<1> QED
  BY <1>2 DEF Less, Under

LEMMA UnderTransitive ==
    ASSUME NEW q \in Fraction, NEW r \in Fraction, NEW s \in Fraction, Under(q, r), Under(r, s)
    PROVE  Under(q, s)
<1> DEFINE a == q[1]
           b == q[2]
           c == r[1]
           d == r[2]
           e == s[1]
           f == s[2]
<1>1. a \in Int /\ c \in Int /\ e \in Int /\ b \in Positive /\ d \in Positive /\ f \in Positive
  BY Pairs
<1>2. a * d <= c * b /\ c * f <= e * d
  BY DEF Under
<1> HIDE DEF a, b, c, d, e, f
<1>3. b \in Nat /\ d \in Nat /\ f \in Nat
  BY <1>1 DEF Positive
<1>4. (a * d) * f <= (c * b) * f
  BY <1>1, <1>2, <1>3, Product, Scale
<1>5. (c * f) * b <= (e * d) * b
  BY <1>1, <1>2, <1>3, Product, Scale
<1>6. (c * b) * f = (c * f) * b
  BY <1>1, <1>3
<1>7. (a * d) * f = (a * f) * d
  BY <1>1, <1>3
<1>8. (e * d) * b = (e * b) * d
  BY <1>1, <1>3
<1>9. a * f \in Int /\ e * b \in Int
  BY <1>1, <1>3, Product
<1>10. (a * f) * d \in Int /\ (c * f) * b \in Int /\ (e * b) * d \in Int
  <2>1. c * f \in Int
    BY <1>1, <1>3, Product
  <2> QED
    BY <1>3, <1>9, <2>1, Product
<1>11. (a * f) * d <= (e * b) * d
  BY <1>4, <1>5, <1>6, <1>7, <1>8, <1>10
<1>12. a * f <= e * b
  BY <1>1, <1>9, <1>11, Cancel
<1> QED
  BY <1>12 DEF Under, a, b, e, f

-----------------------------------------------------------------------------
(* Ranges of rows *)

InRange(p) ==
    /\ p.effic \in 0..100 /\ p.avail \in Nat /\ p.work \in 0..100 /\ p.loyal \in Nat
    /\ \A i \in Items : p.items[i] \in 0..ItemMax
    /\ \A d \in Deposits : p.deposit[d] \in 0..100

\* The same of a sector whose children have not been counted out.
Crowded(p) ==
    /\ p.effic \in 0..100 /\ p.avail \in Nat /\ p.work \in 0..100 /\ p.loyal \in Nat
    /\ \A i \in Items : p.items[i] \in Nat
    /\ \A i \in Items \ {"civil", "uw"} : p.items[i] <= ItemMax
    /\ \A d \in Deposits : p.deposit[d] \in 0..100

LEMMA Limits ==
    /\ ItemMax \in Nat /\ ItemMax >= 1 /\ Etu \in Positive
    /\ {CivBirths, UwBirths, Eats, BabyEats, WorkBump} \subseteq Nat
    /\ \A k \in {"ship", "plane", "land"} : GrowCap[k] \in Nat
    /\ \A t \in Types : TypeChr[t].maxpop \in Nat /\ TypeChr[t].maxpop <= ItemMax
                        /\ TypeChr[t].peff \in Nat /\ TypeChr[t].bwork \in Nat
    /\ \A u \in Units : {UnitChr[u].bwork, UnitChr[u].lcm, UnitChr[u].hcm} \subseteq Nat
                        /\ \A i \in Items : UnitChr[u].room[i] \in 0..ItemMax
<1>1. \A t \in Types : TypeChr[t] \in TypeRecord
  BY EconomyAssumption
<1>2. \A t \in Types : TypeChr[t].maxpop \in Nat /\ TypeChr[t].peff \in Nat
                       /\ TypeChr[t].bwork \in Nat
  BY <1>1 DEF TypeRecord
<1>3. \A u \in Units : UnitChr[u] \in UnitRecord
  BY EconomyAssumption
<1>4. \A u \in Units : {UnitChr[u].bwork, UnitChr[u].lcm, UnitChr[u].hcm} \subseteq Nat
                       /\ \A i \in Items : UnitChr[u].room[i] \in 0..ItemMax
  BY <1>3 DEF UnitRecord
<1>5. /\ ItemMax \in Nat /\ Etu \in Positive
      /\ {CivBirths, UwBirths, Eats, BabyEats, WorkBump} \subseteq Nat
      /\ \A k \in {"ship", "plane", "land"} : GrowCap[k] \in Nat
  BY EconomyAssumption DEF Positive
<1> QED
  BY <1>2, <1>4, <1>5, TablesAssumption

LEMMA SectorRange == \A p : p \in Sector <=> p \in SectorRow /\ InRange(p)
<1>1. ASSUME NEW p \in Sector
      PROVE  p \in SectorRow /\ InRange(p)
  <2>1. (0..ItemMax) \subseteq Int /\ (0..100) \subseteq Int /\ Nat \subseteq Int
    BY Constants
  <2>2. [Items -> 0..ItemMax] \subseteq [Items -> Int]
        /\ [Deposits -> 0..100] \subseteq [Deposits -> Int]
    BY <2>1
  <2>3. p \in SectorRow
    BY <2>1, <2>2 DEF Sector, SectorRow
  <2>4. p.items \in [Items -> 0..ItemMax] /\ p.deposit \in [Deposits -> 0..100]
        /\ p.effic \in 0..100 /\ p.avail \in Nat /\ p.work \in 0..100 /\ p.loyal \in Nat
    BY DEF Sector
  <2> QED
    BY <2>3, <2>4 DEF InRange
<1>2. ASSUME NEW p \in SectorRow, InRange(p)
      PROVE  p \in Sector
  <2>1. p.items \in [Items -> Int] /\ p.deposit \in [Deposits -> Int]
    BY DEF SectorRow
  <2>2. p.items \in [Items -> 0..ItemMax] /\ p.deposit \in [Deposits -> 0..100]
    BY <1>2, <2>1 DEF InRange
  <2>3. p.effic \in 0..100 /\ p.avail \in Nat /\ p.work \in 0..100 /\ p.loyal \in Nat
    BY <1>2 DEF InRange
  <2> QED
    BY <2>2, <2>3 DEF Sector, SectorRow
<1> QED
  BY <1>1, <1>2

\* Rows that are alike in all but their stores.
Alike(p, q) ==
    /\ q.own = p.own /\ q.oldOwn = p.oldOwn /\ q.type = p.type /\ q.newType = p.newType
    /\ q.effic = p.effic /\ q.avail = p.avail /\ q.work = p.work /\ q.loyal = p.loyal
    /\ q.off = p.off /\ q.deposit = p.deposit

LEMMA AddedIs ==
    ASSUME NEW p \in SectorRow, NEW i \in Items, NEW k \in Int
    PROVE  /\ Alike(p, Added(p, i, k))
           /\ Added(p, i, k).items[i] = p.items[i] + k
           /\ \A j \in Items \ {i} : Added(p, i, k).items[j] = p.items[j]
BY DEF SectorRow, Added, Alike

LEMMA AddedTwice ==
    ASSUME NEW p \in SectorRow, NEW i \in Items, NEW j \in Items, i # j,
           NEW x \in Int, NEW y \in Int
    PROVE  /\ Added(Added(p, i, x), j, y) \in SectorRow
           /\ Alike(p, Added(Added(p, i, x), j, y))
           /\ Added(Added(p, i, x), j, y).items[i] = p.items[i] + x
           /\ Added(Added(p, i, x), j, y).items[j] = p.items[j] + y
           /\ \A k \in Items \ {i, j} : Added(Added(p, i, x), j, y).items[k] = p.items[k]
<1> DEFINE q == Added(p, i, x)
<1>1. q \in SectorRow /\ Alike(p, q) /\ q.items[i] = p.items[i] + x
      /\ \A k \in Items \ {i} : q.items[k] = p.items[k]
  BY AddedIs, AddedTyped
<1> HIDE DEF q
<1> DEFINE r == Added(q, j, y)
<1>2. r \in SectorRow /\ Alike(q, r) /\ r.items[j] = q.items[j] + y
      /\ \A k \in Items \ {j} : r.items[k] = q.items[k]
  BY <1>1, AddedIs, AddedTyped
<1> HIDE DEF r
<1>3. Alike(p, r)
  BY <1>1, <1>2 DEF Alike
<1>4. /\ r.items[i] = p.items[i] + x /\ r.items[j] = p.items[j] + y
      /\ \A k \in Items \ {i, j} : r.items[k] = p.items[k]
  BY <1>1, <1>2
<1> QED
  BY <1>2, <1>3, <1>4 DEF q, r

LEMMA Names ==
    /\ {"civil", "milit", "uw", "food", "lcm", "hcm", "oil"} \subseteq Items
    /\ "civil" # "milit" /\ "civil" # "uw" /\ "milit" # "uw" /\ "food" # "civil" /\ "food" # "uw"
    /\ "food" # "milit" /\ "lcm" # "hcm" /\ "oil" # "food"
BY Constants

LEMMA FedRange ==
    ASSUME NEW p \in Sector, NEW q \in Fed(p)
    PROVE  Crowded(q)
<1> DEFINE civ == p.items["civil"]
           uw == p.items["uw"]
           people == civ + uw + p.items["milit"]
           babies == (civ * CivBirths) \div 1000
           babyUw == (uw * UwBirths) \div 1000
           need == (people + babies + babyUw) * Eats + (babies + babyUw) * BabyEats
           left == 1000 * p.items["food"] - need
<1>1. p \in SectorRow /\ InRange(p)
  BY SectorRange
<1>2. civ \in Nat /\ uw \in Nat /\ p.items["milit"] \in Nat /\ p.items["food"] \in Nat
      /\ p.items["food"] <= ItemMax
  BY <1>1, Names, Limits DEF InRange
<1>3. babies \in Nat /\ babyUw \in Nat
  <2>1. civ * CivBirths \in Nat /\ uw * UwBirths \in Nat
    BY <1>2, Limits, NaturalProduct
  <2> HIDE DEF civ, uw
  <2> QED
    BY <2>1
<1>4. need \in Nat
  <2>1. people + babies + babyUw \in Nat /\ babies + babyUw \in Nat
    BY <1>2, <1>3
  <2>2. (people + babies + babyUw) * Eats \in Nat /\ (babies + babyUw) * BabyEats \in Nat
    BY <2>1, Limits, NaturalProduct
  <2> HIDE DEF people, babies, babyUw
  <2> QED
    BY <2>2
<1>5. left \in Int /\ left <= 1000 * p.items["food"] /\ -left <= need
  <2> HIDE DEF need
  <2> QED
    BY <1>2, <1>4
<1>6. Crowded(p)
  BY <1>1, Limits DEF InRange, Crowded
<1>7. CASE people = 0 \/ need <= 0
  <2>1. q = p
    BY <1>7 DEF Fed
  <2> QED
    BY <1>6, <2>1
<1>8. CASE ~(people = 0 \/ need <= 0) /\ left >= 0
  <2> DEFINE r == Added(Added(p, "civil", babies), "uw", babyUw)
             x == left \div 1000
             y == Lower(p.work + WorkBump, 100)
  <2>1. q = [r EXCEPT !.items["food"] = x, !.work = y]
    BY <1>8 DEF Fed
  <2>2. x \in Nat /\ x <= p.items["food"]
    <3> HIDE DEF left
    <3> QED
      BY <1>2, <1>5, <1>8
  <2>3. y \in 0..100
    <3>1. p.work \in 0..100 /\ WorkBump \in Nat
      BY <1>1, Limits DEF InRange
    <3> QED
      BY <3>1 DEF Lower
  <2> HIDE DEF x, y, babies, babyUw
  <2>4. r \in SectorRow /\ Alike(p, r)
        /\ r.items["civil"] = p.items["civil"] + babies /\ r.items["uw"] = p.items["uw"] + babyUw
        /\ \A i \in Items \ {"civil", "uw"} : r.items[i] = p.items[i]
    BY <1>1, <1>3, Names, AddedTwice
  <2> HIDE DEF r
  <2>5. /\ q.effic = r.effic /\ q.avail = r.avail /\ q.work = y /\ q.loyal = r.loyal
        /\ q.deposit = r.deposit /\ q.items["food"] = x
        /\ \A i \in Items \ {"food"} : q.items[i] = r.items[i]
    BY <2>1, <2>4, Names DEF SectorRow
  <2>6. \A i \in Items \ {"food", "civil", "uw"} : q.items[i] = p.items[i]
    BY <2>4, <2>5
  <2>7. q.items["civil"] \in Nat /\ q.items["uw"] \in Nat /\ q.items["food"] \in Nat
        /\ q.items["food"] <= ItemMax
    BY <1>2, <1>3, <2>2, <2>4, <2>5, Names, Limits
  <2>8. \A i \in Items : q.items[i] \in Nat
    BY <1>6, <2>6, <2>7 DEF Crowded
  <2>9. \A i \in Items \ {"civil", "uw"} : q.items[i] <= ItemMax
    BY <1>6, <2>6, <2>7 DEF Crowded
  <2> QED
    BY <1>6, <2>3, <2>4, <2>5, <2>8, <2>9 DEF Crowded, Alike
<1>9. CASE ~(people = 0 \/ need <= 0) /\ ~(left >= 0)
  <2>1. PICK c \in RoundAvg(<<-left * civ, 2 * need>>), u \in RoundAvg(<<-left * uw, 2 * need>>) :
            q = [Added(Added(p, "civil", -c), "uw", -u) EXCEPT !.items["food"] = 0]
    BY <1>9 DEF Fed
  <2>2. ASSUME NEW n \in Nat, NEW k \in RoundAvg(<<-left * n, 2 * need>>)
        PROVE  k \in Nat /\ k <= n
    <3> DEFINE f == <<-left * n, 2 * need>>
    <3> HIDE DEF left, need
    <3>1. -left \in Nat /\ need \in Nat /\ 2 * need \in Positive
      BY <1>4, <1>5, <1>9 DEF Positive
    <3> DEFINE m == -left
    <3>2. m \in Nat /\ -left * n = m * n /\ m <= need
      <4>1. \A a \in Int : -a * n = (-a) * n
        OBVIOUS
      <4> QED
        BY <1>5, <3>1, <4>1
    <3> HIDE DEF m
    <3>3. m * n \in Nat
      BY <3>2, NaturalProduct
    <3>4. f \in Fraction /\ f[1] = m * n /\ f[2] = 2 * need
      BY <3>1, <3>2, <3>3, Pairs
    <3>5. m * n <= need * n
      BY <3>1, <3>2, Scale
    <3>6. need * n \in Nat /\ n * (2 * need) = 2 * (need * n)
      BY <3>1, NaturalProduct
    <3>7. m * n <= n * (2 * need)
      BY <3>5, <3>6, <3>3
    <3> HIDE DEF f
    <3> QED
      BY <3>4, <3>3, <3>7, Capped, Rounding DEF f
  <2>3. c \in Nat /\ c <= civ /\ u \in Nat /\ u <= uw
    <3> HIDE DEF left, need, civ, uw
    <3> QED
      BY <1>2, <2>2
  <2> DEFINE r == Added(Added(p, "civil", -c), "uw", -u)
  <2>4. r \in SectorRow /\ Alike(p, r)
        /\ r.items["civil"] = p.items["civil"] - c /\ r.items["uw"] = p.items["uw"] - u
        /\ \A i \in Items \ {"civil", "uw"} : r.items[i] = p.items[i]
    <3> DEFINE x == -c
               y == -u
    <3>1. x \in Int /\ y \in Int /\ p.items["civil"] - c = p.items["civil"] + x
          /\ p.items["uw"] - u = p.items["uw"] + y
      BY <1>2, <2>3
    <3> HIDE DEF x, y
    <3>2. /\ Added(Added(p, "civil", x), "uw", y) \in SectorRow
          /\ Alike(p, Added(Added(p, "civil", x), "uw", y))
          /\ Added(Added(p, "civil", x), "uw", y).items["civil"] = p.items["civil"] + x
          /\ Added(Added(p, "civil", x), "uw", y).items["uw"] = p.items["uw"] + y
          /\ \A i \in Items \ {"civil", "uw"} :
                Added(Added(p, "civil", x), "uw", y).items[i] = p.items[i]
      BY <1>1, <3>1, Names, AddedTwice
    <3> QED
      BY <3>1, <3>2 DEF x, y
  <2>5. q = [r EXCEPT !.items["food"] = 0]
    BY <2>1
  <2> HIDE DEF r
  <2>6. /\ q.effic = r.effic /\ q.avail = r.avail /\ q.work = r.work /\ q.loyal = r.loyal
        /\ q.deposit = r.deposit /\ q.items["food"] = 0
        /\ \A i \in Items \ {"food"} : q.items[i] = r.items[i]
    BY <2>4, <2>5, Names DEF SectorRow
  <2>7. \A i \in Items \ {"food", "civil", "uw"} : q.items[i] = p.items[i]
    BY <2>4, <2>6
  <2>8. q.items["civil"] \in Nat /\ q.items["uw"] \in Nat /\ q.items["food"] \in Nat
        /\ q.items["food"] <= ItemMax
    BY <1>2, <2>3, <2>4, <2>6, Names, Limits
  <2>9. \A i \in Items : q.items[i] \in Nat
    BY <1>6, <2>7, <2>8 DEF Crowded
  <2>10. \A i \in Items \ {"civil", "uw"} : q.items[i] <= ItemMax
    BY <1>6, <2>7, <2>8 DEF Crowded
  <2> QED
    BY <1>6, <2>4, <2>6, <2>9, <2>10 DEF Crowded, Alike
<1> QED
  BY <1>7, <1>8, <1>9

-----------------------------------------------------------------------------
(* Sectors that have been prepared *)

\* Who owns a sector has people there, and those of others are civilians.
Peopled(p) ==
    p.own # 0 => /\ p.items["civil"] + p.items["milit"] > 0
                 /\ p.oldOwn # p.own => p.items["civil"] > 0
Fits(p) == p.own # 0 => p.items["civil"] <= Higher(TypeChr[p.type].maxpop, 1)

LEMMA SettledRange ==
    ASSUME NEW p \in SectorRow, Crowded(p)
    PROVE  InRange(Settled(p)) /\ Peopled(Settled(p)) /\ Fits(Settled(p))
<1> DEFINE m == Higher(TypeChr[p.type].maxpop, 1)
           t == Truncated(p)
           c == CheckPopLoss(t)
           r == Reconciled(c)
<1>1. m \in Nat /\ m <= ItemMax
  <2>1. p.type \in Types
    BY SectorFields
  <2> QED
    BY <2>1, Limits DEF Higher
<1>2. /\ t \in SectorRow /\ InRange(t) /\ t.type = p.type /\ t.items["civil"] <= m
  <2> DEFINE Cut(q, i) == [q EXCEPT !.items[i] = Lower(@, m)]
  <2> HIDE DEF m
  <2>1. ASSUME NEW q \in SectorRow, NEW i \in Items, q.items[i] \in Nat
        PROVE  /\ Cut(q, i) \in SectorRow /\ Alike(q, Cut(q, i))
               /\ Cut(q, i).items[i] \in 0..m
               /\ \A j \in Items \ {i} : Cut(q, i).items[j] = q.items[j]
    <3> DEFINE x == Lower(q.items[i], m)
    <3>1. x \in 0..m /\ x \in Int
      BY <1>1, <2>1 DEF Lower
    <3>2. Cut(q, i) = [q EXCEPT !.items[i] = x]
      OBVIOUS
    <3> HIDE DEF x, Cut
    <3> QED
      BY <3>1, <3>2 DEF SectorRow, Alike
  <2>2. p.items["civil"] \in Nat /\ p.items["uw"] \in Nat
    BY Names DEF Crowded
  <2> HIDE DEF Cut
  <2> DEFINE q == Cut(p, "civil")
             s == Cut(q, "uw")
  <2>3. q \in SectorRow /\ Alike(p, q) /\ q.items["civil"] \in 0..m
        /\ \A j \in Items \ {"civil"} : q.items[j] = p.items[j]
    BY <2>1, <2>2, Names
  <2>4. q.items["uw"] \in Nat
    BY <2>2, <2>3, Names
  <2> HIDE DEF q
  <2>5. s \in SectorRow /\ Alike(q, s) /\ s.items["uw"] \in 0..m
        /\ \A j \in Items \ {"uw"} : s.items[j] = q.items[j]
    BY <2>1, <2>3, <2>4, Names
  <2> HIDE DEF s
  <2>6. t = s
    BY DEF Truncated, Cut, q, s, m
  <2>7. s.items["civil"] \in 0..m
    BY <2>3, <2>5, Names
  <2>8. \A j \in Items \ {"civil", "uw"} : s.items[j] = p.items[j]
    BY <2>3, <2>5
  <2>9. \A j \in Items : s.items[j] \in 0..ItemMax
    BY <1>1, <2>5, <2>7, <2>8, Limits DEF Crowded
  <2>10. Alike(p, s)
    BY <2>3, <2>5 DEF Alike
  <2>11. InRange(s)
    BY <2>9, <2>10 DEF InRange, Crowded, Alike
  <2> HIDE DEF t
  <2> QED
    BY <1>1, <2>5, <2>6, <2>7, <2>10, <2>11 DEF Alike
<1> HIDE DEF t, m
<1>3. /\ c \in SectorRow /\ InRange(c) /\ c.type = p.type /\ c.items = t.items
      /\ c.own # 0 => /\ c.items["civil"] + c.items["milit"] > 0
                      /\ c.oldOwn # c.own => c.items["civil"] > 0
  <2>1. t.items["civil"] \in Nat /\ t.items["milit"] \in Nat
    BY <1>2, Names DEF InRange
  <2>2. CASE t.items["civil"] # 0
    BY <1>2, <2>1, <2>2 DEF CheckPopLoss
  <2>3. CASE t.items["civil"] = 0 /\ t.items["milit"] # 0
    <3>1. c = [t EXCEPT !.work = 100, !.loyal = 0, !.oldOwn = t.own]
      BY <2>3 DEF CheckPopLoss
    <3>2. /\ c.own = t.own /\ c.oldOwn = t.own /\ c.type = t.type /\ c.newType = t.newType
          /\ c.effic = t.effic /\ c.avail = t.avail /\ c.work = 100 /\ c.loyal = 0
          /\ c.items = t.items /\ c.deposit = t.deposit
      BY <1>2, <3>1 DEF SectorRow
    <3>3. c \in SectorRow
      BY <1>2, CheckPopLossTyped
    <3> HIDE DEF c
    <3>4. InRange(c)
      BY <1>2, <3>2 DEF InRange
    <3> QED
      BY <1>2, <2>1, <2>3, <3>2, <3>3, <3>4
  <2>4. CASE t.items["civil"] = 0 /\ t.items["milit"] = 0
    <3>1. c = [t EXCEPT !.work = 100, !.loyal = 0, !.own = 0, !.oldOwn = 0]
      BY <2>4 DEF CheckPopLoss
    <3>2. /\ c.own = 0 /\ c.oldOwn = 0 /\ c.type = t.type /\ c.newType = t.newType
          /\ c.effic = t.effic /\ c.avail = t.avail /\ c.work = 100 /\ c.loyal = 0
          /\ c.items = t.items /\ c.deposit = t.deposit
      BY <1>2, <3>1 DEF SectorRow
    <3>3. c \in SectorRow
      BY <1>2, CheckPopLossTyped
    <3> HIDE DEF c
    <3>4. InRange(c)
      BY <1>2, <3>2 DEF InRange
    <3> QED
      BY <1>2, <3>2, <3>3, <3>4
  <2> QED
    BY <2>2, <2>3, <2>4
<1> HIDE DEF c
<1>4. /\ InRange(r) /\ r.type = p.type /\ r.items = t.items /\ r.own = c.own
      /\ r.oldOwn # r.own => r.oldOwn = c.oldOwn
  <2>1. r = c \/ r = [c EXCEPT !.oldOwn = c.own]
    BY DEF Reconciled
  <2>2. /\ r.own = c.own /\ (r.oldOwn = c.oldOwn \/ r.oldOwn = r.own) /\ r.type = c.type
        /\ r.effic = c.effic /\ r.avail = c.avail /\ r.work = c.work /\ r.loyal = c.loyal
        /\ r.items = c.items /\ r.deposit = c.deposit
    BY <1>3, <2>1 DEF SectorRow
  <2> HIDE DEF r
  <2> QED
    BY <1>3, <2>2 DEF InRange
<1>5. r = Settled(p)
  BY DEF Settled, r, c, t
<1> HIDE DEF r
<1>6. Peopled(r)
  BY <1>3, <1>4 DEF Peopled
<1>7. Fits(r)
  BY <1>2, <1>4 DEF Fits, m
<1> QED
  BY <1>4, <1>5, <1>6, <1>7

LEMMA WorkersNatural ==
    ASSUME NEW work \in Nat, NEW items, \A i \in Items : items[i] \in Nat, NEW maxpop \in Nat
    PROVE  RoundAvg(Workers(work, items, maxpop)) \subseteq Nat
<1> DEFINE c == Lower(items["civil"], maxpop)
           m == Lower(items["milit"], maxpop)
           u == Lower(items["uw"], maxpop)
<1>1. c \in Nat /\ m \in Nat /\ u \in Nat
  BY Names DEF Lower
<1> HIDE DEF c, m, u
<1>2. c * work \in Nat
  BY <1>1, NaturalProduct
<1>3. c * work + 40 * m + 100 * u \in Nat /\ Etu \in Nat /\ 10000 \in Positive
  BY <1>1, <1>2, Limits, Numerals DEF Positive
<1> DEFINE x == (c * work + 40 * m + 100 * u) * Etu
<1>4. x \in Nat
  BY <1>3, NaturalProduct
<1> HIDE DEF x
<1>5. <<x, 10000>> \in Fraction /\ <<x, 10000>>[1] >= 0
  BY <1>3, <1>4, Pairs
<1>6. Workers(work, items, maxpop) = <<x, 10000>>
  BY DEF Workers, c, m, u, x
<1> QED
  BY <1>5, <1>6, Rounding

LEMMA PreparedRange ==
    ASSUME NEW p \in Sector, NEW q \in Prepared(p)
    PROVE  q \in Sector /\ (~Wild(q) => Peopled(q) /\ Fits(q))
<1>1. p \in SectorRow /\ InRange(p) /\ q \in SectorRow
  BY SectorRange, PreparedTyped
<1> DEFINE m == Higher(TypeChr[p.type].maxpop, 1)
           rested == {[p EXCEPT !.avail = Lower(@ \div 2 + w, 10000)] :
                        w \in RoundAvg(Workers(p.work, p.items, m))}
<1>2. ASSUME NEW r \in rested
      PROVE  r \in Sector /\ r.own = p.own
  <2>1. m \in Nat /\ p.work \in Nat /\ \A i \in Items : p.items[i] \in Nat
    <3>1. p.type \in Types
      BY <1>1, SectorFields
    <3> QED
      BY <1>1, <3>1, Limits DEF Higher, InRange
  <2> HIDE DEF m
  <2>2. PICK w \in RoundAvg(Workers(p.work, p.items, m)) :
            r = [p EXCEPT !.avail = Lower(@ \div 2 + w, 10000)]
    OBVIOUS
  <2>3. w \in Nat /\ p.avail \in Nat
    BY <1>1, <2>1, WorkersNatural DEF InRange
  <2> DEFINE x == Lower(p.avail \div 2 + w, 10000)
  <2>4. x \in Nat
    BY <2>3 DEF Lower
  <2>5. r = [p EXCEPT !.avail = x]
    BY <2>2
  <2> HIDE DEF x
  <2> QED
    BY <2>4, <2>5 DEF Sector
<1> HIDE DEF rested
<1>3. CASE Wild(p)
  <2>1. q = p
    BY <1>3 DEF Prepared
  <2> QED
    BY <1>3, <2>1
<1>4. CASE ~Wild(p) /\ p.own = 0
  <2>1. q \in rested
    BY <1>4 DEF Prepared, rested, m
  <2> QED
    BY <1>2, <1>4, <2>1 DEF Peopled, Fits
<1>5. CASE ~Wild(p) /\ p.own # 0
  <2>1. q \in {Settled(f) : f \in UNION {Fed(r) : r \in rested}}
    BY <1>5 DEF Prepared, rested, m
  <2>2. PICK r \in rested : \E f \in Fed(r) : q = Settled(f)
    BY <2>1
  <2>3. PICK f \in Fed(r) : q = Settled(f)
    BY <2>2
  <2>4. f \in SectorRow /\ Crowded(f)
    BY <1>2, FedRange, FedTyped, SectorRange
  <2> QED
    BY <1>1, <2>3, <2>4, SettledRange, SectorRange
<1> QED
  BY <1>3, <1>4, <1>5

-----------------------------------------------------------------------------
(* Building, recruiting *)

LEMMA BuildRange ==
    ASSUME NEW p \in Sector
    PROVE  /\ BuildEff(p) \in Sector /\ BuildEff(p).items = p.items
           /\ BuildEff(p).own = p.own /\ BuildEff(p).oldOwn = p.oldOwn
<1> DEFINE q == Cleared(p)
<1>1. p \in SectorRow /\ InRange(p) /\ p.effic \in 0..100 /\ p.avail \in Nat
  BY SectorRange DEF InRange
<1>2. \A r \in Sector : Builders(r) \in Nat /\ Builders(r) \div 100 = r.avail \div 2
                        /\ BuildWork(r) \in Positive
  <2> SUFFICES ASSUME NEW r \in Sector
               PROVE  Builders(r) \in Nat /\ Builders(r) \div 100 = r.avail \div 2
                      /\ BuildWork(r) \in Positive
    OBVIOUS
  <2>1. r.avail \in Nat /\ TypeChr[r.type].bwork \in Int
    BY SectorRange, SectorFields, Tables DEF InRange
  <2>2. r.avail \div 2 \in Nat
    BY <2>1
  <2> DEFINE a == r.avail \div 2
  <2> HIDE DEF a
  <2>3. 100 * a \in Nat /\ (100 * a) \div 100 = a
    BY <2>2 DEF a
  <2> QED
    BY <2>1, <2>3, Bounds DEF Builders, BuildWork, a
<1>3. TornDown(p) \in Nat /\ TornDown(p) <= p.effic
  <2>1. 4 * Builders(p) \in Int /\ 4 * Builders(p) >= 0 /\ BuildWork(p) \in Positive
    BY <1>2
  <2>2. (4 * Builders(p)) \div BuildWork(p) \in Nat
    BY <2>1, Quotients
  <2> QED
    BY <1>1, <2>2 DEF TornDown, Lower
<1>4. /\ q \in Sector /\ q.items = p.items /\ q.avail = p.avail
      /\ q.own = p.own /\ q.oldOwn = p.oldOwn
  <2> DEFINE x == p.effic - TornDown(p)
             r == [p EXCEPT !.effic = x]
  <2>1. x \in 0..100
    BY <1>1, <1>3
  <2> HIDE DEF x
  <2>2. r \in Sector /\ r.items = p.items /\ r.avail = p.avail
        /\ r.own = p.own /\ r.oldOwn = p.oldOwn
    BY <2>1 DEF Sector
  <2>3. p.newType \in Types
    BY <1>1, SectorFields
  <2>4. q = r \/ q = [r EXCEPT !.type = p.newType]
    BY DEF Cleared, x
  <2> HIDE DEF q, r
  <2> QED
    BY <2>2, <2>3, <2>4 DEF Sector
<1> HIDE DEF q
<1>5. q.effic \in 0..100 /\ Grown(q) \in 0..100 - q.effic
  <2>1. q.effic \in 0..100
    BY <1>4 DEF Sector
  <2>2. Builders(q) \div BuildWork(q) \in Nat
    <3>1. Builders(q) \in Int /\ Builders(q) >= 0 /\ BuildWork(q) \in Positive
      BY <1>2, <1>4
    <3> QED
      BY <3>1, Quotients
  <2> QED
    BY <2>1, <2>2 DEF Grown, Lower
<1> DEFINE x == q.effic + Grown(q)
           y == (q.avail + 1) \div 2 + Builders(q) \div 100
<1>6. x \in 0..100
  BY <1>5
<1>7. y \in Nat
  <2>1. q.avail \in Nat /\ Builders(q) \div 100 = q.avail \div 2
    BY <1>2, <1>4 DEF Sector
  <2> QED
    BY <2>1
<1> HIDE DEF x, y
<1>8. BuildEff(p) = [q EXCEPT !.effic = x, !.avail = y]
  BY DEF BuildEff, q, x, y
<1> QED
  BY <1>4, <1>6, <1>7, <1>8 DEF Sector

LEMMA RecruitsNatural ==
    ASSUME NEW p \in Sector, NEW chr
    PROVE  /\ Recruits(p, chr) \in Nat
           /\ \/ Recruits(p, chr) = 0
              \/ /\ p.oldOwn = p.own
                 /\ Recruits(p, chr) <= p.items["civil"] \div 2 - p.items["milit"]
<1> DEFINE k == Recruits(p, chr)
           civ == p.items["civil"]
           mil == p.items["milit"]
           x == (Etu * (10 + mil)) \div 20
           y == civ \div 2 - mil
<1>1. civ \in Nat /\ mil \in Nat /\ Etu \in Nat
  BY SectorRange, Names, Limits DEF InRange, Positive
<1>2. x \in Nat /\ y \in Int
  <2>1. Etu * (10 + mil) \in Nat
    <3>1. 10 + mil \in Nat
      BY <1>1
    <3> QED
      BY <1>1, <3>1, NaturalProduct
  <2> QED
    BY <1>1, <2>1
<1>3. k = 0 \/ (p.oldOwn = p.own /\ k = Higher(0, Lower(x, y)))
  BY DEF Recruits
<1> HIDE DEF x, k
<1>4. Higher(0, Lower(x, y)) = 0 \/ Higher(0, Lower(x, y)) <= y
  BY <1>2 DEF Higher, Lower
<1>5. Higher(0, Lower(x, y)) \in Nat
  BY <1>2 DEF Higher, Lower
<1> QED
  BY <1>3, <1>4, <1>5 DEF k

LEMMA RecruitsRange ==
    ASSUME NEW p \in Sector, NEW chr
    PROVE  /\ Enlist(p, Recruits(p, chr)) \in Sector
           /\ Peopled(p) => Peopled(Enlist(p, Recruits(p, chr)))
<1> DEFINE k == Recruits(p, chr)
           civ == p.items["civil"]
           mil == p.items["milit"]
           q == Enlist(p, k)
<1>1. p \in SectorRow /\ InRange(p)
  BY SectorRange
<1>2. civ \in Nat /\ mil \in Nat /\ civ <= ItemMax /\ mil <= ItemMax
  BY <1>1, Names, Limits DEF InRange
<1>3. k \in Nat /\ (k = 0 \/ (p.oldOwn = p.own /\ k <= civ \div 2 - mil))
  BY RecruitsNatural
<1> HIDE DEF k
<1>4. k # 0 => civ - k > 0 /\ mil + k <= ItemMax
  <2>1. civ \div 2 \in Nat /\ civ \div 2 <= civ /\ (civ > 0 => civ \div 2 < civ)
    BY <1>2
  <2> QED
    BY <1>2, <1>3, <2>1, Limits
<1>5. /\ q \in SectorRow /\ Alike(p, q)
      /\ q.items["civil"] = civ - k /\ q.items["milit"] = mil + k
      /\ \A i \in Items \ {"civil", "milit"} : q.items[i] = p.items[i]
  <2> DEFINE x == -k
  <2>1. x \in Int /\ civ - k = civ + x
    BY <1>2, <1>3
  <2> HIDE DEF x
  <2> DEFINE r == Added(Added(p, "civil", x), "milit", k)
  <2>2. /\ r \in SectorRow /\ Alike(p, r)
        /\ r.items["civil"] = p.items["civil"] + x /\ r.items["milit"] = p.items["milit"] + k
        /\ \A i \in Items \ {"civil", "milit"} : r.items[i] = p.items[i]
    BY <1>1, <1>3, <2>1, Names, AddedTwice
  <2>3. q = r
    BY DEF Enlist, x
  <2> HIDE DEF r, q
  <2> QED
    BY <2>1, <2>2, <2>3
<1> HIDE DEF q
<1>6. \A i \in Items : q.items[i] \in 0..ItemMax
  <2>1. q.items["civil"] \in 0..ItemMax /\ q.items["milit"] \in 0..ItemMax
    BY <1>2, <1>3, <1>4, <1>5, Limits
  <2> QED
    BY <1>1, <1>5, <2>1 DEF InRange
<1>7. InRange(q)
  BY <1>1, <1>5, <1>6 DEF InRange, Alike
<1>8. Peopled(p) => Peopled(q)
  BY <1>2, <1>3, <1>4, <1>5 DEF Peopled, Alike
<1> QED
  BY <1>5, <1>7, <1>8, SectorRange DEF q, k

-----------------------------------------------------------------------------
(* Products take no more than there is *)

LEMMA SectorNumbers ==
    ASSUME NEW p \in Sector
    PROVE  /\ p.effic \in 0..100 /\ p.avail \in Nat /\ p.work \in 0..100
           /\ \A i \in Items : p.items[i] \in Nat /\ p.items[i] <= ItemMax
           /\ \A d \in Deposits : p.deposit[d] \in 0..100
           /\ p \in SectorRow
BY SectorRange, Limits DEF InRange

LEMMA ResourceRange ==
    ASSUME NEW p \in Sector, NEW d, ProductTyped(d)
    PROVE  Resource(p, d) \in 0..100
BY SectorNumbers DEF Resource, ProductTyped

\* A batch is no more than any of its limits.
LEMMA BatchUnder ==
    ASSUME NEW p \in Sector, NEW d, ProductTyped(d)
    PROVE  /\ Batch(p, d) \in Fraction
           /\ \A k \in 1..3 : d.inputs[k].amount # 0 =>
                Under(Batch(p, d), <<p.items[d.inputs[k].item], d.inputs[k].amount>>)
           /\ WorkerLimit(p, d) \in Fraction /\ Under(Batch(p, d), WorkerLimit(p, d))
           /\ ResourceLimit(p, d) \in Fraction /\ Under(Batch(p, d), ResourceLimit(p, d))
<1> DEFINE limit(k) == IF d.inputs[k].amount = 0 THEN <<9999, 1>>
                       ELSE <<p.items[d.inputs[k].item], d.inputs[k].amount>>
           top == <<9999, 1>>
           m == MaterialLimit(p, d)
           w == WorkerLimit(p, d)
           r == ResourceLimit(p, d)
           b == Batch(p, d)
<1>1. top \in Fraction
  BY Pairs DEF Positive
<1>2. ASSUME NEW k \in 1..3
      PROVE  limit(k) \in Fraction
  <2>1. p.items[d.inputs[k].item] \in Int
    BY SectorNumbers DEF ProductTyped
  <2>2. d.inputs[k].amount # 0 => d.inputs[k].amount \in Positive
    BY DEF ProductTyped, Positive
  <2> QED
    BY <1>1, <2>1, <2>2, Pairs
<1>3. m = Less(Less(top, limit(1)), Less(limit(2), limit(3)))
  BY DEF MaterialLimit
<1>4. w \in Fraction
  <2>1. p.avail \in Int /\ p.effic \in Int /\ Resource(p, d) \in Int /\ d.bwork \in Int
    BY SectorNumbers, ResourceRange DEF ProductTyped
  <2>2. p.avail * p.effic \in Int
    BY <2>1, Product
  <2>3. p.avail * p.effic * Resource(p, d) \in Int
    BY <2>1, <2>2, Product
  <2>4. 10000 * Higher(d.bwork, 1) \in Positive
    <3>1. Higher(d.bwork, 1) \in Positive
      BY <2>1 DEF Higher, Positive
    <3> QED
      BY <3>1, Numerals, PositiveProduct
  <2> QED
    BY <2>3, <2>4, Pairs DEF WorkerLimit
<1>5. r \in Fraction
  BY ResourceTyped, SectorNumbers
<1>6. b = Less(Less(m, w), r)
  BY DEF Batch
<1>7. \A k \in 1..3 : d.inputs[k].amount # 0 =>
        limit(k) = <<p.items[d.inputs[k].item], d.inputs[k].amount>>
  OBVIOUS
<1> HIDE DEF limit, top, m, w, r, b
<1>8. /\ limit(1) \in Fraction /\ limit(2) \in Fraction /\ limit(3) \in Fraction
      /\ Less(top, limit(1)) \in Fraction /\ Less(limit(2), limit(3)) \in Fraction
  BY <1>1, <1>2, Fractions
<1>9. m \in Fraction /\ Less(m, w) \in Fraction
  BY <1>3, <1>4, <1>8, Fractions
<1>10. b \in Fraction
  BY <1>5, <1>6, <1>9, Fractions
<1>11. Under(b, r) /\ Under(b, Less(m, w)) /\ Under(Less(m, w), w) /\ Under(Less(m, w), m)
  BY <1>4, <1>5, <1>6, <1>9, LessUnder
<1>12. Under(b, w) /\ Under(b, m)
  BY <1>4, <1>9, <1>10, <1>11, UnderTransitive
<1>13. Under(m, Less(top, limit(1))) /\ Under(m, Less(limit(2), limit(3)))
  BY <1>3, <1>8, LessUnder
<1>14. /\ Under(Less(top, limit(1)), limit(1))
       /\ Under(Less(limit(2), limit(3)), limit(2)) /\ Under(Less(limit(2), limit(3)), limit(3))
  BY <1>1, <1>8, LessUnder
<1>15. Under(m, limit(1)) /\ Under(m, limit(2)) /\ Under(m, limit(3))
  BY <1>8, <1>9, <1>13, <1>14, UnderTransitive
<1>16. Under(b, limit(1)) /\ Under(b, limit(2)) /\ Under(b, limit(3))
  BY <1>8, <1>9, <1>10, <1>12, <1>15, UnderTransitive
<1>17. \A k \in 1..3 : Under(b, limit(k))
  BY <1>16
<1> QED
  BY <1>4, <1>5, <1>7, <1>10, <1>11, <1>12, <1>17 DEF w, r, b

\* What is used of a batch is no more than the batch, and what is made fits.
LEMMA UsedUnder ==
    ASSUME NEW p \in Sector, NEW d, ProductTyped(d), Batch(p, d)[1] > 0,
           NEW pe \in Fraction, pe[1] > 0
    PROVE  /\ Used(p, d, pe) \in Fraction /\ Used(p, d, pe)[1] >= 0
           /\ Under(Used(p, d, pe), Batch(p, d))
           /\ d.output # "level" =>
                /\ Made(p, d, pe)[1] \in Nat
                /\ Made(p, d, pe)[1] <= ItemMax - p.items[d.output]
<1> DEFINE b == Batch(p, d)
           u == Used(p, d, pe)
<1>1. p \in SectorRow /\ b \in Fraction /\ u \in Fraction
  BY SectorNumbers, BatchUnder, UsedTyped
<1>2. /\ b[1] \in Int /\ b[2] \in Int /\ pe[1] \in Int /\ pe[2] \in Int
      /\ b[2] \in Positive /\ pe[2] \in Positive
      /\ b[1] \in Nat /\ b[2] \in Nat /\ pe[1] \in Nat /\ pe[2] \in Nat
  <2>1. b[1] \in Int /\ b[2] \in Positive /\ pe[1] \in Int /\ pe[2] \in Positive
    BY <1>1, Pairs
  <2>2. b[1] > 0
    OBVIOUS
  <2> HIDE DEF b
  <2> QED
    BY <2>1, <2>2 DEF Positive
<1>3. CASE d.output = "level"
  <2>1. u = b
    BY <1>3 DEF Used
  <2> HIDE DEF u, b
  <2>2. Under(b, b)
    <3>1. b[1] * b[2] \in Int
      BY <1>2, Product
    <3> QED
      BY <3>1 DEF Under
  <2>3. b[1] >= 0
    BY <1>2
  <2> QED
    BY <1>1, <1>3, <2>1, <2>2, <2>3 DEF u, b
<1>4. CASE d.output # "level"
  <2> DEFINE q == Times(b, pe)
             room == Higher(ItemMax - p.items[d.output], 0)
             k == Lower(Whole(q), room)
  <2>1. Made(p, d, pe) = <<k, 1>> /\ u = <<Made(p, d, pe)[1] * pe[2], pe[1]>>
    BY <1>4 DEF Made, Used
  <2>2. room \in Nat /\ room = ItemMax - p.items[d.output]
    <3>1. d.output \in Items
      BY <1>4 DEF ProductTyped
    <3> QED
      BY <3>1, SectorNumbers, Limits DEF Higher
  <2>3. q \in Fraction /\ q[1] = b[1] * pe[1] /\ q[2] = b[2] * pe[2]
    <3> HIDE DEF b
    <3>1. q \in Fraction
      BY <1>1, Fractions
    <3> QED
      BY <3>1 DEF Times
  <2> HIDE DEF u, b, q, room
  <2>4. q[1] \in Nat /\ q[2] \in Nat
    BY <1>2, <2>3, NaturalProduct
  <2>5. Whole(q) \in Nat /\ Whole(q) * q[2] <= q[1]
    BY <2>3, <2>4, Rounding
  <2>6. k \in Nat /\ k <= room /\ k <= Whole(q)
    BY <2>2, <2>5 DEF Lower
  <2> HIDE DEF k
  <2>7. k * q[2] <= Whole(q) * q[2]
    BY <2>4, <2>5, <2>6, Scale
  <2>8. k * q[2] \in Int /\ Whole(q) * q[2] \in Int
    BY <2>4, <2>5, <2>6, NaturalProduct
  <2>9. k * q[2] <= q[1]
    BY <2>4, <2>5, <2>7, <2>8
  <2>10. k * (b[2] * pe[2]) = (k * pe[2]) * b[2]
    BY <1>2, <2>6
  <2>11. (k * pe[2]) * b[2] <= b[1] * pe[1]
    BY <2>3, <2>9, <2>10
  <2>12. u[1] = k * pe[2] /\ u[2] = pe[1]
    BY <2>1
  <2>13. Under(u, b)
    BY <2>11, <2>12 DEF Under
  <2>14. k * pe[2] \in Nat
    BY <1>2, <2>6, NaturalProduct
  <2>15. Made(p, d, pe)[1] = k
    BY <2>1
  <2> QED
    BY <1>1, <2>2, <2>6, <2>12, <2>13, <2>14, <2>15 DEF u, b
<1> QED
  BY <1>3, <1>4

\* What one input takes: no more than there is, and nothing if it is none.
LEMMA InputUse ==
    ASSUME NEW p \in Sector, NEW d, ProductTyped(d), Batch(p, d)[1] > 0,
           NEW pe \in Fraction, pe[1] > 0, NEW k \in 1..3
    PROVE  LET n == Rounded(Times(<<d.inputs[k].amount, 1>>, Used(p, d, pe)))
           IN /\ n \in Nat /\ n <= p.items[d.inputs[k].item]
              /\ d.inputs[k].amount = 0 => n = 0
<1> DEFINE a == d.inputs[k].amount
           have == p.items[d.inputs[k].item]
           u == Used(p, d, pe)
           b == Batch(p, d)
           q == Times(<<a, 1>>, u)
<1>1. a \in Nat /\ have \in Nat
  BY SectorNumbers DEF ProductTyped
<1>2. /\ u \in Fraction /\ u[1] >= 0 /\ Under(u, b) /\ b \in Fraction
      /\ a # 0 => Under(b, <<have, a>>)
  BY UsedUnder, BatchUnder
<1> HIDE DEF a, have, u, b
<1>3. u[1] \in Nat /\ u[2] \in Positive /\ u[2] \in Nat
  BY <1>2, Pairs DEF Positive
<1>4. <<a, 1>> \in Fraction
  BY <1>1, Pairs DEF Positive
<1>5. q \in Fraction /\ q[1] = a * u[1] /\ q[2] = 1 * u[2]
  BY <1>2, <1>4, Fractions DEF Times
<1> HIDE DEF q
<1>6. a * u[1] \in Nat /\ u[1] * a \in Nat /\ a * u[1] = u[1] * a /\ q[2] = u[2]
  BY <1>1, <1>3, <1>5, NaturalProduct, Commutes
<1>7. Rounded(q) \in Nat
  BY <1>5, <1>6, Rounding
<1>8. CASE a = 0
  <2>1. q[1] = 0 /\ 0 * q[2] = 0
    BY <1>3, <1>5, <1>6, <1>8
  <2>2. Rounded(q) <= 0
    BY <1>5, <2>1, Capped
  <2> QED
    BY <1>1, <1>7, <2>2 DEF a, have, u, q
<1>9. CASE a # 0
  <2>1. <<have, a>> \in Fraction
    BY <1>1, <1>9, Pairs DEF Positive
  <2>2. Under(u, <<have, a>>)
    BY <1>2, <1>9, <2>1, UnderTransitive
  <2>3. u[1] * a <= have * u[2]
    BY <2>2 DEF Under
  <2>4. q[1] <= have * q[2] /\ q[1] >= 0
    BY <1>5, <1>6, <2>3
  <2>5. Rounded(q) <= have
    BY <1>1, <1>5, <1>6, <2>4, Capped
  <2> QED
    BY <1>7, <1>9, <2>5 DEF a, have, u, q
<1> QED
  BY <1>8, <1>9

LEMMA ConsumedRange ==
    ASSUME NEW p \in Sector, NEW c \in Products, Batch(p, ProductChr[c])[1] > 0,
           NEW pe \in Fraction, pe[1] > 0, NEW i \in Items
    PROVE  /\ Consumed(p, ProductChr[c], pe, i) \in Nat
           /\ Consumed(p, ProductChr[c], pe, i) <= p.items[i]
           /\ i \in People => Consumed(p, ProductChr[c], pe, i) = 0
<1> DEFINE d == ProductChr[c]
           n(k) == Rounded(Times(<<d.inputs[k].amount, 1>>, Used(p, d, pe)))
           use(k) == IF d.inputs[k].item # i THEN 0 ELSE n(k)
<1>1. ProductTyped(d) /\ p.items[i] \in Nat
  BY ProductTable, SectorNumbers
<1>2. ASSUME NEW k \in 1..3
      PROVE  /\ use(k) \in Nat /\ use(k) <= p.items[i]
             /\ use(k) # 0 => d.inputs[k].amount > 0 /\ d.inputs[k].item = i
  <2>1. /\ n(k) \in Nat /\ n(k) <= p.items[d.inputs[k].item]
        /\ d.inputs[k].amount = 0 => n(k) = 0
    BY <1>1, InputUse
  <2>2. d.inputs[k].amount \in Nat
    BY <1>1 DEF ProductTyped
  <2> HIDE DEF n, d
  <2> QED
    BY <1>1, <2>1, <2>2
<1>3. \A j, k \in 1..3 : j # k => use(j) = 0 \/ use(k) = 0
  <2> SUFFICES ASSUME NEW j \in 1..3, NEW k \in 1..3, j # k, use(j) # 0, use(k) # 0
               PROVE  FALSE
    OBVIOUS
  <2>1. d.inputs[j].amount > 0 /\ d.inputs[k].amount > 0 /\ d.inputs[j].item = d.inputs[k].item
    BY <1>2
  <2> HIDE DEF use
  <2> QED
    BY <2>1, TablesAssumption
<1>4. i \in People => \A k \in 1..3 : use(k) = 0
  <2> SUFFICES ASSUME i \in People, NEW k \in 1..3, use(k) # 0
               PROVE  FALSE
    OBVIOUS
  <2>1. d.inputs[k].amount > 0 /\ d.inputs[k].item = i
    BY <1>2
  <2> HIDE DEF use
  <2> QED
    BY <2>1, TablesAssumption
<1>5. Consumed(p, d, pe, i) = use(1) + use(2) + use(3)
  BY DEF Consumed
<1> HIDE DEF use
<1>6. use(1) + use(2) + use(3) \in Nat /\ use(1) + use(2) + use(3) <= p.items[i]
  BY <1>1, <1>2, <1>3
<1> QED
  BY <1>4, <1>5, <1>6

LEMMA StoredRange ==
    ASSUME NEW p \in Sector, NEW c \in Products, Batch(p, ProductChr[c])[1] > 0,
           NEW pe \in Fraction, pe[1] > 0
    PROVE  LET q == Stored(p, ProductChr[c], pe)
           IN /\ q \in Sector /\ Alike(p, q)
              /\ \A i \in People : q.items[i] = p.items[i]
<1> DEFINE d == ProductChr[c]
           made == Made(p, d, pe)[1]
           f == [i \in Items |-> p.items[i] - Consumed(p, d, pe, i)
                                 + (IF i = d.output THEN made ELSE 0)]
           q == [p EXCEPT !.items = f]
<1>1. ProductTyped(d) /\ d.output \notin People /\ "level" \notin Items
  BY ProductTable, TablesAssumption
<1>2. ASSUME NEW i \in Items
      PROVE  f[i] \in 0..ItemMax /\ (i \in People => f[i] = p.items[i])
  <2>1. /\ Consumed(p, d, pe, i) \in Nat /\ Consumed(p, d, pe, i) <= p.items[i]
        /\ i \in People => Consumed(p, d, pe, i) = 0
    BY ConsumedRange
  <2>2. p.items[i] \in Nat /\ p.items[i] <= ItemMax /\ ItemMax \in Nat
    BY SectorNumbers, Limits
  <2>3. i = d.output => made \in Nat /\ made <= ItemMax - p.items[i]
    BY <1>1, UsedUnder
  <2>4. f[i] = p.items[i] - Consumed(p, d, pe, i) + (IF i = d.output THEN made ELSE 0)
    OBVIOUS
  <2>5. i \in People => i # d.output
    BY <1>1
  <2> HIDE DEF d, made, f
  <2> QED
    BY <2>1, <2>2, <2>3, <2>4, <2>5
<1>3. q = Stored(p, d, pe)
  BY DEF Stored
<1>4. f \in [Items -> 0..ItemMax]
  <2> DEFINE g(i) == p.items[i] - Consumed(p, d, pe, i) + (IF i = d.output THEN made ELSE 0)
  <2>1. \A i \in Items : g(i) \in 0..ItemMax
    BY <1>2
  <2>2. f = [i \in Items |-> g(i)]
    OBVIOUS
  <2> HIDE DEF g, f
  <2> QED
    BY <2>1, <2>2
<1> HIDE DEF f
<1>5. q \in Sector /\ Alike(p, q) /\ q.items = f
  BY <1>4 DEF Sector, Alike
<1> HIDE DEF q
<1> QED
  BY <1>2, <1>3, <1>5, Names DEF People

LEMMA DepletionRange ==
    ASSUME NEW p \in Sector, NEW d, ProductTyped(d), NEW q \in Fraction, q[1] >= 0,
           d.nrdep # 0 => Under(q, ResourceLimit(p, d))
    PROVE  \A k \in Depletion(d, q) : k \in Nat /\ k <= Resource(p, d)
<1> DEFINE r == Resource(p, d)
           n == d.nrdep
           t == Times(<<n, 100>>, q)
<1>1. r \in Nat /\ n \in Nat
  BY ResourceRange DEF ProductTyped
<1>2. CASE n = 0 \/ d.resource = "none"
  <2>1. Depletion(d, q) = {0}
    BY <1>2 DEF Depletion
  <2> QED
    BY <1>1, <2>1
<1>3. CASE ~(n = 0 \/ d.resource = "none")
  <2>1. Depletion(d, q) = RoundAvg(t)
    BY <1>3 DEF Depletion
  <2>2. q[1] * n <= (100 * r) * q[2]
    BY <1>3 DEF Under, ResourceLimit
  <2> HIDE DEF r, n
  <2>3. q[1] \in Nat /\ q[2] \in Positive /\ q[2] \in Nat
    BY Pairs DEF Positive
  <2>4. <<n, 100>> \in Fraction
    BY <1>1, Numerals, Pairs
  <2>5. t \in Fraction /\ t[1] = n * q[1] /\ t[2] = 100 * q[2]
    BY <2>4, Fractions DEF Times
  <2> HIDE DEF t
  <2>6. n * q[1] \in Nat /\ n * q[1] = q[1] * n
    BY <1>1, <2>3, NaturalProduct
  <2>7. (100 * r) * q[2] = r * (100 * q[2])
    BY <1>1, <2>3
  <2>8. t[1] <= r * t[2] /\ t[1] >= 0
    BY <2>2, <2>5, <2>6, <2>7
  <2> QED
    BY <1>1, <2>1, <2>5, <2>8, Capped, Rounding DEF r
<1> QED
  BY <1>2, <1>3

LEMMA LabourRange ==
    ASSUME NEW p \in Sector, NEW d, ProductTyped(d), p.effic >= 60, Batch(p, d)[1] > 0
    PROVE  \A w \in Labour(p, d) : w \in Nat /\ w <= p.avail
<1> DEFINE b == Batch(p, d)
           r == Resource(p, d)
           work == Higher(d.bwork, 1)
           n == work * b[1] * 10000
           m == b[2] * p.effic * r
           ae == p.avail * p.effic
<1>1. /\ p.effic \in Positive /\ p.effic \in Nat /\ p.avail \in Nat /\ r \in Nat
      /\ work \in Positive /\ work \in Nat /\ p \in SectorRow
  <2>1. d.bwork \in Int /\ r \in Nat
    BY ResourceRange DEF ProductTyped
  <2>2. work \in Positive
    BY <2>1 DEF Higher, Positive
  <2> HIDE DEF work, r
  <2> QED
    BY <2>1, <2>2, SectorNumbers DEF Positive
<1>2. b \in Fraction /\ Under(b, WorkerLimit(p, d)) /\ ae * r > 0
  BY <1>1, BatchUnder, BatchTyped
<1>3. b[1] * (10000 * work) <= (ae * r) * b[2]
  BY <1>2 DEF Under, WorkerLimit
<1>4. b[1] \in Nat /\ b[2] \in Positive /\ b[2] \in Nat
  <2>1. b[1] > 0
    OBVIOUS
  <2> HIDE DEF b
  <2> QED
    BY <1>2, <2>1, Pairs DEF Positive
<1>5. Labour(p, d) = RoundAvg(<<n, m>>)
  BY DEF Labour
<1> HIDE DEF b, r, work
<1>6. ae \in Nat
  BY <1>1, NaturalProduct
<1>7. r # 0
  <2> HIDE DEF ae
  <2>1. r = 0 => ae * r = 0
    BY <1>6
  <2> QED
    BY <1>2, <2>1
<1>8. m \in Positive
  <2>1. b[2] * p.effic \in Positive /\ r \in Positive
    BY <1>1, <1>4, <1>7, PositiveProduct DEF Positive
  <2> QED
    BY <2>1, PositiveProduct
<1>9. n \in Nat /\ n = b[1] * (10000 * work)
  <2>1. work * b[1] \in Nat
    BY <1>1, <1>4, NaturalProduct
  <2>2. n \in Nat
    <3> DEFINE x == work * b[1]
    <3> HIDE DEF x
    <3>1. x * 10000 \in Nat
      BY <2>1 DEF x
    <3> QED
      BY <3>1 DEF x
  <2>3. n = b[1] * (10000 * work)
    BY <1>1, <1>4
  <2> QED
    BY <2>2, <2>3
<1>10. (ae * r) * b[2] = p.avail * m
  <2>1. \A v, x, y, z \in Nat : ((v * x) * y) * z = v * ((z * x) * y)
    OBVIOUS
  <2> QED
    BY <1>1, <1>4, <2>1
<1> DEFINE q == <<n, m>>
<1> HIDE DEF n, m
<1>11. q \in Fraction /\ q[1] = n /\ q[2] = m
  BY <1>8, <1>9, Pairs
<1>12. q[1] <= p.avail * q[2] /\ q[1] >= 0
  BY <1>3, <1>9, <1>10, <1>11
<1> QED
  BY <1>1, <1>5, <1>11, <1>12, Capped, Rounding

LEMMA DepletedRange ==
    ASSUME NEW p \in Sector, NEW d, ProductTyped(d), NEW k \in Nat
    PROVE  LET q == Depleted(p, d, k)
           IN /\ q \in Sector /\ q.items = p.items
              /\ q.own = p.own /\ q.oldOwn = p.oldOwn /\ q.avail = p.avail
<1>1. CASE d.resource = "none"
  BY <1>1 DEF Depleted
<1>2. CASE d.resource # "none"
  <2>1. d.resource \in Deposits
    BY <1>2 DEF ProductTyped
  <2> DEFINE x == Higher(p.deposit[d.resource] - k, 0)
  <2>2. x \in 0..100
    <3> DEFINE a == p.deposit[d.resource]
    <3>1. a \in 0..100
      BY <2>1, SectorNumbers
    <3> HIDE DEF a
    <3>2. Higher(a - k, 0) \in 0..100
      BY <3>1 DEF Higher
    <3> QED
      BY <3>2 DEF a
  <2>3. Depleted(p, d, k) = [p EXCEPT !.deposit[d.resource] = x]
    BY <1>2 DEF Depleted
  <2> HIDE DEF x
  <2> QED
    BY <2>1, <2>2, <2>3 DEF Sector
<1> QED
  BY <1>1, <1>2

LEMMA TiredRange ==
    ASSUME NEW p \in Sector, NEW w \in Nat
    PROVE  LET q == Tired(p, w)
           IN q \in Sector /\ q.items = p.items /\ q.own = p.own /\ q.oldOwn = p.oldOwn
<1> DEFINE x == Higher(p.avail - w, 0)
<1>1. x \in Nat
  <2>1. p.avail \in Nat
    BY SectorNumbers
  <2> QED
    BY <2>1 DEF Higher
<1>2. Tired(p, w) = [p EXCEPT !.avail = x]
  BY DEF Tired
<1> HIDE DEF x
<1> QED
  BY <1>1, <1>2 DEF Sector

LEMMA ProducedRange ==
    ASSUME NEW p \in Sector, NEW t \in Types, NEW level \in [Levels -> Int],
           NEW o \in Produced(p, TypeChr[t], level)
    PROVE  o.sect \in Sector /\ o.hid = FALSE /\ (Peopled(p) => Peopled(o.sect))
<1> DEFINE chr == TypeChr[t]
           d == ProductChr[chr.product]
           pe == ProdEff(d, level, chr.peff)
           nothing == [sect |-> p, cost |-> 0, hid |-> FALSE]
<1>1. CASE o = nothing
  BY <1>1
<1>2. CASE o # nothing
  <2>1. chr.product # "none" /\ ~(p.effic < 60)
        /\ ~(pe[1] <= 0 \/ p.avail <= 0 \/ Batch(p, d)[1] <= 0)
    BY <1>2 DEF Produced
  <2>2. chr.product \in Products /\ ProductTyped(d) /\ chr.peff \in Int /\ p \in SectorRow
    BY <2>1, ProductTable, Tables, SectorNumbers
  <2>3. pe \in Fraction /\ pe[1] \in Int /\ p.effic \in Int /\ p.avail \in Nat
    BY <2>2, EfficiencyTyped, SectorNumbers, Pairs
  <2>4. Batch(p, d) \in Fraction /\ Batch(p, d)[1] \in Int
    BY <2>2, BatchTyped, Pairs
  <2>5. p.effic >= 60 /\ pe[1] > 0 /\ Batch(p, d)[1] > 0 /\ Batch(p, d)[1] >= 0
    BY <2>1, <2>3, <2>4
  <2>6. PICK k \in Depletion(d, Batch(p, d)), w \in Labour(p, d) :
            /\ o.sect = Tired(Depleted(Stored(p, d, pe), d, k), w)
            /\ o.hid = (w > p.avail \/ k > Resource(p, d))
    BY <2>1, <1>2 DEF Produced
  <2> DEFINE s == Stored(p, d, pe)
  <2>7. s \in Sector /\ Alike(p, s) /\ \A i \in People : s.items[i] = p.items[i]
    BY <2>2, <2>3, <2>5, StoredRange
  <2> HIDE DEF d, pe, s
  <2>8. d.nrdep # 0 => Under(Batch(p, d), ResourceLimit(p, d))
    BY <2>2, BatchUnder
  <2>9. k \in Nat /\ k <= Resource(p, d)
    BY <2>2, <2>4, <2>5, <2>8, DepletionRange
  <2>10. w \in Nat /\ w <= p.avail
    BY <2>2, <2>5, LabourRange
  <2>11. Resource(p, d) \in Nat
    BY <2>2, ResourceRange
  <2>12. ~(w > p.avail) /\ ~(k > Resource(p, d))
    BY <2>3, <2>9, <2>10, <2>11
  <2>13. o.hid = FALSE
    BY <2>6, <2>12, Zenon
  <2> DEFINE q == Depleted(s, d, k)
  <2>14. q \in Sector /\ q.items = s.items /\ q.own = s.own /\ q.oldOwn = s.oldOwn
    BY <2>2, <2>7, <2>9, DepletedRange
  <2> HIDE DEF q
  <2> DEFINE r == Tired(q, w)
  <2>15. r \in Sector /\ r.items = q.items /\ r.own = q.own /\ r.oldOwn = q.oldOwn
    BY <2>10, <2>14, TiredRange
  <2> HIDE DEF r
  <2>16. o.sect = r
    BY <2>6 DEF r, q, s
  <2>17. r.own = p.own /\ r.oldOwn = p.oldOwn /\ \A i \in People : r.items[i] = p.items[i]
    BY <2>7, <2>14, <2>15 DEF Alike
  <2>18. Peopled(p) => Peopled(r)
    BY <2>17 DEF Peopled, People
  <2> QED
    BY <2>13, <2>15, <2>16, <2>18
<1> QED
  BY <1>1, <1>2

-----------------------------------------------------------------------------
(* Units take no more than there is *)

LEMMA UnitRange == \A u \in Unit : /\ u.effic \in 0..100 /\ u.at \in Sectors
                                  /\ \A i \in Items : u.items[i] \in 0..ItemMax
BY DEF Unit

\* What a unit grows by, and what that takes of the sector it is in.
LEMMA GrowthRange ==
    ASSUME Typed, sect \in [Sectors -> Sector], unit \in [Units -> Unit],
           NEW u \in Units, Growth(u) > 0
    PROVE  /\ unit[u].effic + Growth(u) \in 0..100
           /\ \A k \in Needed(u, UnitChr[u].lcm) :
                k \in Nat /\ k <= sect[unit[u].at].items["lcm"]
           /\ \A k \in Needed(u, UnitChr[u].hcm) :
                k \in Nat /\ k <= sect[unit[u].at].items["hcm"]
           /\ \A w \in Wages(u) : w \in Nat /\ w <= sect[unit[u].at].avail
<1> DEFINE p == sect[unit[u].at]
           g == Growth(u)
           e == Delta(u)
           pool == Pool(u)
           crew == Crew(u)
           work == UnitWork(u)
           pace == Pace(u)
           cap == GrowCap[Kind[u]]
           lcm == UnitChr[u].lcm
           hcm == UnitChr[u].hcm
           sl == Supply(u, "lcm", lcm)
           sh == Supply(u, "hcm", hcm)
<1>1. /\ p \in Sector /\ unit[u].effic \in 0..100
      /\ p.avail \in Nat /\ p.items["lcm"] \in Nat /\ p.items["hcm"] \in Nat
      /\ unit[u].items["civil"] \in Nat /\ unit[u].items["milit"] \in Nat
  <2>1. unit[u] \in Unit
    OBVIOUS
  <2>2. unit[u].effic \in 0..100 /\ unit[u].at \in Sectors
        /\ \A i \in Items : unit[u].items[i] \in 0..ItemMax
    BY <2>1, UnitRange
  <2>3. p \in Sector
    BY <2>2
  <2> HIDE DEF p
  <2> QED
    BY <2>2, <2>3, SectorNumbers, Names, Limits
<1>2. g \in Int
  BY GrowthTyped
<1>3. crew \in Nat
  <2>1. unit[u].items["civil"] \div 2 + unit[u].items["milit"] \div 5 \in Nat /\ Etu \in Nat
    BY <1>1, Limits DEF Positive
  <2>2. Etu * (unit[u].items["civil"] \div 2 + unit[u].items["milit"] \div 5) \in Nat
    BY <2>1, NaturalProduct
  <2> QED
    BY <2>2 DEF Crew
<1>4. pool = crew + 100 * p.avail
  BY DEF Pool
<1>5. work \in Positive /\ work \in Nat
  <2>1. UnitChr[u].bwork \in Int
    BY Tables
  <2> QED
    BY <2>1 DEF UnitWork, Higher, Positive
<1>6. lcm \in Nat /\ hcm \in Nat /\ cap \in Nat
  BY Limits, Tables
<1>7. pace = Lower(pool \div work, Lower(cap, 100 - unit[u].effic))
  BY DEF Pace
<1>8. e = Lower(pace, Lower(sl, sh))
  BY DEF Delta
<1>9. g = e \/ g = e \div 3
  BY DEF Growth
<1>10. ASSUME NEW i \in Items, NEW need \in Nat, p.items[i] \in Nat
       PROVE  /\ Supply(u, i, need) \in Nat
              /\ need > 0 => Supply(u, i, need) * need <= 100 * p.items[i]
  <2> DEFINE have == 100 * p.items[i]
  <2>1. have \in Nat
    BY <1>10
  <2>2. Supply(u, i, need) = IF need > 0 THEN have \div need ELSE 100
    BY DEF Supply
  <2> HIDE DEF have
  <2>3. need > 0 => have \div need \in Nat /\ (have \div need) * need <= have
    BY <2>1, Quotients DEF Positive
  <2> QED
    BY <2>2, <2>3 DEF have
<1>11. /\ sl \in Nat /\ sh \in Nat
       /\ lcm > 0 => sl * lcm <= 100 * p.items["lcm"]
       /\ hcm > 0 => sh * hcm <= 100 * p.items["hcm"]
  <2> HIDE DEF p, lcm, hcm
  <2> QED
    BY <1>1, <1>6, <1>10, Names
<1> HIDE DEF p, g, e, pool, crew, work, pace, cap, lcm, hcm, sl, sh
<1>12. pool \in Nat /\ pool \div work \in Nat /\ (pool \div work) * work <= pool
  <2>1. pool \in Nat /\ pool \in Int /\ pool >= 0
    BY <1>1, <1>3, <1>4
  <2> QED
    BY <1>5, <2>1, Quotients
<1>13. /\ pace \in Nat /\ pace <= pool \div work /\ pace <= 100 - unit[u].effic
  BY <1>1, <1>6, <1>7, <1>12 DEF Lower
<1>14. e \in Nat /\ e <= pace /\ e <= sl /\ e <= sh
  BY <1>8, <1>11, <1>13 DEF Lower
<1>15. g \in Nat /\ g <= e
  BY <1>2, <1>9, <1>14
<1>16. unit[u].effic + g \in 0..100
  BY <1>1, <1>13, <1>14, <1>15
<1>17. ASSUME NEW need \in Nat, NEW s \in Nat, NEW have \in Nat, g <= s,
              need > 0 => s * need <= 100 * have,
              NEW k \in RoundAvg(<<need * g, 100>>)
       PROVE  k \in Nat /\ k <= have
  <2> DEFINE q == <<need * g, 100>>
  <2>1. need * g \in Nat /\ need * g = g * need
    BY <1>15, NaturalProduct
  <2>2. q \in Fraction /\ q[1] = need * g /\ q[2] = 100
    BY <2>1, Numerals, Pairs
  <2>3. need * g <= have * 100
    <3>1. CASE need = 0
      BY <1>15, <3>1
    <3>2. CASE need > 0
      <4>1. g * need <= s * need
        BY <1>15, <1>17, Scale
      <4>2. s * need \in Nat
        BY NaturalProduct
      <4> QED
        BY <1>17, <2>1, <3>2, <4>1, <4>2
    <3> QED
      BY <3>1, <3>2
  <2> HIDE DEF q
  <2>4. \A j \in RoundAvg(q) : j \in Nat /\ j <= have
    BY <2>1, <2>2, <2>3, Capped, Rounding
  <2> QED
    BY <2>4 DEF q
<1>18. /\ \A k \in Needed(u, lcm) : k \in Nat /\ k <= p.items["lcm"]
       /\ \A k \in Needed(u, hcm) : k \in Nat /\ k <= p.items["hcm"]
  <2>1. g <= sl /\ g <= sh
    BY <1>11, <1>14, <1>15
  <2>2. Needed(u, lcm) = RoundAvg(<<lcm * g, 100>>) /\ Needed(u, hcm) = RoundAvg(<<hcm * g, 100>>)
    BY DEF Needed, g
  <2>3. \A k \in RoundAvg(<<lcm * g, 100>>) : k \in Nat /\ k <= p.items["lcm"]
    BY <1>1, <1>6, <1>11, <1>17, <2>1
  <2>4. \A k \in RoundAvg(<<hcm * g, 100>>) : k \in Nat /\ k <= p.items["hcm"]
    BY <1>1, <1>6, <1>11, <1>17, <2>1
  <2> QED
    BY <2>2, <2>3, <2>4
<1>19. \A w \in Wages(u) : w \in Nat /\ w <= p.avail
  <2> DEFINE x == e * work
             y == Higher(x - crew, 0)
             q == <<y, 100>>
  <2>1. Wages(u) = RoundAvg(q)
    BY DEF Wages, e, work, crew
  <2>2. x \in Nat /\ x <= pool
    <3>1. e * work <= (pool \div work) * work
      BY <1>5, <1>12, <1>13, <1>14, Scale
    <3>2. e * work \in Nat /\ (pool \div work) * work \in Nat
      BY <1>5, <1>12, <1>14, NaturalProduct
    <3> QED
      BY <1>12, <3>1, <3>2
  <2> HIDE DEF x
  <2>3. y \in Nat /\ y <= p.avail * 100
    BY <1>1, <1>3, <1>4, <2>2 DEF Higher
  <2> HIDE DEF y
  <2>4. q \in Fraction /\ q[1] = y /\ q[2] = 100
    BY <2>3, Numerals, Pairs
  <2> HIDE DEF q
  <2>5. \A j \in RoundAvg(q) : j \in Nat /\ j <= p.avail
    BY <1>1, <2>3, <2>4, Capped, Rounding
  <2> QED
    BY <2>1, <2>5
<1> QED
  BY <1>16, <1>18, <1>19 DEF p, g, lcm, hcm

LEMMA EfficiencyNatural ==
    ASSUME NEW d, ProductTyped(d), NEW level \in [Levels -> Int], NEW peff \in Nat
    PROVE  ProdEff(d, level, peff) \in Fraction /\ ProdEff(d, level, peff)[1] >= 0
<1>1. ProdEff(d, level, peff) \in Fraction
  BY EfficiencyTyped
<1>2. CASE d.needs = "none"
  BY <1>1, <1>2 DEF ProdEff, Percent
<1>3. CASE d.needs # "none"
  <2> DEFINE delta == level[d.needs] - d.min
             m == 100 * Higher(d.lag + delta, 1)
  <2>1. delta \in Int
    BY <1>3 DEF ProductTyped
  <2>2. ProdEff(d, level, peff) = IF delta < 0 THEN <<0, 1>> ELSE <<delta * peff, m>>
    BY <1>3 DEF ProdEff
  <2> HIDE DEF delta, m
  <2>3. ~(delta < 0) => delta * peff \in Nat
    BY <2>1, NaturalProduct
  <2>4. ProdEff(d, level, peff)[1] = IF delta < 0 THEN 0 ELSE delta * peff
    BY <2>2
  <2> QED
    BY <1>1, <2>3, <2>4
<1> QED
  BY <1>2, <1>3

\* What a ship drills and fishes for: it fits the hold, and the oil is there.
LEMMA CatchRange ==
    ASSUME Typed, sect \in [Sectors -> Sector], unit \in [Units -> Unit],
           NEW u \in Units, unit[u].own \in Nations, NEW work \in Nat
    PROVE  LET d == ProductChr[TypeChr[OilField].product]
               p == sect[unit[u].at]
           IN /\ ProductTyped(d) /\ p \in Sector
              /\ \A oil \in Drilled(u, work) :
                   /\ oil \in Nat /\ unit[u].items["oil"] + oil <= ItemMax
                   /\ d.nrdep # 0 => Under(<<oil, 1>>, ResourceLimit(p, d))
              /\ \A fish \in Fished(u, work) :
                   fish \in Nat /\ unit[u].items["food"] + fish <= ItemMax
<1> DEFINE d == ProductChr[TypeChr[OilField].product]
           p == sect[unit[u].at]
<1>1. /\ unit[u].effic \in 0..100 /\ unit[u].at \in Sectors
      /\ \A i \in Items : unit[u].items[i] \in Nat /\ unit[u].items[i] <= ItemMax
  <2>1. unit[u] \in Unit
    OBVIOUS
  <2> QED
    BY <2>1, UnitRange, Limits
<1>2. p \in Sector /\ ProductTyped(d) /\ {OilField, Agri} \subseteq Types
      /\ {TypeChr[OilField].product, TypeChr[Agri].product} \subseteq Products
      /\ {"fertil", "oil"} \subseteq Deposits /\ {"oil", "food"} \subseteq Items
  BY <1>1, Constants, ProductTable
<1>3. ASSUME NEW t \in {OilField, Agri}, NEW dep \in Deposits
      PROVE  Afloat(u, t, work, dep) \in Fraction /\ Afloat(u, t, work, dep)[1] >= 0
  <2> DEFINE pe == ProdEff(ProductChr[TypeChr[t].product], nat[unit[u].own].level, TypeChr[t].peff)
             x == work * unit[u].effic * p.deposit[dep]
  <2>1. pe \in Fraction /\ pe[1] >= 0
    <3>1. ProductTyped(ProductChr[TypeChr[t].product]) /\ TypeChr[t].peff \in Nat
      BY <1>2, ProductTable, Limits
    <3>2. nat[unit[u].own].level \in [Levels -> Int]
      BY DEF Typed, NationRow
    <3> QED
      BY <3>1, <3>2, EfficiencyNatural
  <2>2. x \in Nat
    <3>1. unit[u].effic \in Nat /\ p.deposit[dep] \in Nat
      <4>1. p.deposit[dep] \in 0..100
        BY <1>2, SectorNumbers
      <4> HIDE DEF p
      <4> QED
        BY <1>1, <4>1
    <3>2. work * unit[u].effic \in Nat
      BY <3>1, NaturalProduct
    <3> HIDE DEF p
    <3> QED
      BY <3>1, <3>2, NaturalProduct
  <2>3. Afloat(u, t, work, dep) = Times(<<x, 10000>>, pe)
    BY DEF Afloat
  <2> HIDE DEF pe, x
  <2>4. <<x, 10000>> \in Fraction
    BY <2>2, Numerals, Pairs
  <2>5. Times(<<x, 10000>>, pe) \in Fraction /\ Times(<<x, 10000>>, pe)[1] = x * pe[1]
    BY <2>1, <2>4, Fractions DEF Times
  <2>6. x * pe[1] \in Nat
    <3>1. pe[1] \in Nat
      BY <2>1, Pairs
    <3> QED
      BY <2>2, <3>1, NaturalProduct
  <2> QED
    BY <2>3, <2>5, <2>6
<1>4. ASSUME NEW i \in Items, NEW k \in Nat
      PROVE  /\ Hold(u, i, k) \in Nat /\ Hold(u, i, k) <= k
             /\ unit[u].items[i] + Hold(u, i, k) <= ItemMax
  <2> DEFINE room == UnitChr[u].room[i]
             have == unit[u].items[i]
  <2>1. room \in 0..ItemMax /\ have \in Nat /\ have <= ItemMax /\ ItemMax \in Nat
    BY <1>1, Limits
  <2>2. Hold(u, i, k) = Lower(k, Higher(room - have, 0))
    BY DEF Hold
  <2> HIDE DEF room, have
  <2>3. /\ Hold(u, i, k) \in Nat /\ Hold(u, i, k) <= k /\ have + Hold(u, i, k) <= ItemMax
    BY <2>1, <2>2 DEF Lower, Higher
  <2> QED
    BY <2>3 DEF have
<1>5. ASSUME NEW fish \in Fished(u, work)
      PROVE  fish \in Nat /\ unit[u].items["food"] + fish <= ItemMax
  <2>1. RoundAvg(Afloat(u, Agri, work, "fertil")) \subseteq Nat
    BY <1>2, <1>3, Rounding
  <2>2. fish = 0 \/ \E k \in RoundAvg(Afloat(u, Agri, work, "fertil")) : fish = Hold(u, "food", k)
    BY DEF Fished
  <2> QED
    BY <1>1, <1>2, <1>4, <2>1, <2>2
<1>6. ASSUME NEW oil \in Drilled(u, work)
      PROVE  /\ oil \in Nat /\ unit[u].items["oil"] + oil <= ItemMax
             /\ d.nrdep # 0 => Under(<<oil, 1>>, ResourceLimit(p, d))
  <2> DEFINE a == Afloat(u, OilField, work, "oil")
             l == ResourceLimit(p, d)
             q == Less(a, l)
             r == Resource(p, d)
             n == d.nrdep
  <2>1. a \in Fraction /\ a[1] >= 0
    BY <1>2, <1>3
  <2>2. r \in Nat /\ n \in Nat
    BY <1>2, ResourceRange DEF ProductTyped
  <2>3. l = IF n = 0 THEN <<9999, 1>> ELSE <<100 * r, n>>
    BY DEF ResourceLimit
  <2>4. n # 0 => 100 % n = 0
    BY TablesAssumption
  <2>5. oil = 0 \/ \E k \in RoundAvg(q) : oil = Hold(u, "oil", k)
    BY DEF Drilled
  <2> HIDE DEF a, l, r, n
  <2>6. l \in Fraction /\ l[1] \in Nat /\ l[1] >= 0
    BY <2>2, <2>3, Pairs DEF Positive
  <2>7. q \in Fraction /\ q[1] >= 0 /\ Under(q, l)
    BY <2>1, <2>6, Fractions, LessUnder DEF Less
  <2> HIDE DEF q
  <2>8. RoundAvg(q) \subseteq Nat
    BY <2>7, Rounding
  <2>9. oil \in Nat /\ unit[u].items["oil"] + oil <= ItemMax
    BY <1>1, <1>2, <1>4, <2>5, <2>8
  <2>10. n # 0 => oil * n <= (100 * r) * 1
    <3> SUFFICES ASSUME n # 0
                 PROVE  oil * n <= (100 * r) * 1
      OBVIOUS
    <3> DEFINE m == (100 \div n) * r
    <3>1. n \in Positive /\ 100 \div n \in Nat /\ 100 = n * (100 \div n)
      <4>1. n \in Positive
        BY <2>2 DEF Positive
      <4>2. 100 \in Int /\ 100 >= 0
        OBVIOUS
      <4>3. 100 = n * (100 \div n) + (100 % n) /\ 100 \div n \in Nat
        BY <4>1, <4>2, WholeDivision, Quotients
      <4>4. n * (100 \div n) \in Nat
        BY <2>2, <4>3, NaturalProduct
      <4> QED
        BY <2>4, <4>1, <4>3, <4>4
    <3> DEFINE c == 100 \div n
    <3> HIDE DEF c
    <3>2. c \in Nat /\ n * c = 100
      BY <3>1 DEF c
    <3>3. m = c * r
      BY DEF c
    <3> HIDE DEF m
    <3>4. m \in Nat /\ m * n = 100 * r
      <4>1. c * r \in Nat
        BY <2>2, <3>2, NaturalProduct
      <4>2. (c * r) * n = (n * c) * r
        BY <2>2, <3>2
      <4> QED
        BY <3>2, <3>3, <4>1, <4>2
    <3>5. l = <<100 * r, n>>
      BY <2>3
    <3>6. q[1] * n <= (100 * r) * q[2]
      BY <2>7, <3>5 DEF Under
    <3>7. q[1] \in Int /\ q[2] \in Nat
      BY <2>7, Pairs DEF Positive
    <3>8. (100 * r) * q[2] = (m * q[2]) * n
      <4>1. (m * n) * q[2] = (m * q[2]) * n
        BY <2>2, <3>4, <3>7
      <4> QED
        BY <3>4, <4>1
    <3>9. m * q[2] \in Int
      BY <3>4, <3>7, Product
    <3>10. q[1] <= m * q[2]
      BY <3>1, <3>6, <3>7, <3>8, <3>9, Cancel
    <3>11. \A k \in RoundAvg(q) : k <= m
      BY <2>7, <3>4, <3>10, Capped
    <3>12. oil <= m
      <4>1. CASE oil = 0
        BY <3>4, <4>1
      <4>2. CASE oil # 0
        <5>1. PICK k \in RoundAvg(q) : oil = Hold(u, "oil", k)
          BY <2>5, <4>2
        <5>2. k \in Nat /\ k <= m /\ Hold(u, "oil", k) <= k
          BY <1>2, <1>4, <2>8, <3>11
        <5> QED
          BY <2>9, <3>4, <5>1, <5>2
      <4> QED
        BY <4>1, <4>2
    <3>13. oil * n <= m * n
      BY <2>2, <2>9, <3>4, <3>12, Scale
    <3>14. (100 * r) * 1 = 100 * r
      BY <2>2
    <3> QED
      BY <3>4, <3>13, <3>14
  <2>11. n # 0 => Under(<<oil, 1>>, l)
    BY <2>3, <2>10 DEF Under
  <2> QED
    BY <2>9, <2>11 DEF n, l
<1> QED
  BY <1>2, <1>5, <1>6

-----------------------------------------------------------------------------
(* The invariant of the ranges, and its steps *)

\* Rows stay within their columns and stores, and nothing has been hidden.
Ranged ==
    /\ sect \in [Sectors -> Sector] /\ unit \in [Units -> Unit]
    /\ orders \in 0..MaxOrders /\ updates \in 0..MaxUpdates
    /\ enlistPay \in [Nations -> Nat]
    /\ overdrawn = FALSE

RangeInv == Inv /\ Ranged /\ SettledSectors

\* What the first three loops come to.
LEMMA SectorLoops ==
    ASSUME Typed, Advance
    PROVE  /\ phase = "prepare" =>
                \/ phase' = "prepare" /\ row' = row + 1
                \/ phase' = "reserve" /\ row = NSectors
           /\ phase = "reserve" => phase' = "produce" /\ row' = 1
           /\ phase = "produce" =>
                \/ phase' = "produce" /\ row' = row + 1
                \/ phase' = "goods"
           /\ phase \in Phases \ {"idle", "prepare", "reserve", "produce"} =>
                phase' \notin {"prepare", "reserve", "produce"}
<1>1. phase \in Phases /\ row \in 1..Rows(phase) /\ NSectors \in Nat
  BY Constants DEF Typed, Positive
<1>2. CASE row < Rows(phase)
  <2>1. row' = row + 1 /\ phase' = phase
    BY <1>2 DEF Advance
  <2>2. phase # "reserve"
    BY <1>1, <1>2 DEF Rows
  <2> QED
    BY <2>1, <2>2
<1>3. CASE ~(row < Rows(phase))
  <2>1. row' = 1 /\ phase' = After(phase)
    BY <1>3 DEF Advance
  <2>2. phase = "prepare" => row = NSectors
    BY <1>1, <1>3 DEF Rows
  <2>3. /\ phase = "prepare" => phase' = "reserve"
        /\ phase = "reserve" => phase' = "produce"
        /\ phase = "produce" => phase' = "goods"
        /\ phase \in Phases \ {"idle", "prepare", "reserve", "produce"} =>
             phase' \notin {"prepare", "reserve", "produce"}
    BY <2>1, Order DEF Phases
  <2> QED
    BY <2>1, <2>2, <2>3
<1> QED
  BY <1>2, <1>3

\* Outside these loops nothing is said of the sectors.
LEMMA Unsettled ==
    ASSUME phase' \notin {"prepare", "reserve", "produce"}
    PROVE  SettledSectors'
BY DEF SettledSectors, Ready

LEMMA InitRange == Init => RangeInv
<1> SUFFICES ASSUME Init
             PROVE  RangeInv
  OBVIOUS
<1>1. PICK s \in Starts : sect = s.sect /\ unit = s.unit /\ nat = s.nat
  BY DEF Init
<1>2. sect \in [Sectors -> Sector] /\ unit \in [Units -> Unit]
  BY <1>1, EconomyAssumption
<1>3. 0 \in 0..MaxOrders /\ 0 \in 0..MaxUpdates
  BY EconomyAssumption
<1>4. Ranged
  BY <1>2, <1>3 DEF Init, Ranged
<1>5. SettledSectors
  BY DEF Init, SettledSectors, Ready
<1> QED
  BY <1>4, <1>5, InitInv DEF RangeInv

LEMMA BeginUpdateRange == RangeInv /\ BeginUpdate => (Ranged /\ SettledSectors)'
<1> SUFFICES ASSUME RangeInv, BeginUpdate
             PROVE  (Ranged /\ SettledSectors)'
  OBVIOUS
<1>1. updates' \in 0..MaxUpdates
  BY EconomyAssumption DEF BeginUpdate, RangeInv, Ranged
<1>2. Ranged'
  BY <1>1 DEF BeginUpdate, RangeInv, Ranged
<1>3. SettledSectors'
  <2>1. phase' = "prepare" /\ row' = 1
    BY DEF BeginUpdate
  <2>2. \A s \in Sectors : ~(s < 1)
    BY Constants DEF Sectors, Positive
  <2> QED
    BY <2>1, <2>2 DEF SettledSectors, Ready
<1> QED
  BY <1>2, <1>3

LEMMA PrepareRange == RangeInv /\ Prepare => (Ranged /\ SettledSectors)'
<1> SUFFICES ASSUME RangeInv, Prepare
             PROVE  (Ranged /\ SettledSectors)'
  OBVIOUS
<1>1. Typed /\ phase = "prepare" /\ Advance /\ row \in Sectors
      /\ UNCHANGED <<unit, orders, updates, enlistPay, overdrawn>>
  BY Visited DEF RangeInv, Inv, Prepare, history
<1>2. PICK q \in Prepared(sect[row]) : sect' = [sect EXCEPT ![row] = q]
  BY DEF Prepare
<1>3. sect \in [Sectors -> Sector] /\ sect[row] \in Sector
  BY <1>1 DEF RangeInv, Ranged
<1>4. q \in Sector /\ (~Wild(q) => Peopled(q) /\ Fits(q))
  BY <1>3, PreparedRange
<1>5. sect' \in [Sectors -> Sector] /\ sect'[row] = q
      /\ \A s \in Sectors \ {row} : sect'[s] = sect[s]
  BY <1>1, <1>2, <1>3, <1>4
<1>6. Ranged'
  BY <1>1, <1>5 DEF RangeInv, Ranged
<1>7. \/ phase' = "prepare" /\ row' = row + 1
      \/ phase' = "reserve" /\ row = NSectors
  BY <1>1, SectorLoops
<1>8. ASSUME NEW s \in Sectors, Ready(s)', s # row
      PROVE  Ready(s) /\ Unproduced(s) /\ sect'[s] = sect[s]
  <2>1. s \in 1..NSectors /\ row \in Int /\ NSectors \in Int
    BY <1>1, Constants DEF Sectors, Positive
  <2>2. s < row
    BY <1>7, <1>8, <2>1 DEF Ready
  <2> QED
    BY <1>1, <1>5, <1>8, <2>2 DEF Ready, Unproduced
<1>9. SettledSectors'
  <2> SUFFICES ASSUME NEW s \in Sectors, Ready(s)', sect'[s].own # 0, ~Wild(sect[s])'
               PROVE  /\ sect'[s].items["civil"] + sect'[s].items["milit"] > 0
                      /\ sect'[s].oldOwn # sect'[s].own => sect'[s].items["civil"] > 0
                      /\ sect'[s].items["civil"] <= Higher(TypeChr[sect'[s].type].maxpop, 1)
    BY DEF SettledSectors
  <2>1. CASE s = row
    BY <1>4, <1>5, <2>1 DEF Peopled, Fits, Wild
  <2>2. CASE s # row
    BY <1>8, <2>2 DEF RangeInv, SettledSectors, Wild
  <2> QED
    BY <2>1, <2>2
<1> QED
  BY <1>6, <1>9

LEMMA PayReserveRange == RangeInv /\ PayReserve => (Ranged /\ SettledSectors)'
<1> SUFFICES ASSUME RangeInv, PayReserve
             PROVE  (Ranged /\ SettledSectors)'
  OBVIOUS
<1>1. Typed /\ phase = "reserve" /\ Advance
      /\ UNCHANGED <<sect, unit, orders, updates, enlistPay, overdrawn>>
  BY DEF RangeInv, Inv, PayReserve, history
<1>2. Ranged'
  BY <1>1 DEF RangeInv, Ranged
<1>3. \A s \in Sectors : Ready(s) /\ Unproduced(s)
  BY <1>1 DEF Ready, Unproduced
<1>4. SettledSectors'
  BY <1>1, <1>3 DEF RangeInv, SettledSectors, Wild
<1> QED
  BY <1>2, <1>4

\* A sector that has been worked on keeps its people, and the rest are as they were.
LEMMA TurnSettled ==
    ASSUME RangeInv, phase = "produce", Advance, row \in Sectors,
           \A s \in Sectors \ {row} : sect'[s] = sect[s],
           sect'[row].own # 0 /\ ~Wild(sect'[row]) => Peopled(sect'[row])
    PROVE  SettledSectors'
<1>1. Typed
  BY DEF RangeInv, Inv
<1>2. phase' = "goods" \/ (phase' = "produce" /\ row' = row + 1)
  BY <1>1, SectorLoops
<1>3. CASE phase' = "goods"
  BY <1>3, Unsettled
<1>4. CASE phase' = "produce" /\ row' = row + 1
  <2> SUFFICES ASSUME NEW s \in Sectors, sect'[s].own # 0, ~Wild(sect[s])'
               PROVE  /\ sect'[s].items["civil"] + sect'[s].items["milit"] > 0
                      /\ sect'[s].oldOwn # sect'[s].own => sect'[s].items["civil"] > 0
                      /\ Unproduced(s)' =>
                           sect'[s].items["civil"] <= Higher(TypeChr[sect'[s].type].maxpop, 1)
    BY DEF SettledSectors
  <2>1. s \in Int /\ row \in Int
    BY Constants DEF Sectors, Positive
  <2>2. CASE s = row
    <3>1. ~(s >= row')
      BY <1>4, <2>1, <2>2
    <3>2. ~Unproduced(s)'
      BY <1>4, <3>1 DEF Unproduced
    <3> QED
      BY <2>2, <3>2 DEF Peopled, Wild
  <2>3. CASE s # row
    <3>1. Unproduced(s)' => Unproduced(s)
      <4>1. s >= row' => s >= row
        BY <1>4, <2>1
      <4> QED
        BY <1>4, <4>1 DEF Unproduced
    <3> QED
      BY <2>3, <3>1 DEF RangeInv, SettledSectors, Ready, Wild
  <2> QED
    BY <2>2, <2>3
<1> QED
  BY <1>2, <1>3, <1>4

LEMMA PassOverRange == RangeInv /\ PassOver => (Ranged /\ SettledSectors)'
<1> SUFFICES ASSUME RangeInv, PassOver
             PROVE  (Ranged /\ SettledSectors)'
  OBVIOUS
<1> DEFINE p == sect[row]
           q == [p EXCEPT !.avail = 0]
<1>1. Typed /\ phase = "produce" /\ Advance /\ row \in Sectors
      /\ UNCHANGED <<unit, orders, updates, enlistPay, overdrawn>>
  BY Visited DEF RangeInv, Inv, PassOver, history
<1>2. sect \in [Sectors -> Sector] /\ p \in Sector
  BY <1>1 DEF RangeInv, Ranged
<1>3. q \in Sector /\ q.own = p.own /\ q.oldOwn = p.oldOwn /\ q.items = p.items /\ q.type = p.type
  BY <1>2 DEF Sector
<1>4. sect' = sect \/ sect' = [sect EXCEPT ![row] = q]
  BY DEF PassOver
<1> HIDE DEF q
<1>5. /\ sect' \in [Sectors -> Sector]
      /\ sect'[row] = p \/ sect'[row] = q
      /\ \A s \in Sectors \ {row} : sect'[s] = sect[s]
  BY <1>1, <1>2, <1>3, <1>4
<1>6. Ranged'
  BY <1>1, <1>5 DEF RangeInv, Ranged
<1>7. p.own # 0 /\ ~Wild(p) => Peopled(p)
  BY <1>1 DEF RangeInv, SettledSectors, Ready, Peopled
<1>8. /\ sect'[row].own = p.own /\ sect'[row].oldOwn = p.oldOwn
      /\ sect'[row].items = p.items /\ sect'[row].type = p.type
  BY <1>3, <1>5
<1> HIDE DEF p
<1>9. sect'[row].own # 0 /\ ~Wild(sect'[row]) => Peopled(sect'[row])
  BY <1>7, <1>8 DEF Peopled, Wild
<1>10. SettledSectors'
  BY <1>1, <1>5, <1>9, TurnSettled
<1> QED
  BY <1>6, <1>10

LEMMA ProduceRange == RangeInv /\ Produce => (Ranged /\ SettledSectors)'
<1> SUFFICES ASSUME RangeInv, Produce
             PROVE  (Ranged /\ SettledSectors)'
  OBVIOUS
<1> DEFINE p == sect[row]
           chr == TypeChr[p.type]
           n == p.own
           built == BuildEff(p)
           recruits == Recruits(built, chr)
           pay == 3 * Dollar * recruits
           rest == Enlist(built, recruits)
<1>1. Typed /\ phase = "produce" /\ Advance /\ row \in Sectors /\ n # 0 /\ ~Wild(p)
      /\ UNCHANGED <<unit, orders, updates>>
  BY Visited DEF RangeInv, Inv, Produce
<1>2. sect \in [Sectors -> Sector] /\ p \in Sector
  BY <1>1 DEF RangeInv, Ranged
<1>3. PICK o \in Produced(rest, chr, nat[n].level) :
            sect' = [sect EXCEPT ![row] = o.sect] /\ overdrawn' = (overdrawn \/ o.hid)
  BY DEF Produce
<1>4. enlistPay' = [enlistPay EXCEPT ![n] = @ + pay]
  BY DEF Produce
<1>5. p.type \in Types /\ n \in Nations /\ nat[n].level \in [Levels -> Int]
  <2>1. p.type \in Types /\ n \in 0..NNations
    BY <1>2 DEF Sector
  <2>2. n \in Nations
    BY <1>1, <2>1, Constants DEF Nations
  <2> QED
    BY <1>1, <2>1, <2>2 DEF Typed, NationRow
<1>6. Peopled(p)
  BY <1>1 DEF RangeInv, SettledSectors, Ready, Peopled
<1>7. /\ built \in Sector /\ Peopled(built)
  <2>1. built \in Sector /\ built.items = p.items /\ built.own = p.own /\ built.oldOwn = p.oldOwn
    BY <1>2, BuildRange
  <2> HIDE DEF built, p
  <2> QED
    BY <1>6, <2>1 DEF Peopled
<1>8. rest \in Sector /\ Peopled(rest)
  <2> HIDE DEF built
  <2> QED
    BY <1>7, RecruitsRange
<1>9. pay \in Nat
  <2>1. recruits \in Nat
    <3> HIDE DEF built
    <3> QED
      BY <1>7, RecruitsNatural
  <2>2. 3 * Dollar \in Nat
    BY Constants DEF Positive
  <2> HIDE DEF recruits
  <2> QED
    BY <2>1, <2>2, NaturalProduct
<1> HIDE DEF n, pay, rest
<1>10. o.sect \in Sector /\ o.hid = FALSE /\ Peopled(o.sect)
  BY <1>3, <1>5, <1>8, ProducedRange
<1>11. /\ sect' \in [Sectors -> Sector] /\ sect'[row] = o.sect
       /\ \A s \in Sectors \ {row} : sect'[s] = sect[s]
  BY <1>1, <1>2, <1>3, <1>10
<1>12. Ranged'
  <2>1. enlistPay' \in [Nations -> Nat]
    <3>1. enlistPay \in [Nations -> Nat]
      BY DEF RangeInv, Ranged
    <3>2. enlistPay[n] + pay \in Nat
      BY <1>5, <1>9, <3>1
    <3> QED
      BY <1>4, <3>1, <3>2
  <2>2. overdrawn' = FALSE
    BY <1>3, <1>10 DEF RangeInv, Ranged
  <2> QED
    BY <1>1, <1>11, <2>1, <2>2 DEF RangeInv, Ranged
<1>13. SettledSectors'
  BY <1>1, <1>10, <1>11, TurnSettled
<1> QED
  BY <1>12, <1>13

\* After these loops nothing is said of the sectors any more.
LEMMA LaterSettled ==
    ASSUME Typed, Advance, phase \notin {"idle", "prepare", "reserve", "produce"}
    PROVE  SettledSectors'
<1>1. phase' \notin {"prepare", "reserve", "produce"}
  BY SectorLoops DEF Typed
<1> QED
  BY <1>1, Unsettled

LEMMA GoodsRange == RangeInv /\ (Carry \/ Finish) => (Ranged /\ SettledSectors)'
<1> SUFFICES ASSUME RangeInv, Carry \/ Finish
             PROVE  (Ranged /\ SettledSectors)'
  OBVIOUS
<1>1. Typed /\ phase \in {"goods", "finish"} /\ Advance
      /\ UNCHANGED <<unit, orders, updates, enlistPay, overdrawn>>
  BY DEF RangeInv, Inv, Carry, Finish, history
<1>2. sect \in [Sectors -> Sector]
  BY DEF RangeInv, Ranged
<1>3. sect' \in [Sectors -> Sector]
  <2>1. CASE Carry
    <3>1. PICK s \in Sectors, t \in Sectors, i \in Items, k \in 0..MaxCarried :
            /\ s # t
            /\ k <= sect[s].items[i] /\ k <= ItemMax - sect[t].items[i]
            /\ sect' = [sect EXCEPT ![s] = Added(@, i, -k), ![t] = Added(@, i, k)]
      BY <2>1 DEF Carry
    <3>2. k \in Nat
      BY EconomyAssumption
    <3>3. ASSUME NEW p \in Sector, NEW x \in Int, p.items[i] + x \in 0..ItemMax
          PROVE  Added(p, i, x) \in Sector
      <4> DEFINE y == p.items[i] + x
      <4>1. Added(p, i, x) = [p EXCEPT !.items[i] = y]
        BY DEF Added
      <4>2. y \in 0..ItemMax
        BY <3>3
      <4> HIDE DEF y
      <4> QED
        BY <4>1, <4>2 DEF Sector
    <3>4. /\ sect[s] \in Sector /\ sect[t] \in Sector
          /\ sect[s].items[i] \in 0..ItemMax /\ sect[t].items[i] \in 0..ItemMax
      BY <1>2, SectorRange DEF InRange
    <3> DEFINE x == -k
    <3>5. x \in Int /\ sect[s].items[i] + x \in 0..ItemMax /\ sect[t].items[i] + k \in 0..ItemMax
      BY <3>1, <3>2, <3>4, Limits
    <3> HIDE DEF x
    <3>6. Added(sect[s], i, x) \in Sector /\ Added(sect[t], i, k) \in Sector
      BY <3>2, <3>3, <3>4, <3>5
    <3>7. sect' = [sect EXCEPT ![s] = Added(sect[s], i, x), ![t] = Added(sect[t], i, k)]
      BY <1>2, <3>1 DEF x
    <3> QED
      BY <1>2, <3>6, <3>7
  <2>2. CASE Finish
    <3>1. ASSUME NEW s \in Sectors
          PROVE  [sect[s] EXCEPT !.avail = Lower(@, 1000)] \in Sector
      <4> DEFINE x == Lower(sect[s].avail, 1000)
      <4>1. sect[s] \in Sector /\ x \in Nat
        BY <1>2, SectorNumbers DEF Lower
      <4>2. [sect[s] EXCEPT !.avail = Lower(@, 1000)] = [sect[s] EXCEPT !.avail = x]
        OBVIOUS
      <4> HIDE DEF x
      <4> QED
        BY <4>1, <4>2 DEF Sector
    <3> QED
      BY <2>2, <3>1 DEF Finish
  <2> QED
    BY <2>1, <2>2
<1>4. Ranged'
  BY <1>1, <1>3 DEF RangeInv, Ranged
<1> QED
  BY <1>1, <1>4, LaterSettled

LEMMA BuildRanged == RangeInv /\ Build => (Ranged /\ SettledSectors)'
<1> SUFFICES ASSUME RangeInv, Build
             PROVE  (Ranged /\ SettledSectors)'
  OBVIOUS
<1> DEFINE u == row
           s == unit[u].at
<1>1. Typed /\ phase \in {"ships", "planes", "land"} /\ Advance /\ u \in Units
      /\ Growth(u) > 0 /\ UNCHANGED <<orders, updates, enlistPay>>
  BY Visited DEF RangeInv, Inv, Build
<1>2. sect \in [Sectors -> Sector] /\ unit \in [Units -> Unit]
  BY DEF RangeInv, Ranged
<1>3. s \in Sectors /\ sect[s] \in Sector /\ unit[u] \in Unit
  BY <1>1, <1>2, UnitRange
<1>4. PICK lcm \in Needed(u, UnitChr[u].lcm), hcm \in Needed(u, UnitChr[u].hcm), w \in Wages(u) :
        /\ sect' = [sect EXCEPT ![s] = Tired(Added(Added(@, "lcm", -lcm), "hcm", -hcm), w)]
        /\ overdrawn' = (overdrawn \/ w > sect[s].avail)
  BY DEF Build
<1>5. unit' = [unit EXCEPT ![u].effic = @ + Growth(u)]
  BY DEF Build
<1>6. /\ unit[u].effic + Growth(u) \in 0..100
      /\ lcm \in Nat /\ lcm <= sect[s].items["lcm"]
      /\ hcm \in Nat /\ hcm <= sect[s].items["hcm"]
      /\ w \in Nat /\ w <= sect[s].avail
  BY <1>1, <1>2, GrowthRange
<1>7. unit' \in [Units -> Unit]
  <2> DEFINE x == unit[u].effic + Growth(u)
  <2>1. unit' = [unit EXCEPT ![u] = [unit[u] EXCEPT !.effic = x]]
    BY <1>1, <1>2, <1>5
  <2>2. x \in 0..100
    BY <1>6
  <2> HIDE DEF x
  <2>3. [unit[u] EXCEPT !.effic = x] \in Unit
    BY <1>3, <2>2 DEF Unit
  <2> QED
    BY <1>1, <1>2, <2>1, <2>3
<1> HIDE DEF s
<1> DEFINE x == -lcm
           y == -hcm
           q == Added(Added(sect[s], "lcm", x), "hcm", y)
<1>8. q \in Sector
  <2> DEFINE p == sect[s]
  <2>1. p \in SectorRow /\ InRange(p)
    BY <1>3, SectorRange
  <2>2. p.items["lcm"] \in 0..ItemMax /\ p.items["hcm"] \in 0..ItemMax
    BY <2>1, Names DEF InRange
  <2>3. x \in Int /\ y \in Int /\ p.items["lcm"] + x \in 0..ItemMax
        /\ p.items["hcm"] + y \in 0..ItemMax
    BY <1>6, <2>2, Limits
  <2> HIDE DEF x, y, p
  <2>4. /\ q \in SectorRow /\ Alike(p, q)
        /\ q.items["lcm"] = p.items["lcm"] + x /\ q.items["hcm"] = p.items["hcm"] + y
        /\ \A i \in Items \ {"lcm", "hcm"} : q.items[i] = p.items[i]
    BY <2>1, <2>3, Names, AddedTwice DEF p
  <2> HIDE DEF q
  <2>5. \A i \in Items : q.items[i] \in 0..ItemMax
    BY <2>1, <2>3, <2>4 DEF InRange
  <2>6. InRange(q)
    BY <2>1, <2>4, <2>5 DEF InRange, Alike
  <2> QED
    BY <2>4, <2>6, SectorRange
<1>9. sect' = [sect EXCEPT ![s] = Tired(q, w)]
  BY <1>2, <1>3, <1>4 DEF s
<1> HIDE DEF q
<1>10. sect' \in [Sectors -> Sector]
  <2>1. Tired(q, w) \in Sector
    BY <1>6, <1>8, TiredRange
  <2> QED
    BY <1>2, <1>3, <1>9, <2>1
<1>11. overdrawn' = FALSE
  <2>1. ~(w > sect[s].avail)
    <3>1. sect[s].avail \in Nat
      BY <1>3, SectorNumbers
    <3> QED
      BY <1>6, <3>1
  <2>2. overdrawn = FALSE
    BY DEF RangeInv, Ranged
  <2>3. overdrawn' = (overdrawn \/ w > sect[s].avail)
    BY <1>4 DEF s
  <2> QED
    BY <2>1, <2>2, <2>3, Zenon
<1>12. Ranged'
  BY <1>1, <1>7, <1>10, <1>11 DEF RangeInv, Ranged
<1>13. SettledSectors'
  BY <1>1, LaterSettled
<1> QED
  BY <1>12, <1>13

LEMMA DrillRanged == RangeInv /\ Drill => (Ranged /\ SettledSectors)'
<1> SUFFICES ASSUME RangeInv, Drill
             PROVE  (Ranged /\ SettledSectors)'
  OBVIOUS
<1> DEFINE u == row
           s == unit[u].at
           d == ProductChr[TypeChr[OilField].product]
<1>1. Typed /\ phase = "ocean" /\ Advance /\ u \in Units
      /\ UNCHANGED <<orders, updates, enlistPay>>
  BY Visited DEF RangeInv, Inv, Drill
<1>2. sect \in [Sectors -> Sector] /\ unit \in [Units -> Unit]
  BY DEF RangeInv, Ranged
<1>3. s \in Sectors /\ sect[s] \in Sector /\ unit[u] \in Unit /\ unit[u].own \in Nations
  <2>1. unit[u].own \in 0..NNations /\ unit[u].own # 0
    BY <1>1, UnitFields DEF Drill, MayDrill
  <2> QED
    BY <1>1, <1>2, <2>1, UnitRange, Constants DEF Nations
<1>4. PICK work \in RoundAvg(Workers(100, unit[u].items, ItemMax)) :
        \E oil \in Drilled(u, work), fish \in Fished(u, work) :
        \E k \in Depletion(d, <<oil, 1>>) :
            /\ unit' = [unit EXCEPT ![u] = Added(Added(@, "oil", oil), "food", fish)]
            /\ sect' = [sect EXCEPT ![s] = Depleted(@, d, k)]
            /\ overdrawn' = (overdrawn \/ k > Resource(sect[s], d))
  BY DEF Drill
<1>5. PICK oil \in Drilled(u, work), fish \in Fished(u, work) :
        \E k \in Depletion(d, <<oil, 1>>) :
            /\ unit' = [unit EXCEPT ![u] = Added(Added(@, "oil", oil), "food", fish)]
            /\ sect' = [sect EXCEPT ![s] = Depleted(@, d, k)]
            /\ overdrawn' = (overdrawn \/ k > Resource(sect[s], d))
  BY <1>4
<1>6. PICK k \in Depletion(d, <<oil, 1>>) :
            /\ unit' = [unit EXCEPT ![u] = Added(Added(@, "oil", oil), "food", fish)]
            /\ sect' = [sect EXCEPT ![s] = Depleted(@, d, k)]
            /\ overdrawn' = (overdrawn \/ k > Resource(sect[s], d))
  BY <1>5
<1>7. work \in Nat
  <2>1. \A i \in Items : unit[u].items[i] \in Nat
    <3>1. \A i \in Items : unit[u].items[i] \in 0..ItemMax
      BY <1>3, UnitRange
    <3> QED
      BY <3>1, Limits
  <2> DEFINE c == 100
  <2>2. c \in Nat /\ ItemMax \in Nat
    BY Limits
  <2> HIDE DEF c
  <2>3. RoundAvg(Workers(c, unit[u].items, ItemMax)) \subseteq Nat
    BY <2>1, <2>2, WorkersNatural
  <2> QED
    BY <2>3 DEF c
<1>8. /\ ProductTyped(d)
      /\ oil \in Nat /\ unit[u].items["oil"] + oil <= ItemMax
      /\ d.nrdep # 0 => Under(<<oil, 1>>, ResourceLimit(sect[s], d))
      /\ fish \in Nat /\ unit[u].items["food"] + fish <= ItemMax
  BY <1>1, <1>2, <1>3, <1>7, CatchRange
<1> HIDE DEF d, s
<1>9. k \in Nat /\ k <= Resource(sect[s], d)
  <2>1. <<oil, 1>> \in Fraction /\ <<oil, 1>>[1] >= 0
    BY <1>8, Pairs DEF Positive
  <2> QED
    BY <1>3, <1>8, <2>1, DepletionRange
<1>10. sect' \in [Sectors -> Sector]
  <2>1. Depleted(sect[s], d, k) \in Sector
    BY <1>3, <1>8, <1>9, DepletedRange
  <2>2. sect' = [sect EXCEPT ![s] = Depleted(sect[s], d, k)]
    BY <1>2, <1>3, <1>6
  <2> QED
    BY <1>2, <1>3, <2>1, <2>2
<1>11. unit' \in [Units -> Unit]
  <2>1. ASSUME NEW v \in Unit, NEW i \in Items, NEW n \in Nat, v.items[i] + n <= ItemMax
        PROVE  Added(v, i, n) \in Unit
               /\ \A j \in Items \ {i} : Added(v, i, n).items[j] = v.items[j]
    <3> DEFINE y == v.items[i] + n
    <3>1. Added(v, i, n) = [v EXCEPT !.items[i] = y]
      BY DEF Added
    <3>2. y \in 0..ItemMax
      <4>1. v.items[i] \in 0..ItemMax
        BY UnitRange
      <4> QED
        BY <2>1, <4>1, Limits
    <3> HIDE DEF y
    <3> QED
      BY <3>1, <3>2 DEF Unit
  <2> DEFINE v == unit[u]
             f == Added(v, "oil", oil)
             g == Added(f, "food", fish)
  <2>2. f \in Unit /\ f.items["food"] = v.items["food"]
    BY <1>3, <1>8, <2>1, Names
  <2> HIDE DEF f
  <2>3. g \in Unit
    BY <1>8, <2>1, <2>2, Names
  <2> HIDE DEF g
  <2>4. unit' = [unit EXCEPT ![u] = g]
    BY <1>1, <1>2, <1>6 DEF v, f, g
  <2> QED
    BY <1>1, <1>2, <2>3, <2>4
<1>12. overdrawn' = FALSE
  <2>1. ~(k > Resource(sect[s], d))
    <3>1. Resource(sect[s], d) \in 0..100
      BY <1>3, <1>8, ResourceRange
    <3> QED
      BY <1>9, <3>1
  <2>2. overdrawn = FALSE
    BY DEF RangeInv, Ranged
  <2>3. overdrawn' = (overdrawn \/ k > Resource(sect[s], d))
    BY <1>6
  <2> QED
    BY <2>1, <2>2, <2>3, Zenon
<1>13. Ranged'
  BY <1>1, <1>10, <1>11, <1>12 DEF RangeInv, Ranged
<1>14. SettledSectors'
  BY <1>1, LaterSettled
<1> QED
  BY <1>13, <1>14

LEMMA QuietRange ==
    RangeInv /\ (Skip \/ ProdNat \/ AgeLevels) => (Ranged /\ SettledSectors)'
<1> SUFFICES ASSUME RangeInv, Skip \/ ProdNat \/ AgeLevels
             PROVE  (Ranged /\ SettledSectors)'
  OBVIOUS
<1>1. Typed /\ Advance /\ phase \notin {"idle", "prepare", "reserve", "produce"}
      /\ UNCHANGED <<sect, unit, orders, updates, enlistPay, overdrawn>>
  BY DEF RangeInv, Inv, Skip, ProdNat, AgeLevels, KindOf, history
<1>2. Ranged'
  BY <1>1 DEF RangeInv, Ranged
<1> QED
  BY <1>1, <1>2, LaterSettled

LEMMA DesignateRange ==
    ASSUME RangeInv, NEW s \in Sectors, NEW t \in Types, Designate(s, t)
    PROVE  (Ranged /\ SettledSectors)'
<1>1. /\ phase' = "idle" /\ UNCHANGED <<unit, updates, enlistPay, overdrawn>>
      /\ orders' \in 0..MaxOrders
  BY EconomyAssumption DEF Designate, RangeInv, Ranged
<1>2. sect' \in [Sectors -> Sector]
  <2> DEFINE x == 0
             p == sect[s]
             q == [p EXCEPT !.effic = x, !.type = t, !.newType = t]
  <2>1. sect \in [Sectors -> Sector] /\ p \in Sector /\ x \in 0..100
    BY DEF RangeInv, Ranged
  <2>2. sect' = [sect EXCEPT ![s] = q]
    BY DEF Designate, RangeInv, Ranged
  <2> HIDE DEF x, p
  <2>3. q \in Sector
    BY <2>1 DEF Sector
  <2> HIDE DEF q
  <2> QED
    BY <2>1, <2>2, <2>3
<1>3. Ranged'
  BY <1>1, <1>2 DEF RangeInv, Ranged
<1> QED
  BY <1>1, <1>3, Unsettled

LEMMA NextRange == RangeInv /\ [Next]_vars => RangeInv'
<1> SUFFICES ASSUME RangeInv, [Next]_vars
             PROVE  RangeInv'
  OBVIOUS
<1>1. Inv'
  BY NextInv DEF RangeInv
<1>2. (Ranged /\ SettledSectors)'
  <2>1. CASE UNCHANGED vars
    BY <2>1 DEF vars, history, RangeInv, Ranged, SettledSectors, Ready, Unproduced, Wild
  <2>2. CASE BeginUpdate \/ Prepare \/ PayReserve
    BY <2>2, BeginUpdateRange, PrepareRange, PayReserveRange
  <2>3. CASE PassOver \/ Produce \/ Carry \/ Finish
    BY <2>3, PassOverRange, ProduceRange, GoodsRange
  <2>4. CASE Build \/ Drill
    BY <2>4, BuildRanged, DrillRanged
  <2>5. CASE Skip \/ ProdNat \/ AgeLevels
    BY <2>5, QuietRange
  <2>6. CASE \E s \in Sectors, t \in Types : Designate(s, t)
    BY <2>6, DesignateRange
  <2> QED
    BY <2>1, <2>2, <2>3, <2>4, <2>5, <2>6 DEF Next
<1> QED
  BY <1>1, <1>2 DEF RangeInv

\* Rows stay within their columns, and sectors that are prepared are settled.
THEOREM RangesHold == Spec => []RangeInv
BY InitRange, NextRange, PTL DEF Spec

\* The limits computed before a subtraction are enough, however chance rounds:
\* no max(0) of prod_output, deplete_resource, prod_ships, prod_planes or
\* prod_land hides a number below zero, and every row stays in its range.
THEOREM LimitsAreEnough == Spec => []NothingOverdrawn
<1>1. RangeInv => NothingOverdrawn
  <2> SUFFICES ASSUME RangeInv
               PROVE  NothingOverdrawn
    OBVIOUS
  <2>1. phase \in {Loops[k] : k \in DOMAIN Loops} \cup {"idle"}
    <3>1. DOMAIN Loops = 1..11
      BY DEF Loops
    <3>2. \A p \in Phases \ {"idle"} : \E k \in 1..11 : p = Loops[k]
      BY DEF Loops, Phases
    <3> QED
      BY <3>1, <3>2 DEF RangeInv, Inv, Typed
  <2>2. nat \in [Nations -> Nation]
    BY DEF RangeInv, Inv, Typed, NationRow, Nation
  <2>3. onCredit \in [Nations -> Nat]
    BY DEF RangeInv, Inv, Typed, Once
  <2> QED
    BY <2>1, <2>2, <2>3 DEF RangeInv, Inv, Typed, Ranged, NothingOverdrawn, TypeOK
<1> QED
  BY <1>1, RangesHold, PTL

\* After prepare_sects a sector is owned only with people in it, and is another's
\* at heart only with civilians, who do not outnumber its type (check_pop_loss).
THEOREM PreparedIsSettled == Spec => []SettledSectors
<1>1. RangeInv => SettledSectors
  BY DEF RangeInv
<1> QED
  BY <1>1, RangesHold, PTL

-----------------------------------------------------------------------------
(* Distribution: arithmetic *)

LEMMA NaturalProducts ==
    /\ \A a, b \in Nat : a * b \in Nat
    /\ \A a, b \in Nat \ {0} : a * b \in Nat \ {0}
    /\ \A a, b \in Int : a * b \in Int
OBVIOUS

LEMMA NaturalQuotient ==
    ASSUME NEW a \in Nat, NEW b \in Nat \ {0}
    PROVE  /\ a \div b \in Nat
           /\ (a \div b) * b <= a
OBVIOUS

\* A quotient is no more than a number whose product reaches the dividend.
LEMMA QuotientBound ==
    ASSUME NEW a \in Nat, NEW b \in Nat \ {0}, NEW n \in Int, a <= n * b
    PROVE  a \div b <= n
<1> DEFINE q == a \div b
<1>1. q \in Nat /\ q * b <= a
  BY NaturalQuotient
<1> HIDE DEF q
<1>2. q * b <= n * b
  BY <1>1
<1>3. SUFFICES ASSUME n + 1 <= q
               PROVE  FALSE
  BY <1>1 DEF q
<1>4. (n + 1) * b <= q * b
  BY <1>1, <1>3
<1>5. (n + 1) * b = n * b + b
  OBVIOUS
<1> QED
  BY <1>1, <1>2, <1>4, <1>5

-----------------------------------------------------------------------------
(* What one carriage does *)

\* The assumptions on the constants, in the form the proofs need them.
LEMMA DistributionConstants ==
    /\ Sectors \subseteq Nat \ {0} /\ ItemMax \in Nat /\ MobGain \in Int /\ MobMax \in Int
    /\ \A i \in Commodities : Weight[i] \in Nat \ {0}
    /\ \A s \in Sectors, i \in Commodities :
         /\ Pack[s][i] * DeliverBonus \in Nat \ {0}
         /\ Pack[s][i] * DistBonus \in Nat \ {0}
<1>1. \A s \in Sectors, i \in Commodities : Pack[s][i] \in Nat \ {0}
  BY DistributionAssumption
<1>2. DeliverBonus \in Nat \ {0} /\ DistBonus \in Nat \ {0}
  BY DistributionAssumption
<1>3. \A s \in Sectors, i \in Commodities :
         /\ Pack[s][i] * DeliverBonus \in Nat \ {0}
         /\ Pack[s][i] * DistBonus \in Nat \ {0}
  BY <1>1, <1>2, NaturalProducts
<1>4. \A i \in Commodities : Weight[i] \in Nat \ {0}
  BY DistributionAssumption
<1>5. Sectors \subseteq Nat \ {0} /\ ItemMax \in Nat /\ MobGain \in Int /\ MobMax \in Int
  BY DistributionAssumption DEF Sectors
<1> QED
  BY <1>3, <1>4, <1>5

StocksTyped ==
    /\ stock \in [Sectors -> [Commodities -> Int]]
    /\ mobil \in [Sectors -> Int]

\* A sector carries no more than is wanted, and pays no more than it has.
LEMMA CarriedIsPaid ==
    ASSUME StocksTyped, NEW s \in Sectors, NEW want \in Int,
           NEW load \in Nat \ {0}, NEW cap \in Nat \ {0}
    PROVE  /\ Amount(s, want, load, cap) \in Int
           /\ Amount(s, want, load, cap) <= want
           /\ Amount(s, want, load, cap) > 0 =>
                /\ want > 0
                /\ Charge(s, want, load, cap) \in Int
                /\ 0 <= Charge(s, want, load, cap)
                /\ Charge(s, want, load, cap) <= mobil[s]
<1> DEFINE m == Mobility(s)
<1>1. m \in Nat /\ mobil[s] \in Int /\ (m > 0 => m = mobil[s])
  BY DEF Mobility, StocksTyped
<1> HIDE DEF m
<1>2. m * cap \in Nat /\ want * load \in Int
  BY <1>1, NaturalProducts
<1>3. CASE Affordable(s, want, load, cap)
  <2>1. want * load <= m * cap
    BY <1>3 DEF Affordable, m
  <2>2. Amount(s, want, load, cap) = want
    BY <1>3 DEF Amount
  <2>3. Charge(s, want, load, cap) = (want * load) \div cap
    BY <1>3 DEF Charge
  <2>4. ASSUME want > 0
        PROVE  /\ (want * load) \div cap \in Nat
               /\ (want * load) \div cap <= mobil[s]
    <3>1. want * load \in Nat \ {0}
      BY <2>4, NaturalProducts
    <3>2. (want * load) \div cap \in Nat
      BY <3>1, NaturalQuotient
    <3>3. (want * load) \div cap <= m
      BY <3>1, <2>1, <1>1, QuotientBound
    <3>4. m # 0
      BY <3>1, <2>1, <1>1
    <3> QED
      BY <3>2, <3>3, <3>4, <1>1
  <2> QED
    BY <2>2, <2>3, <2>4
<1>4. CASE ~Affordable(s, want, load, cap)
  <2>1. m * cap <= want * load
    BY <1>2, <1>4 DEF Affordable, m
  <2>2. Amount(s, want, load, cap) = (m * cap) \div load
    BY <1>4 DEF Amount, m
  <2>3. Charge(s, want, load, cap) = m
    BY <1>4 DEF Charge, m
  <2>4. (m * cap) \div load \in Nat /\ (m * cap) \div load <= want
    BY <1>2, <2>1, NaturalQuotient, QuotientBound
  <2>5. (m * cap) \div load > 0 => m > 0
    <3>1. SUFFICES ASSUME m = 0
                   PROVE  (m * cap) \div load = 0
      BY <1>1, <2>4
    <3>2. m * cap = 0
      BY <3>1
    <3> QED
      BY <3>2
  <2> QED
    BY <2>2, <2>3, <2>4, <2>5, <1>1
<1> QED
  BY <1>3, <1>4

\* What changes when up to "want" units of an item go from one sector to another.
Moves(from, to, i, want) ==
    /\ stock' \in [Sectors -> [Commodities -> Int]]
    /\ mobil' \in [Sectors -> Int]
    /\ \A t \in Sectors, j \in Commodities :
         \/ stock'[t][j] = stock[t][j]
         \/ /\ t = from /\ j = i /\ want > 0
            /\ stock[t][j] - want <= stock'[t][j] /\ stock'[t][j] < stock[t][j]
         \/ /\ t = to /\ j = i /\ want > 0
            /\ stock[t][j] < stock'[t][j] /\ stock'[t][j] <= stock[t][j] + want
            /\ stock'[t][j] <= ItemMax
    /\ \A t \in Sectors : mobil'[t] = mobil[t] \/ mobil'[t] >= 0

LEMMA CarryMoves ==
    ASSUME StocksTyped, NEW from \in Sectors, NEW to \in Sectors, NEW i \in Commodities,
           NEW payer \in Sectors, NEW want \in Int,
           NEW load \in Nat \ {0}, NEW cap \in Nat \ {0},
           Convey(from, to, i, payer, want, load, cap)
    PROVE  Moves(from, to, i, want)
<1> DEFINE amount == Amount(payer, want, load, cap)
           room   == Room(to, i)
           actual == Lesser(amount, room)
           charge == Charge(payer, want, load, cap)
<1>1. /\ amount \in Int /\ amount <= want
      /\ amount > 0 => want > 0 /\ charge \in Int /\ 0 <= charge /\ charge <= mobil[payer]
  BY CarriedIsPaid
<1>2. room \in Int /\ room = ItemMax - stock[to][i]
  BY DistributionConstants DEF Room, StocksTyped
<1>3. actual \in Int /\ actual <= amount /\ actual <= room
  BY <1>1, <1>2 DEF Lesser
<1>4. IF actual > 0
      THEN /\ stock' = [stock EXCEPT ![from][i] = @ - actual, ![to][i] = @ + actual]
           /\ mobil' = [mobil EXCEPT ![payer] = @ - charge]
      ELSE stock' = stock /\ mobil' = mobil
  BY DEF Convey
<1> HIDE DEF amount, room, actual, charge
<1>5. CASE actual > 0
  <2>1. stock' \in [Sectors -> [Commodities -> Int]]
    BY <1>3, <1>4, <1>5 DEF StocksTyped
  <2>2. mobil' \in [Sectors -> Int]
    BY <1>1, <1>3, <1>4, <1>5 DEF StocksTyped
  <2>3. \A t \in Sectors : mobil'[t] = mobil[t] \/ mobil'[t] >= 0
    BY <1>1, <1>3, <1>4, <1>5 DEF StocksTyped
  <2>4. ASSUME NEW t \in Sectors, NEW j \in Commodities
        PROVE  \/ stock'[t][j] = stock[t][j]
               \/ /\ t = from /\ j = i /\ want > 0
                  /\ stock[t][j] - want <= stock'[t][j] /\ stock'[t][j] < stock[t][j]
               \/ /\ t = to /\ j = i /\ want > 0
                  /\ stock[t][j] < stock'[t][j] /\ stock'[t][j] <= stock[t][j] + want
                  /\ stock'[t][j] <= ItemMax
    <3>1. stock'[t][j] = IF j # i \/ (t # from /\ t # to) \/ from = to THEN stock[t][j]
                         ELSE IF t = from THEN stock[t][j] - actual
                         ELSE stock[t][j] + actual
      BY <1>3, <1>4, <1>5 DEF StocksTyped
    <3>2. stock[t][j] \in Int /\ ItemMax \in Int
      BY DistributionConstants DEF StocksTyped
    <3> QED
      BY <3>1, <3>2, <1>1, <1>2, <1>3, <1>5
  <2> QED
    BY <2>1, <2>2, <2>3, <2>4 DEF Moves
<1>6. CASE ~(actual > 0)
  BY <1>4, <1>6 DEF StocksTyped, Moves
<1> QED
  BY <1>5, <1>6

LEMMA NothingMoves ==
    ASSUME StocksTyped, UNCHANGED <<stock, mobil>>, NEW from, NEW to, NEW i, NEW want
    PROVE  Moves(from, to, i, want)
BY DEF StocksTyped, Moves

-----------------------------------------------------------------------------
(* The three kinds of visits *)

LEMMA TypedRows == DistributionTypeOK => StocksTyped
BY DEF DistributionTypeOK, StocksTyped

LEMMA SurplusTyped ==
    ASSUME DistributionTypeOK, NEW s \in Sectors, NEW i \in Commodities
    PROVE  Surplus(s, i) \in Int /\ Surplus(s, i) = stock[s][i] - threshold[s][i]
BY DEF DistributionTypeOK, Surplus

LEMMA GroupTyped == DistributionTypeOK => group.centre \in Sectors /\ group.own \in Nat
BY DEF DistributionTypeOK, Group

LEMMA DeliverMoves ==
    ASSUME DistributionTypeOK, NEW s \in Sectors, NEW i \in Commodities, path[s][i] \in Directions,
           DeliverFrom(s, i)
    PROVE  \E to \in Sectors : Moves(s, to, i, Surplus(s, i))
<1> DEFINE d == Neighbour[s][path[s][i]]
<1>1. d \in Sectors \cup {0}
  BY DistributionAssumption
<1>2. CASE Surplus(s, i) > 0 /\ d # 0 /\ own[d] = own[s]
  <2>1. Convey(s, d, i, s, Surplus(s, i), Weight[i], Pack[s][i] * DeliverBonus)
    BY <1>2 DEF DeliverFrom
  <2>2. d \in Sectors
    BY <1>1, <1>2
  <2> HIDE DEF d
  <2>3. Moves(s, d, i, Surplus(s, i))
    BY <2>1, <2>2, CarryMoves, TypedRows, SurplusTyped, DistributionConstants
  <2> QED
    BY <2>2, <2>3
<1>3. CASE ~(Surplus(s, i) > 0 /\ d # 0 /\ own[d] = own[s])
  BY <1>3, NothingMoves, TypedRows DEF DeliverFrom
<1> QED
  BY <1>2, <1>3

\* The load of an item over a path of cost k.
LEMMA PathLoad ==
    ASSUME NEW c, NEW s, NEW i \in Commodities, NEW k \in PathCosts(c, s), k > 0
    PROVE  Weight[i] * k \in Nat \ {0}
<1>1. k \in Nat \ {0}
  BY DistributionAssumption DEF PathCosts
<1> QED
  BY <1>1, DistributionConstants, NaturalProducts

LEMMA ExportMoves ==
    ASSUME DistributionTypeOK, NEW s \in Sectors, NEW i \in Commodities, ExportFrom(s, i)
    PROVE  Moves(s, group.centre, i, Surplus(s, i))
<1>1. CASE UNCHANGED <<stock, mobil>>
  BY <1>1, NothingMoves, TypedRows
<1>2. ASSUME NEW k \in PathCosts(group.centre, s), k > 0,
             Convey(s, group.centre, i, s,
                   Surplus(s, i), Weight[i] * k, Pack[s][i] * DistBonus)
      PROVE  Moves(s, group.centre, i, Surplus(s, i))
  <2>1. Weight[i] * k \in Nat \ {0} /\ Pack[s][i] * DistBonus \in Nat \ {0}
    BY <1>2, PathLoad, DistributionConstants
  <2> QED
    BY <1>2, <2>1, CarryMoves, TypedRows, SurplusTyped, GroupTyped
<1> QED
  BY <1>1, <1>2 DEF ExportFrom

LEMMA WantedTyped ==
    ASSUME DistributionTypeOK, NEW s \in Sectors, NEW i \in Commodities
    PROVE  /\ Wanted(s, i) \in Int
           /\ Wanted(s, i) <= threshold[s][i] - stock[s][i]
           /\ Wanted(s, i) <= stock[group.centre][i]
<1>1. stock[group.centre][i] \in Int /\ stock[s][i] \in Int /\ threshold[s][i] \in Int
  BY GroupTyped DEF DistributionTypeOK
<1> QED
  BY <1>1 DEF Wanted, Surplus, Lesser

LEMMA ImportMoves ==
    ASSUME DistributionTypeOK, NEW s \in Sectors, NEW i \in Commodities, ImportTo(s, i)
    PROVE  Moves(group.centre, s, i, Wanted(s, i))
<1>1. CASE UNCHANGED <<stock, mobil>>
  BY <1>1, NothingMoves, TypedRows
<1>2. ASSUME NEW k \in PathCosts(group.centre, s), k > 0,
             Convey(group.centre, s, i, s,
                   Wanted(s, i), Weight[i] * k, Pack[s][i] * DistBonus)
      PROVE  Moves(group.centre, s, i, Wanted(s, i))
  <2>1. Weight[i] * k \in Nat \ {0} /\ Pack[s][i] * DistBonus \in Nat \ {0}
    BY <1>2, PathLoad, DistributionConstants
  <2> QED
    BY <1>2, <2>1, CarryMoves, TypedRows, WantedTyped, GroupTyped
<1> QED
  BY <1>1, <1>2 DEF ImportTo

-----------------------------------------------------------------------------
(***************************************************************************)
(* Typing.  A delivery has a direction as long as the cells to visit are   *)
(* those chosen when the update began, since no command runs meanwhile.    *)
(***************************************************************************)
Directed ==
    stage = "deliver" => \A c \in pending : path[c[1]][c[2]] \in Directions

BelowZeroTyped == belowZero \in BOOLEAN

\* The types of all the variables but the flag.
PlainTypes ==
    /\ own \in [Sectors -> Nat]
    /\ stock \in [Sectors -> [Commodities -> Int]]
    /\ mobil \in [Sectors -> Int]
    /\ threshold \in [Sectors -> [Commodities -> Int]]
    /\ path \in [Sectors -> [Commodities -> Directions \cup {Stop}]]
    /\ centre \in [Sectors -> Sectors]
    /\ stage \in {"idle", "deliver", "groups", "export", "import"}
    /\ pending \subseteq Cells
    /\ group \in Group
    /\ groups \subseteq Group
    /\ commandsGiven \in 0..MaxOrders /\ updatesBegun \in 0..MaxUpdates
    /\ goods \in [Sectors -> [Commodities -> Int]]

LEMMA TypesTogether == DistributionTypeOK <=> PlainTypes /\ BelowZeroTyped
BY DEF DistributionTypeOK, PlainTypes, BelowZeroTyped

LEMMA FlagInit == DistributionInit => BelowZeroTyped
BY DEF DistributionInit, BelowZeroTyped

LEMMA FlagStep == BelowZeroTyped /\ [DistributionNext]_distributionVars => BelowZeroTyped'
<1> SUFFICES ASSUME BelowZeroTyped, [DistributionNext]_distributionVars
             PROVE  BelowZeroTyped'
  OBVIOUS
<1> USE DEF BelowZeroTyped, distributionHistory
<1>1. CASE UNCHANGED distributionVars
  BY <1>1 DEF distributionVars
<1>2. CASE Update
  BY <1>2, Zenon DEF Update, BeginDelivery, FormGroups, ImportPass, EndGroup, EndUpdate,
                     Deliver, Export, Import, Visit, NextGroup
<1>3. ASSUME NEW s \in Sectors, Command(s)
      PROVE  BelowZeroTyped'
  BY <1>3, Zenon DEF Command, SetThreshold, SetDelivery, Distribute
<1> QED
  BY <1>1, <1>2, <1>3 DEF DistributionNext

LEMMA PlainInit == DistributionInit => PlainTypes /\ Directed
<1> SUFFICES ASSUME DistributionInit
             PROVE  PlainTypes /\ Directed
  OBVIOUS
<1> USE DistributionAssumption DEF DistributionInit
<1>1. stock \in [Sectors -> [Commodities -> Int]] /\ goods \in [Sectors -> [Commodities -> Int]]
  OBVIOUS
<1>2. threshold \in [Sectors -> [Commodities -> Int]]
  OBVIOUS
<1>3. NoGroup \in Group
  BY DEF NoGroup, Group, Sectors
<1>4. own \in [Sectors -> Nat] /\ centre \in [Sectors -> Sectors]
  OBVIOUS
<1>5. commandsGiven \in 0..MaxOrders /\ updatesBegun \in 0..MaxUpdates
  OBVIOUS
<1> QED
  BY <1>1, <1>2, <1>3, <1>4, <1>5 DEF PlainTypes, Directed

\* A visit changes stocks and mobilities as some carriage does.
LEMMA VisitMoves ==
    ASSUME DistributionTypeOK, Directed, NEW c \in pending, Deliver(c) \/ Export(c) \/ Import(c)
    PROVE  /\ c[1] \in Sectors /\ c[2] \in Commodities
           /\ \E from \in Sectors, to \in Sectors :
                Moves(from, to, c[2],
                      IF stage = "import" THEN Wanted(c[1], c[2]) ELSE Surplus(c[1], c[2]))
           /\ stage # "import" =>
                \E to \in Sectors : Moves(c[1], to, c[2], Surplus(c[1], c[2]))
           /\ stage = "import" => Moves(group.centre, c[1], c[2], Wanted(c[1], c[2]))
<1>1. c[1] \in Sectors /\ c[2] \in Commodities
  BY DEF DistributionTypeOK, Cells
<1>2. CASE Deliver(c)
  <2>1. stage = "deliver" /\ DeliverFrom(c[1], c[2])
    BY <1>2 DEF Deliver, Visit
  <2>2. \E to \in Sectors : Moves(c[1], to, c[2], Surplus(c[1], c[2]))
    BY <1>1, <2>1, DeliverMoves DEF Directed
  <2> QED
    BY <1>1, <2>1, <2>2
<1>3. CASE Export(c)
  <2>1. stage = "export" /\ ExportFrom(c[1], c[2])
    BY <1>3 DEF Export, Visit
  <2>2. Moves(c[1], group.centre, c[2], Surplus(c[1], c[2]))
    BY <1>1, <2>1, ExportMoves
  <2> QED
    BY <1>1, <2>1, <2>2, GroupTyped
<1>4. CASE Import(c)
  <2>1. stage = "import" /\ ImportTo(c[1], c[2])
    BY <1>4 DEF Import, Visit
  <2>2. Moves(group.centre, c[1], c[2], Wanted(c[1], c[2]))
    BY <1>1, <2>1, ImportMoves
  <2> QED
    BY <1>1, <2>1, <2>2, GroupTyped
<1> QED
  BY <1>2, <1>3, <1>4

LEMMA VisitTypes ==
    ASSUME DistributionTypeOK, Directed, NEW c \in pending, Deliver(c) \/ Export(c) \/ Import(c)
    PROVE  PlainTypes' /\ Directed'
<1>1. stock' \in [Sectors -> [Commodities -> Int]] /\ mobil' \in [Sectors -> Int]
  BY VisitMoves DEF Moves
<1>2. /\ pending' = pending \ {c}
      /\ UNCHANGED <<plans, stage, group, groups, distributionHistory>>
  BY DEF Deliver, Export, Import, Visit
<1> QED
  BY <1>1, <1>2, TypesTogether DEF PlainTypes, Directed, plans, distributionHistory

LEMMA CommandTypes ==
    ASSUME DistributionTypeOK, NEW s \in Sectors, Command(s)
    PROVE  PlainTypes' /\ Directed'
<1> USE DistributionAssumption
<1>1. /\ stage = "idle" /\ commandsGiven < MaxOrders /\ commandsGiven' = commandsGiven + 1
      /\ UNCHANGED <<own, stock, mobil, stage, pending, group, groups, updatesBegun, goods>>
  BY DEF Command, SetThreshold, SetDelivery, Distribute, GiveOrder
<1>2. commandsGiven' \in 0..MaxOrders
  BY <1>1 DEF DistributionTypeOK
<1>3. ASSUME NEW i \in Commodities, NEW t \in Thresholds, SetThreshold(s, i, t)
      PROVE  /\ threshold' \in [Sectors -> [Commodities -> Int]]
             /\ UNCHANGED <<path, centre>>
  BY <1>3 DEF SetThreshold, DistributionTypeOK
<1>4. ASSUME NEW i \in Commodities, NEW d \in Directions \cup {Stop},
             NEW t \in Thresholds \cup {threshold[s][i]}, SetDelivery(s, i, d, t)
      PROVE  /\ threshold' \in [Sectors -> [Commodities -> Int]]
             /\ path' \in [Sectors -> [Commodities -> Directions \cup {Stop}]]
             /\ UNCHANGED centre
  <2>1. t \in Int
    BY DEF DistributionTypeOK
  <2>2. threshold' \in [Sectors -> [Commodities -> Int]]
    BY <1>4, <2>1 DEF SetDelivery, DistributionTypeOK
  <2>3. path' \in [Sectors -> [Commodities -> Directions \cup {Stop}]]
    BY <1>4 DEF SetDelivery, DistributionTypeOK
  <2> QED
    BY <1>4, <2>2, <2>3 DEF SetDelivery
<1>5. ASSUME NEW c \in Sectors, Distribute(s, c)
      PROVE  /\ centre' \in [Sectors -> Sectors]
             /\ UNCHANGED <<threshold, path>>
  BY <1>5 DEF Distribute, DistributionTypeOK
<1>6. /\ threshold' \in [Sectors -> [Commodities -> Int]]
      /\ path' \in [Sectors -> [Commodities -> Directions \cup {Stop}]]
      /\ centre' \in [Sectors -> Sectors]
  BY <1>3, <1>4, <1>5 DEF Command, DistributionTypeOK
<1> QED
  BY <1>1, <1>2, <1>6, TypesTogether DEF PlainTypes, Directed

LEMMA UpdateTypes ==
    ASSUME DistributionTypeOK, Directed, Update
    PROVE  PlainTypes' /\ Directed'
<1> USE TypesTogether DEF PlainTypes, Directed, plans, distributionHistory
<1>1. CASE BeginDelivery
  <2>1. updatesBegun' \in 0..MaxUpdates
    BY <1>1, DistributionAssumption DEF BeginDelivery
  <2>2. pending' \subseteq Cells
    BY <1>1 DEF BeginDelivery, DeliverCells
  <2>3. \A c \in pending' : path[c[1]][c[2]] \in Directions
    <3>1. \A c \in DeliverCells :
            /\ c[1] \in Sectors /\ c[2] \in Commodities
            /\ path[c[1]][c[2]] # Stop
      BY DEF DeliverCells, Cells
    <3> QED
      BY <1>1, <3>1 DEF BeginDelivery
  <2> QED
    BY <1>1, <2>1, <2>2, <2>3 DEF BeginDelivery
<1>2. CASE FormGroups
  <2>1. Groups \subseteq Group
    BY DEF Groups, Group
  <2> QED
    BY <1>2, <2>1 DEF FormGroups
<1>3. CASE ImportPass
  BY <1>3 DEF ImportPass, GroupCells
<1>4. CASE EndGroup
  BY <1>4 DEF EndGroup
<1>5. CASE EndUpdate
  <2>1. mobil' \in [Sectors -> Int]
    <3>1. \A s \in Sectors : mobil[s] \in Int /\ Lesser(mobil[s] + MobGain, MobMax) \in Int
      BY DistributionConstants DEF Lesser
    <3> QED
      BY <1>5, <3>1 DEF EndUpdate
  <2>2. NoGroup \in Group
    BY DistributionAssumption DEF NoGroup, Group, Sectors
  <2> QED
    BY <1>5, <2>1, <2>2 DEF EndUpdate
<1>6. ASSUME NEW g \in groups, NextGroup(g)
      PROVE  PlainTypes' /\ Directed'
  BY <1>6 DEF NextGroup, GroupCells
<1>7. ASSUME NEW c \in pending, Deliver(c) \/ Export(c) \/ Import(c)
      PROVE  PlainTypes' /\ Directed'
  BY <1>7, VisitTypes
<1> QED
  BY <1>1, <1>2, <1>3, <1>4, <1>5, <1>6, <1>7 DEF Update

LEMMA TypesStep ==
    ASSUME DistributionTypeOK, Directed, [DistributionNext]_distributionVars
    PROVE  PlainTypes' /\ Directed'
<1>1. CASE UNCHANGED distributionVars
  BY <1>1, TypesTogether DEF distributionVars, plans, distributionHistory, PlainTypes, Directed
<1>2. CASE Update
  BY <1>2, UpdateTypes
<1>3. CASE \E s \in Sectors : Command(s)
  BY <1>3, CommandTypes
<1> QED
  BY <1>1, <1>2, <1>3 DEF DistributionNext

LEMMA Typing == DistributionSpec => [](DistributionTypeOK /\ Directed)
<1>1. DistributionInit => DistributionTypeOK /\ Directed
  BY PlainInit, FlagInit, TypesTogether
<1>2. DistributionTypeOK /\ Directed /\ [DistributionNext]_distributionVars => (DistributionTypeOK /\ Directed)'
  <2> SUFFICES ASSUME DistributionTypeOK, Directed, [DistributionNext]_distributionVars
               PROVE  DistributionTypeOK' /\ Directed'
    OBVIOUS
  <2>1. PlainTypes' /\ Directed'
    BY TypesStep
  <2>2. BelowZeroTyped'
    BY FlagStep, TypesTogether
  <2>3. DistributionTypeOK'
    BY <2>1, <2>2 DEF DistributionTypeOK, PlainTypes, BelowZeroTyped
  <2> QED
    BY <2>1, <2>3
<1> QED
  BY <1>1, <1>2, PTL DEF DistributionSpec

\* Every variable keeps to its type, whatever is ordered.
THEOREM DistributionTypeCorrect == DistributionSpec => []DistributionTypeOK
BY Typing, PTL

-----------------------------------------------------------------------------
(***************************************************************************)
(* Stocks.  A sector gives its surplus over a threshold that is not        *)
(* negative, or a centre what it has, so stocks stay in range together     *)
(* with thresholds.                                                        *)
(***************************************************************************)
WithinRange ==
    \A s \in Sectors, i \in Commodities : stock[s][i] \in 0..ItemMax /\ threshold[s][i] >= 0
Ranges == ~belowZero => WithinRange

LEMMA VisitRange ==
    ASSUME DistributionTypeOK, Directed, WithinRange, NEW c \in pending, Deliver(c) \/ Export(c) \/ Import(c)
    PROVE  WithinRange'
<1>1. c[1] \in Sectors /\ c[2] \in Commodities /\ threshold' = threshold
  BY VisitMoves DEF Deliver, Export, Import, Visit, plans
<1>2. ASSUME NEW from \in Sectors, NEW to \in Sectors, NEW want \in Int,
             want <= stock[from][c[2]], Moves(from, to, c[2], want)
      PROVE  WithinRange'
  <2> SUFFICES ASSUME NEW s \in Sectors, NEW i \in Commodities
               PROVE  stock'[s][i] \in 0..ItemMax /\ threshold'[s][i] >= 0
    BY DEF WithinRange
  <2>1. stock'[s][i] \in Int
    BY <1>2 DEF Moves
  <2>2. stock[s][i] \in 0..ItemMax /\ threshold[s][i] >= 0
    BY Zenon DEF WithinRange
  <2>4. ItemMax \in Int
    BY DistributionConstants
  <2>3. \/ stock'[s][i] = stock[s][i]
        \/ /\ s = from /\ i = c[2]
           /\ stock[s][i] - want <= stock'[s][i] /\ stock'[s][i] < stock[s][i]
        \/ stock[s][i] < stock'[s][i] /\ stock'[s][i] <= ItemMax
    BY <1>2 DEF Moves
  <2> QED
    BY <1>1, <1>2, <2>1, <2>2, <2>3, <2>4
<1>3. CASE stage = "import"
  <2>1. Moves(group.centre, c[1], c[2], Wanted(c[1], c[2]))
    BY <1>3, VisitMoves
  <2> QED
    BY <1>1, <1>2, <2>1, WantedTyped, GroupTyped
<1>4. CASE stage # "import"
  <2>1. PICK to \in Sectors : Moves(c[1], to, c[2], Surplus(c[1], c[2]))
    BY <1>4, VisitMoves
  <2>2. Surplus(c[1], c[2]) \in Int /\ Surplus(c[1], c[2]) <= stock[c[1]][c[2]]
    <3>1. stock[c[1]][c[2]] \in 0..ItemMax /\ threshold[c[1]][c[2]] >= 0
      BY <1>1 DEF WithinRange
    <3>2. threshold[c[1]][c[2]] \in Int
      BY <1>1 DEF DistributionTypeOK
    <3>3. stock[c[1]][c[2]] \in Int
      BY <1>1 DEF DistributionTypeOK
    <3>4. /\ Surplus(c[1], c[2]) \in Int
          /\ Surplus(c[1], c[2]) = stock[c[1]][c[2]] - threshold[c[1]][c[2]]
      BY <1>1, SurplusTyped
    <3> QED
      BY <3>1, <3>2, <3>3, <3>4
  <2> QED
    BY <1>1, <1>2, <2>1, <2>2
<1> QED
  BY <1>3, <1>4

LEMMA CommandRange ==
    ASSUME DistributionTypeOK, Ranges, NEW s \in Sectors, Command(s), ~belowZero'
    PROVE  WithinRange'
<1>1. UNCHANGED stock
  BY DEF Command, SetThreshold, SetDelivery, Distribute, GiveOrder
<1>2. ASSUME NEW i \in Commodities, NEW t \in Thresholds, SetThreshold(s, i, t)
      PROVE  WithinRange'
  <2>1. ~belowZero
    BY <1>2 DEF SetThreshold
  <2>2. t \in Int
    BY DistributionAssumption
  <2> QED
    BY <1>1, <1>2, <2>1, <2>2 DEF Ranges, WithinRange, SetThreshold, DistributionTypeOK
<1>3. ASSUME NEW i \in Commodities, NEW d, NEW t \in Thresholds \cup {threshold[s][i]},
             SetDelivery(s, i, d, t)
      PROVE  WithinRange'
  <2>1. belowZero' = (belowZero \/ t < 0)
    BY <1>3 DEF SetDelivery
  <2>2. ~belowZero /\ ~(t < 0)
    BY <2>1, Zenon
  <2>3. t \in Int
    BY DistributionAssumption DEF DistributionTypeOK
  <2>4. t >= 0
    BY <2>2, <2>3
  <2> QED
    BY <1>1, <1>3, <2>2, <2>3, <2>4 DEF Ranges, WithinRange, SetDelivery, DistributionTypeOK
<1>4. ASSUME NEW c \in Sectors, Distribute(s, c)
      PROVE  WithinRange'
  BY <1>1, <1>4 DEF Distribute, Ranges, WithinRange
<1> QED
  BY <1>2, <1>3, <1>4 DEF Command

LEMMA UpdateRange ==
    ASSUME DistributionTypeOK, Directed, Ranges, Update
    PROVE  Ranges'
<1>1. belowZero' = belowZero
  BY DEF Update, BeginDelivery, FormGroups, ImportPass, EndGroup, EndUpdate,
         Deliver, Export, Import, Visit, NextGroup, distributionHistory
<1>2. ASSUME NEW c \in pending, Deliver(c) \/ Export(c) \/ Import(c)
      PROVE  Ranges'
  BY <1>1, <1>2, VisitRange DEF Ranges
<1>3. CASE \/ BeginDelivery \/ FormGroups \/ ImportPass \/ EndGroup \/ EndUpdate
           \/ \E g \in groups : NextGroup(g)
  <2>1. UNCHANGED <<stock, threshold>>
    BY <1>3 DEF BeginDelivery, FormGroups, ImportPass, EndGroup, EndUpdate, NextGroup, plans
  <2> QED
    BY <1>1, <2>1 DEF Ranges, WithinRange
<1> QED
  BY <1>2, <1>3 DEF Update

LEMMA RangesInit == DistributionInit => Ranges
<1> SUFFICES ASSUME DistributionInit
             PROVE  WithinRange
  BY DEF Ranges
<1>1. stock \in [Sectors -> [Commodities -> 0..ItemMax]] /\ threshold \in [Sectors -> [Commodities -> Nat]]
  BY DistributionAssumption DEF DistributionInit
<1> QED
  BY <1>1 DEF WithinRange

LEMMA RangesStep ==
    ASSUME DistributionTypeOK, Directed, Ranges, [DistributionNext]_distributionVars
    PROVE  Ranges'
<1>1. CASE UNCHANGED distributionVars
  BY <1>1 DEF distributionVars, plans, distributionHistory, Ranges, WithinRange
<1>2. CASE Update
  BY <1>2, UpdateRange
<1>3. CASE \E s \in Sectors : Command(s)
  BY <1>3, CommandRange DEF Ranges
<1> QED
  BY <1>1, <1>2, <1>3 DEF DistributionNext

\* However sectors are directed, and in whatever order the groups are taken,
\* no stock is negative or beyond ITEM_MAX, but for negative thresholds.
THEOREM StockStaysInRange == DistributionSpec => []StockInRange
<1>1. DistributionInit => Ranges
  BY RangesInit
<1>2. DistributionTypeOK /\ Directed /\ Ranges /\ [DistributionNext]_distributionVars => Ranges'
  BY RangesStep
<1>3. Ranges => StockInRange
  BY DEF Ranges, WithinRange, StockInRange
<1> QED
  BY <1>1, <1>2, <1>3, Typing, PTL DEF DistributionSpec

-----------------------------------------------------------------------------
(* The steps of the update *)

\* A step that changes a stock is a visit.
LEMMA StockStep ==
    ASSUME DistributionTypeOK, [DistributionNext]_distributionVars, stock' # stock
    PROVE  \E c \in pending : Deliver(c) \/ Export(c) \/ Import(c)
<1>1. Update
  BY DEF DistributionNext, distributionVars, Command, SetThreshold, SetDelivery, Distribute, GiveOrder
<1> QED
  BY <1>1 DEF Update, BeginDelivery, FormGroups, ImportPass, EndGroup, EndUpdate, NextGroup

\* A sector keeps its threshold when it delivers or exports, and imports no
\* more than it lacks, whatever the thresholds are.
THEOREM ThresholdsAreRespected == DistributionSpec => ThresholdsRespected
<1> DEFINE Respects(s, i) ==
             /\ stock'[s][i] < stock[s][i]
                  => stock'[s][i] >= threshold[s][i] \/ (stage = "import" /\ s = group.centre)
             /\ stock'[s][i] > stock[s][i] /\ stage = "import"
                  => stock'[s][i] <= threshold[s][i]
<1>1. ASSUME DistributionTypeOK, Directed, [DistributionNext]_distributionVars, stock' # stock,
             NEW s \in Sectors, NEW i \in Commodities
      PROVE  Respects(s, i)
  <2>1. PICK c \in pending : Deliver(c) \/ Export(c) \/ Import(c)
    BY <1>1, StockStep
  <2>2. c[1] \in Sectors /\ c[2] \in Commodities
    BY <1>1, <2>1, VisitMoves
  <2>3. stock[s][i] \in Int /\ threshold[s][i] \in Int
    BY <1>1 DEF DistributionTypeOK
  <2>4. CASE stage = "import"
    <3>1. Moves(group.centre, c[1], c[2], Wanted(c[1], c[2]))
      BY <1>1, <2>1, <2>4, VisitMoves
    <3>2. /\ stock'[s][i] \in Int
          /\ \/ stock'[s][i] = stock[s][i]
             \/ s = group.centre /\ stock'[s][i] < stock[s][i]
             \/ /\ s = c[1] /\ i = c[2]
                /\ stock[s][i] < stock'[s][i]
                /\ stock'[s][i] <= stock[s][i] + Wanted(c[1], c[2])
      BY <3>1 DEF Moves
    <3>3. s = c[1] /\ i = c[2] =>
            Wanted(c[1], c[2]) \in Int /\ Wanted(c[1], c[2]) <= threshold[s][i] - stock[s][i]
      BY <1>1, WantedTyped
    <3> QED
      BY <2>3, <2>4, <3>2, <3>3
  <2>5. CASE stage # "import"
    <3>1. PICK to \in Sectors : Moves(c[1], to, c[2], Surplus(c[1], c[2]))
      BY <1>1, <2>1, <2>5, VisitMoves
    <3>2. /\ stock'[s][i] \in Int
          /\ \/ stock'[s][i] >= stock[s][i]
             \/ /\ s = c[1] /\ i = c[2]
                /\ stock[s][i] - Surplus(c[1], c[2]) <= stock'[s][i]
      BY <2>3, <3>1 DEF Moves
    <3>3. s = c[1] /\ i = c[2] => Surplus(c[1], c[2]) = stock[s][i] - threshold[s][i]
      BY <1>1, SurplusTyped
    <3> QED
      BY <2>3, <2>5, <3>2, <3>3
  <2> QED
    BY <2>4, <2>5
<1>2. DistributionTypeOK /\ Directed /\ [DistributionNext]_distributionVars =>
        [\A s \in Sectors, i \in Commodities : Respects(s, i)]_stock
  BY <1>1
<1> QED
  BY <1>2, Typing, PTL DEF DistributionSpec, ThresholdsRespected

\* No sector pays for a carriage with mobility it does not have.
THEOREM MobilityIsNotOverdrawn == DistributionSpec => MobilityNotOverdrawn
<1>1. ASSUME DistributionTypeOK, Directed, [DistributionNext]_distributionVars, mobil' # mobil, stage # "groups",
             NEW s \in Sectors, mobil'[s] < mobil[s]
      PROVE  mobil'[s] >= 0
  <2>1. Update
    BY <1>1 DEF DistributionNext, distributionVars, Command, SetThreshold, SetDelivery, Distribute, GiveOrder
  <2>2. PICK c \in pending : Deliver(c) \/ Export(c) \/ Import(c)
    BY <1>1, <2>1 DEF Update, BeginDelivery, FormGroups, ImportPass, EndGroup, EndUpdate, NextGroup
  <2>3. mobil'[s] = mobil[s] \/ mobil'[s] >= 0
    BY <1>1, <2>2, VisitMoves DEF Moves
  <2>4. mobil[s] \in Int
    BY <1>1 DEF DistributionTypeOK
  <2> QED
    BY <1>1, <2>3, <2>4
<1>2. DistributionTypeOK /\ Directed /\ [DistributionNext]_distributionVars =>
        [\A s \in Sectors : mobil'[s] < mobil[s] /\ stage # "groups" => mobil'[s] >= 0]_mobil
  BY <1>1
<1> QED
  BY <1>2, Typing, PTL DEF DistributionSpec, MobilityNotOverdrawn

-----------------------------------------------------------------------------
(***************************************************************************)
(* Goods.  The cells of a pass and the centre of its group have one owner  *)
(* (OneOwner), and a delivery looks at the owner of the next sector, so    *)
(* what leaves a sector stays with the country.                            *)
(***************************************************************************)
OneOwner ==
    stage \in {"export", "import"} =>
        /\ own[group.centre] = group.own
        /\ pending \subseteq GroupCells(group)

\* A carriage takes from one sector what it brings to the other.
Transfers(from, to, i) ==
    \/ stock' = stock
    \/ \E a \in Int : stock' = [stock EXCEPT ![from][i] = @ - a, ![to][i] = @ + a]

LEMMA CarryTransfers ==
    ASSUME StocksTyped, NEW from \in Sectors, NEW to \in Sectors, NEW i \in Commodities,
           NEW payer \in Sectors, NEW want \in Int,
           NEW load \in Nat \ {0}, NEW cap \in Nat \ {0},
           Convey(from, to, i, payer, want, load, cap)
    PROVE  Transfers(from, to, i)
<1>1. Amount(payer, want, load, cap) \in Int
  BY CarriedIsPaid
<1>2. Room(to, i) \in Int
  BY DistributionConstants DEF Room, StocksTyped
<1>3. Lesser(Amount(payer, want, load, cap), Room(to, i)) \in Int
  BY <1>1, <1>2 DEF Lesser
<1> QED
  BY <1>3 DEF Convey, Transfers

LEMMA TransferConserves ==
    ASSUME StocksTyped, own \in [Sectors -> Nat], NEW from \in Sectors, NEW to \in Sectors, from # to,
           own[from] = own[to], NEW i \in Commodities, NEW a \in Int,
           stock' = [stock EXCEPT ![from][i] = @ - a, ![to][i] = @ + a],
           NEW n, NEW j \in Commodities
    PROVE  Holdings(n, j, stock') = Holdings(n, j, stock)
<1> DEFINE S == {s \in Sectors : own[s] = n}
           f == [s \in Sectors |-> stock[s][j]]
           g == [s \in Sectors |-> stock'[s][j]]
<1>1. IsFiniteSet(S)
  <2>1. NSectors \in Int /\ 1 \in Int
    BY DistributionAssumption
  <2>2. IsFiniteSet(1..NSectors)
    BY <2>1, FS_Interval
  <2> QED
    BY <2>2, FS_Subset DEF Sectors
<1>2. \A s \in Sectors : f[s] \in Int
  BY DEF StocksTyped
<1>3. \A s \in Sectors : g[s] = IF j # i THEN f[s] ELSE IF s = from THEN f[s] - a
                                ELSE IF s = to THEN f[s] + a ELSE f[s]
  BY DEF StocksTyped
<1>4. Holdings(n, j, stock') = SumFunctionOnSet(g, S)
      /\ Holdings(n, j, stock) = SumFunctionOnSet(f, S)
  BY DEF Holdings
<1>5. \A s \in S : s \in Sectors
  OBVIOUS
<1>6. from \in S <=> to \in S
  OBVIOUS
<1> HIDE DEF S, f, g
<1>7. CASE j # i \/ from \notin S
  <2>1. \A s \in S : g[s] = f[s]
    BY <1>3, <1>5, <1>6, <1>7
  <2> QED
    BY <1>1, <1>4, <2>1, SumSame
<1>8. CASE j = i /\ from \in S
  <2>1. \A s \in S : f[s] \in Int
    BY <1>2, <1>5
  <2>2. g[from] = f[from] - a /\ g[to] = f[to] + a
    BY <1>3, <1>8
  <2>3. \A s \in S : s # from /\ s # to => g[s] = f[s]
    BY <1>3, <1>5
  <2> QED
    BY <1>1, <1>4, <1>6, <1>8, <2>1, <2>2, <2>3, SumMove
<1> QED
  BY <1>7, <1>8

LEMMA DeliverTransfers ==
    ASSUME DistributionTypeOK, NEW s \in Sectors, NEW i \in Commodities, path[s][i] \in Directions,
           DeliverFrom(s, i)
    PROVE  stock' = stock \/ \E d \in Sectors : d # s /\ own[d] = own[s] /\ Transfers(s, d, i)
<1> DEFINE d == Neighbour[s][path[s][i]]
<1>1. d \in Sectors \cup {0} /\ d # s
  <2>1. /\ Neighbour \in [Sectors -> [Directions -> Sectors \cup {0}]]
        /\ \A t \in Sectors, e \in Directions : Neighbour[t][e] # t
    BY DistributionAssumption
  <2> QED
    BY <2>1
<1>2. CASE Surplus(s, i) > 0 /\ d # 0 /\ own[d] = own[s]
  <2>1. Convey(s, d, i, s, Surplus(s, i), Weight[i], Pack[s][i] * DeliverBonus)
    BY <1>2 DEF DeliverFrom
  <2>2. d \in Sectors
    BY <1>1, <1>2
  <2> HIDE DEF d
  <2>3. Transfers(s, d, i)
    BY <2>1, <2>2, CarryTransfers, TypedRows, SurplusTyped, DistributionConstants
  <2> QED
    BY <1>1, <1>2, <2>2, <2>3
<1>3. CASE ~(Surplus(s, i) > 0 /\ d # 0 /\ own[d] = own[s])
  BY <1>3 DEF DeliverFrom
<1> QED
  BY <1>2, <1>3

LEMMA ExportTransfers ==
    ASSUME DistributionTypeOK, NEW s \in Sectors, NEW i \in Commodities, ExportFrom(s, i)
    PROVE  Transfers(s, group.centre, i)
<1>1. CASE UNCHANGED <<stock, mobil>>
  BY <1>1 DEF Transfers
<1>2. ASSUME NEW k \in PathCosts(group.centre, s), k > 0,
             Convey(s, group.centre, i, s,
                   Surplus(s, i), Weight[i] * k, Pack[s][i] * DistBonus)
      PROVE  Transfers(s, group.centre, i)
  <2>1. Weight[i] * k \in Nat \ {0} /\ Pack[s][i] * DistBonus \in Nat \ {0}
    BY <1>2, PathLoad, DistributionConstants
  <2> QED
    BY <1>2, <2>1, CarryTransfers, TypedRows, SurplusTyped, GroupTyped
<1> QED
  BY <1>1, <1>2 DEF ExportFrom

LEMMA ImportTransfers ==
    ASSUME DistributionTypeOK, NEW s \in Sectors, NEW i \in Commodities, ImportTo(s, i)
    PROVE  Transfers(group.centre, s, i)
<1>1. CASE UNCHANGED <<stock, mobil>>
  BY <1>1 DEF Transfers
<1>2. ASSUME NEW k \in PathCosts(group.centre, s), k > 0,
             Convey(group.centre, s, i, s,
                   Wanted(s, i), Weight[i] * k, Pack[s][i] * DistBonus)
      PROVE  Transfers(group.centre, s, i)
  <2>1. Weight[i] * k \in Nat \ {0} /\ Pack[s][i] * DistBonus \in Nat \ {0}
    BY <1>2, PathLoad, DistributionConstants
  <2> QED
    BY <1>2, <2>1, CarryTransfers, TypedRows, WantedTyped, GroupTyped
<1> QED
  BY <1>1, <1>2 DEF ImportTo

\* What a visit does to the stocks, and between which sectors.
LEMMA VisitTransfers ==
    ASSUME DistributionTypeOK, Directed, OneOwner, NEW c \in pending, Deliver(c) \/ Export(c) \/ Import(c)
    PROVE  \/ stock' = stock
           \/ \E from, to \in Sectors :
                from # to /\ own[from] = own[to] /\ Transfers(from, to, c[2])
<1>1. c[1] \in Sectors /\ c[2] \in Commodities /\ group.centre \in Sectors
  BY VisitMoves, GroupTyped
<1>2. CASE Deliver(c)
  <2>1. stage = "deliver" /\ DeliverFrom(c[1], c[2])
    BY <1>2 DEF Deliver, Visit
  <2> QED
    BY <1>1, <2>1, DeliverTransfers DEF Directed
<1>3. stage \in {"export", "import"} => c[1] # group.centre /\ own[c[1]] = own[group.centre]
  BY DEF OneOwner, GroupCells
<1>4. CASE Export(c)
  <2>1. stage = "export" /\ ExportFrom(c[1], c[2])
    BY <1>4 DEF Export, Visit
  <2> QED
    BY <1>1, <1>3, <2>1, ExportTransfers
<1>5. CASE Import(c)
  <2>1. stage = "import" /\ ImportTo(c[1], c[2])
    BY <1>5 DEF Import, Visit
  <2> QED
    BY <1>1, <1>3, <2>1, ImportTransfers
<1> QED
  BY <1>2, <1>4, <1>5

\* Countries and plans change in no update.
LEMMA UpdateKeepsPlans ==
    ASSUME Update
    PROVE  UNCHANGED <<own, threshold, path, centre, goods>>
BY DEF Update, BeginDelivery, FormGroups, ImportPass, EndGroup, EndUpdate,
       Deliver, Export, Import, Visit, NextGroup, plans, distributionHistory

LEMMA OneOwnerInit == DistributionInit => OneOwner
BY DEF DistributionInit, OneOwner

LEMMA OneOwnerStep ==
    ASSUME OneOwner, [DistributionNext]_distributionVars
    PROVE  OneOwner'
<1>1. CASE UNCHANGED distributionVars
  BY <1>1 DEF distributionVars, plans, OneOwner, GroupCells, Owned
<1>2. CASE \E s \in Sectors : Command(s)
  <2>1. stage' = "idle"
    BY <1>2 DEF Command, SetThreshold, SetDelivery, Distribute, GiveOrder
  <2> QED
    BY <2>1 DEF OneOwner
<1>3. CASE Update
  <2> USE UpdateKeepsPlans DEF OneOwner, GroupCells, Owned
  <2>1. CASE BeginDelivery \/ FormGroups \/ EndGroup \/ EndUpdate
    BY <2>1 DEF BeginDelivery, FormGroups, EndGroup, EndUpdate
  <2>2. CASE ImportPass
    BY <1>3, <2>2 DEF ImportPass
  <2>3. ASSUME NEW g \in groups, NextGroup(g)
        PROVE  OneOwner'
    BY <1>3, <2>3 DEF NextGroup
  <2>4. ASSUME NEW c \in pending, Deliver(c) \/ Export(c) \/ Import(c)
        PROVE  OneOwner'
    BY <1>3, <2>4 DEF Deliver, Export, Import, Visit
  <2> QED
    BY <1>3, <2>1, <2>2, <2>3, <2>4 DEF Update
<1> QED
  BY <1>1, <1>2, <1>3 DEF DistributionNext

\* Goods move between the sectors of one country only, and none appear or vanish.
THEOREM GoodsAreConserved == DistributionSpec => []GoodsConserved
<1>1. DistributionInit => GoodsConserved
  BY DEF DistributionInit, GoodsConserved
<1>2. ASSUME DistributionTypeOK, Directed, OneOwner, GoodsConserved, [DistributionNext]_distributionVars
      PROVE  GoodsConserved'
  <2>1. own' = own /\ goods' = goods
    <3>1. CASE Update
      BY <3>1, UpdateKeepsPlans
    <3>2. CASE ~Update
      BY <1>2, <3>2 DEF DistributionNext, Command, SetThreshold, SetDelivery, Distribute, GiveOrder, distributionVars, plans, distributionHistory
    <3> QED
      BY <3>1, <3>2
  <2>2. ASSUME NEW n, NEW i \in Commodities
        PROVE  Holdings(n, i, stock') = Holdings(n, i, stock)
    <3>1. CASE stock' = stock
      BY <3>1
    <3>2. CASE stock' # stock
      <4>1. PICK c \in pending : Deliver(c) \/ Export(c) \/ Import(c)
        BY <1>2, <3>2, StockStep
      <4>2. PICK from \in Sectors, to \in Sectors :
              from # to /\ own[from] = own[to] /\ Transfers(from, to, c[2])
        BY <1>2, <3>2, <4>1, VisitTransfers
      <4>3. PICK a \in Int :
              stock' = [stock EXCEPT ![from][c[2]] = @ - a, ![to][c[2]] = @ + a]
        BY <3>2, <4>2 DEF Transfers
      <4>4. c[2] \in Commodities /\ StocksTyped /\ own \in [Sectors -> Nat]
        BY <1>2, <4>1, VisitMoves, TypedRows DEF DistributionTypeOK
      <4> QED
        BY <2>2, <4>2, <4>3, <4>4, TransferConserves
    <3> QED
      BY <3>1, <3>2
  <2>3. ASSUME NEW n, NEW i \in Commodities
        PROVE  /\ Holdings(n, i, stock)' = Holdings(n, i, stock')
               /\ Holdings(n, i, goods)' = Holdings(n, i, goods)
    BY <2>1 DEF Holdings
  <2> QED
    BY <1>2, <2>1, <2>2, <2>3 DEF GoodsConserved
<1> QED
  BY <1>1, <1>2, OneOwnerInit, OneOwnerStep, Typing, PTL DEF DistributionSpec

-----------------------------------------------------------------------------
(***************************************************************************)
(* What a pass leaves undone.  A cell it has visited is met, or an         *)
(* obstacle stands before it, and the visits to the other cells remove no  *)
(* obstacle: in the export pass the centre only fills, in the import pass  *)
(* it only empties, and mobility is only spent.                            *)
(***************************************************************************)
VisitsSettled ==
    stage \in {"export", "import"} =>
        \A c \in GroupCells(group) \ pending : Unmet(c[1], c[2]) => Obstacle(c[1], c[2])

Spent == \A t \in Sectors : mobil'[t] <= mobil[t]

LEMMA Associates == \A a, b, c \in Int : a * b * c = a * (b * c)
OBVIOUS

LEMMA ProductsGrow ==
    ASSUME NEW a \in Int, NEW b \in Int, NEW n \in Nat, a <= b
    PROVE  a * n <= b * n
OBVIOUS

\* A quotient of nothing: the dividend is less than the divisor.
LEMMA NoQuotient ==
    ASSUME NEW a \in Nat, NEW b \in Nat \ {0}, a \div b = 0
    PROVE  a < b
OBVIOUS

\* Unless all that is wanted is carried, the goal is full, or what mobility
\* is left does not carry a unit.
LEMMA CarryOutcome ==
    ASSUME StocksTyped, NEW from \in Sectors, NEW to \in Sectors, from # to, NEW i \in Commodities,
           NEW payer \in Sectors, NEW want \in Int, want > 0,
           NEW load \in Nat \ {0}, NEW cap \in Nat \ {0},
           Convey(from, to, i, payer, want, load, cap)
    PROVE  /\ Spent
           /\ \/ /\ stock'[from][i] = stock[from][i] - want
                 /\ stock'[to][i] = stock[to][i] + want
              \/ stock'[to][i] >= ItemMax
              \/ Mobility(payer)' * cap < load
<1> DEFINE amount == Amount(payer, want, load, cap)
           room   == Room(to, i)
           actual == Lesser(amount, room)
           charge == Charge(payer, want, load, cap)
           m      == Mobility(payer)
<1>1. /\ amount \in Int /\ amount <= want
      /\ amount > 0 => charge \in Int /\ 0 <= charge /\ charge <= mobil[payer]
  BY CarriedIsPaid
<1>2. room \in Int /\ room = ItemMax - stock[to][i]
  BY DistributionConstants DEF Room, StocksTyped
<1>3. actual \in Int /\ actual <= amount /\ actual = IF amount <= room THEN amount ELSE room
  BY <1>1, <1>2 DEF Lesser
<1>4. IF actual > 0
      THEN /\ stock' = [stock EXCEPT ![from][i] = @ - actual, ![to][i] = @ + actual]
           /\ mobil' = [mobil EXCEPT ![payer] = @ - charge]
      ELSE stock' = stock /\ mobil' = mobil
  BY DEF Convey
<1>5. m \in Nat /\ (m > 0 => m = mobil[payer])
  BY DEF Mobility, StocksTyped
<1>6. ~Affordable(payer, want, load, cap) => amount = (m * cap) \div load /\ charge = m
  BY DEF Amount, Charge
<1>7. Affordable(payer, want, load, cap) => amount = want
  BY DEF Amount
<1>8. m * cap \in Nat
  BY <1>5, NaturalProducts
<1>9. Mobility(payer)' = IF mobil'[payer] > 0 THEN mobil'[payer] ELSE 0
  BY DEF Mobility
<1>10. mobil' = mobil => Mobility(payer)' = m
  BY DEF Mobility
<1>11. stock[to][i] \in Int /\ stock[from][i] \in Int /\ ItemMax \in Int
       /\ \A t \in Sectors : mobil[t] \in Int
  BY DistributionConstants DEF StocksTyped
<1> HIDE DEF amount, room, actual, charge, m
<1>12. Spent
  <2>1. CASE actual > 0
    BY <1>1, <1>3, <1>4, <1>11, <2>1 DEF Spent, StocksTyped
  <2>2. CASE ~(actual > 0)
    BY <1>4, <1>11, <2>2 DEF Spent
  <2> QED
    BY <2>1, <2>2
<1>13. actual > 0 => /\ stock'[from][i] = stock[from][i] - actual
                     /\ stock'[to][i] = stock[to][i] + actual
                     /\ mobil'[payer] = mobil[payer] - charge
  BY <1>3, <1>4 DEF StocksTyped
<1>14. CASE ~(amount <= room)
  <2>1. stock'[to][i] >= ItemMax
    BY <1>1, <1>2, <1>3, <1>4, <1>11, <1>13, <1>14
  <2> QED
    BY <1>12, <2>1
<1>15. CASE amount <= room /\ Affordable(payer, want, load, cap)
  <2>1. /\ stock'[from][i] = stock[from][i] - want
        /\ stock'[to][i] = stock[to][i] + want
    BY <1>3, <1>7, <1>13, <1>15
  <2> QED
    BY <1>12, <2>1
<1>16. CASE amount <= room /\ ~Affordable(payer, want, load, cap)
  <2>1. amount = (m * cap) \div load /\ actual = amount /\ amount \in Nat
    BY <1>3, <1>6, <1>8, <1>16, NaturalQuotient
  <2>2. CASE amount > 0
    <3>1. m > 0
      <4>1. ASSUME m = 0 PROVE amount = 0
        <5>1. m * cap = 0
          BY <4>1
        <5>2. 0 \div load = 0
          OBVIOUS
        <5> QED
          BY <2>1, <5>1, <5>2
      <4> QED
        BY <1>5, <2>2, <4>1
    <3>2. mobil'[payer] = 0
      BY <1>5, <1>6, <1>11, <1>13, <1>16, <2>1, <2>2, <3>1
    <3>3. Mobility(payer)' * cap = 0
      BY <1>9, <3>2
    <3> QED
      BY <1>12, <3>3
  <2>3. CASE amount = 0
    <3>1. m * cap < load
      BY <1>8, <2>1, <2>3, NoQuotient
    <3>2. Mobility(payer)' = m
      BY <1>4, <1>10, <2>1, <2>3
    <3> QED
      BY <1>12, <3>1, <3>2
  <2> QED
    BY <2>1, <2>2, <2>3
<1> QED
  BY <1>14, <1>15, <1>16

\* A visit leaves alone what the costs of paths and the cells of a pass depend on.
SamePlans == UNCHANGED <<own, threshold, path, centre, stage, group>>

LEMMA SamePaths ==
    ASSUME SamePlans, NEW s
    PROVE  /\ PathCosts(group.centre, s)' = PathCosts(group.centre, s)
           /\ \A k : IsPathCost(k, group.centre, s)' <=> IsPathCost(k, group.centre, s)
<1>1. own' = own /\ group' = group
  BY DEF SamePlans
<1>2. PathCosts(group.centre, s)' = PathCosts(group.centre, s)
  BY <1>1 DEF PathCosts, Walks
<1> QED
  BY <1>2 DEF IsPathCost

LEMMA SameCells ==
    ASSUME SamePlans
    PROVE  GroupCells(group)' = GroupCells(group)
BY DEF SamePlans, GroupCells, Owned

\* The mobility left does not carry a unit of the item along the path.
LEMMA StuckAfter ==
    ASSUME DistributionTypeOK', SamePlans, NEW s \in Sectors, NEW i \in Commodities, NEW k \in Nat,
           IsPathCost(k, group.centre, s),
           Mobility(s)' * (Pack[s][i] * DistBonus) < Weight[i] * k
    PROVE  Stuck(s, i)'
<1>1. Mobility(s)' \in Int
  BY DEF Mobility, DistributionTypeOK
<1>2. Pack[s][i] \in Int /\ DistBonus \in Int
  BY DistributionAssumption
<1>3. Mobility(s)' * Pack[s][i] * DistBonus = Mobility(s)' * (Pack[s][i] * DistBonus)
  BY <1>1, <1>2, Associates
<1>4. k \in PathCosts(group.centre, s)' /\ IsPathCost(k, group.centre, s)'
  BY SamePaths DEF IsPathCost
<1> QED
  BY <1>3, <1>4 DEF Stuck

\* Less mobility carries no further.
LEMMA StuckStays ==
    ASSUME DistributionTypeOK, DistributionTypeOK', SamePlans, Spent, NEW s \in Sectors, NEW i \in Commodities, Stuck(s, i)
    PROVE  Stuck(s, i)'
<1>1. PICK k \in PathCosts(group.centre, s) :
        /\ IsPathCost(k, group.centre, s)
        /\ Mobility(s) * Pack[s][i] * DistBonus < Weight[i] * k
  BY DEF Stuck
<1>2. Mobility(s) \in Int /\ Mobility(s)' \in Int /\ Mobility(s)' <= Mobility(s)
  BY DEF Mobility, DistributionTypeOK, Spent
<1>3. /\ Pack[s][i] \in Int /\ DistBonus \in Int /\ Pack[s][i] * DistBonus \in Nat
      /\ Weight[i] \in Nat /\ k \in Nat
  BY DistributionConstants, DistributionAssumption DEF PathCosts
<1> DEFINE cap == Pack[s][i] * DistBonus
           load == Weight[i] * k
           m == Mobility(s)
           n == Mobility(s)'
<1>4. m * cap < load /\ n * cap <= m * cap
  BY <1>1, <1>2, <1>3, Associates, ProductsGrow
<1>5. m * cap \in Int /\ n * cap \in Int /\ load \in Int
  BY <1>2, <1>3, NaturalProducts
<1>6. n * cap < load
  <2> HIDE DEF cap, load, m, n
  <2> QED
    BY <1>4, <1>5
<1> QED
  BY <1>1, <1>3, <1>6, StuckAfter

\* The cell an export pass visits.
LEMMA ExportOutcome ==
    ASSUME DistributionTypeOK, DistributionTypeOK', SamePlans, stage = "export", NEW s \in Sectors, NEW i \in Commodities,
           s # group.centre, ExportFrom(s, i)
    PROVE  Spent /\ (Unmet(s, i)' => Obstacle(s, i)')
<1>1. group' = group /\ stage' = "export" /\ threshold' = threshold /\ group.centre \in Sectors
  BY GroupTyped DEF SamePlans
<1>2. CASE UNCHANGED <<stock, mobil>> /\ (Surplus(s, i) <= 0 \/ PathCosts(group.centre, s) = {})
  <2>1. Spent
    BY <1>2 DEF Spent, DistributionTypeOK
  <2>2. CASE Surplus(s, i) <= 0
    <3>1. Surplus(s, i)' = Surplus(s, i)
      BY <1>1, <1>2 DEF Surplus
    <3> QED
      BY <1>1, <2>1, <2>2, <3>1, SurplusTyped DEF Unmet
  <2>3. CASE PathCosts(group.centre, s) = {}
    BY <2>1, <2>3, SamePaths DEF Obstacle
  <2> QED
    BY <1>2, <2>2, <2>3
<1>3. ASSUME NEW k \in PathCosts(group.centre, s), IsPathCost(k, group.centre, s), k > 0,
             Surplus(s, i) > 0,
             Convey(s, group.centre, i, s, Surplus(s, i), Weight[i] * k, Pack[s][i] * DistBonus)
      PROVE  Spent /\ (Unmet(s, i)' => Obstacle(s, i)')
  <2>1. Weight[i] * k \in Nat \ {0} /\ Pack[s][i] * DistBonus \in Nat \ {0} /\ k \in Nat
    BY <1>3, PathLoad, DistributionConstants DEF PathCosts
  <2>2. /\ Spent
        /\ \/ stock'[s][i] = stock[s][i] - Surplus(s, i)
           \/ stock'[group.centre][i] >= ItemMax
           \/ Mobility(s)' * (Pack[s][i] * DistBonus) < Weight[i] * k
    BY <1>1, <1>3, <2>1, CarryOutcome, TypedRows, SurplusTyped
  <2>3. CASE stock'[s][i] = stock[s][i] - Surplus(s, i)
    <3>1. Surplus(s, i)' = stock'[s][i] - threshold[s][i]
      BY <1>1 DEF Surplus
    <3>2. stock[s][i] \in Int /\ threshold[s][i] \in Int
      BY DEF DistributionTypeOK
    <3>3. Surplus(s, i)' = 0
      BY <2>3, <3>1, <3>2, SurplusTyped
    <3> QED
      BY <1>1, <2>2, <3>3 DEF Unmet
  <2>4. CASE stock'[group.centre][i] >= ItemMax
    <3>1. stock'[group.centre][i] \in Int /\ ItemMax \in Int
      BY <1>1, DistributionConstants DEF DistributionTypeOK
    <3>2. Room(group.centre, i)' <= 0
      BY <1>1, <2>4, <3>1 DEF Room
    <3> QED
      BY <1>1, <2>2, <3>2 DEF Obstacle
  <2>5. CASE Mobility(s)' * (Pack[s][i] * DistBonus) < Weight[i] * k
    <3>1. Stuck(s, i)'
      BY <1>3, <2>1, <2>5, StuckAfter
    <3> QED
      BY <2>2, <3>1 DEF Obstacle
  <2> QED
    BY <2>2, <2>3, <2>4, <2>5
<1> QED
  BY <1>2, <1>3 DEF ExportFrom

\* The cell an import pass visits.
LEMMA ImportOutcome ==
    ASSUME DistributionTypeOK, DistributionTypeOK', SamePlans, stage = "import", NEW s \in Sectors, NEW i \in Commodities,
           s # group.centre, ImportTo(s, i)
    PROVE  Spent /\ (Unmet(s, i)' => Obstacle(s, i)')
<1> DEFINE held == stock[group.centre][i]
<1>1. group' = group /\ stage' = "import" /\ threshold' = threshold /\ group.centre \in Sectors
  BY GroupTyped DEF SamePlans
<1>2. Surplus(s, i)' = stock'[s][i] - threshold[s][i]
  BY <1>1 DEF Surplus
<1>3. /\ Surplus(s, i) \in Int /\ Surplus(s, i) = stock[s][i] - threshold[s][i]
      /\ stock[s][i] \in Int /\ threshold[s][i] \in Int /\ held \in Int
  BY <1>1, SurplusTyped DEF DistributionTypeOK
<1>4. CASE UNCHANGED <<stock, mobil>>
           /\ (Surplus(s, i) >= 0 \/ held <= 0 \/ PathCosts(group.centre, s) = {})
  <2>1. Spent
    BY <1>4 DEF Spent, DistributionTypeOK
  <2>2. CASE Surplus(s, i) >= 0
    <3>1. Surplus(s, i)' = Surplus(s, i)
      BY <1>2, <1>3, <1>4
    <3> QED
      BY <1>1, <1>3, <2>1, <2>2, <3>1 DEF Unmet
  <2>3. CASE held <= 0
    BY <1>1, <1>4, <2>1, <2>3 DEF Obstacle
  <2>4. CASE PathCosts(group.centre, s) = {}
    BY <2>1, <2>4, SamePaths DEF Obstacle
  <2> QED
    BY <1>4, <2>2, <2>3, <2>4
<1>5. ASSUME NEW k \in PathCosts(group.centre, s), IsPathCost(k, group.centre, s), k > 0,
             Surplus(s, i) < 0, held > 0,
             Convey(group.centre, s, i, s, Wanted(s, i), Weight[i] * k, Pack[s][i] * DistBonus)
      PROVE  Spent /\ (Unmet(s, i)' => Obstacle(s, i)')
  <2>1. Weight[i] * k \in Nat \ {0} /\ Pack[s][i] * DistBonus \in Nat \ {0} /\ k \in Nat
    BY <1>5, PathLoad, DistributionConstants DEF PathCosts
  <2>2. /\ Wanted(s, i) \in Int /\ Wanted(s, i) > 0
        /\ Wanted(s, i) = -Surplus(s, i) \/ Wanted(s, i) = held
    BY <1>3, <1>5 DEF Wanted, Lesser
  <2>3. /\ Spent
        /\ \/ /\ stock'[group.centre][i] = stock[group.centre][i] - Wanted(s, i)
              /\ stock'[s][i] = stock[s][i] + Wanted(s, i)
           \/ stock'[s][i] >= ItemMax
           \/ Mobility(s)' * (Pack[s][i] * DistBonus) < Weight[i] * k
    BY <1>1, <1>5, <2>1, <2>2, CarryOutcome, TypedRows
  <2>4. CASE /\ stock'[group.centre][i] = stock[group.centre][i] - Wanted(s, i)
             /\ stock'[s][i] = stock[s][i] + Wanted(s, i)
    <3>1. CASE Wanted(s, i) = -Surplus(s, i)
      <4>1. Surplus(s, i)' = 0
        BY <1>2, <1>3, <2>4, <3>1
      <4> QED
        BY <1>1, <2>3, <4>1 DEF Unmet
    <3>2. CASE Wanted(s, i) = held
      <4>1. stock'[group.centre][i] = 0
        BY <1>3, <2>4, <3>2
      <4> QED
        BY <1>1, <2>3, <4>1 DEF Obstacle
    <3> QED
      BY <2>2, <3>1, <3>2
  <2>5. CASE stock'[s][i] >= ItemMax
    <3>1. stock'[s][i] \in Int /\ ItemMax \in Int
      BY DistributionConstants DEF DistributionTypeOK
    <3>2. Room(s, i)' <= 0
      BY <2>5, <3>1 DEF Room
    <3> QED
      BY <1>1, <2>3, <3>2 DEF Obstacle
  <2>6. CASE Mobility(s)' * (Pack[s][i] * DistBonus) < Weight[i] * k
    <3>1. Stuck(s, i)'
      BY <1>5, <2>1, <2>6, StuckAfter
    <3> QED
      BY <2>3, <3>1 DEF Obstacle
  <2> QED
    BY <2>3, <2>4, <2>5, <2>6
<1> QED
  BY <1>4, <1>5 DEF ImportTo

\* What a visit does to the cells visited before.
LEMMA ObstaclesStay ==
    ASSUME DistributionTypeOK, DistributionTypeOK', SamePlans, Spent, NEW c \in Cells, NEW d \in Cells, d # c,
           stage \in {"export", "import"}, c[1] # group.centre, d[1] # group.centre,
           stage = "export" => Moves(c[1], group.centre, c[2], Surplus(c[1], c[2])),
           stage = "import" => Moves(group.centre, c[1], c[2], Wanted(c[1], c[2])),
           Unmet(d[1], d[2]) => Obstacle(d[1], d[2]), Unmet(d[1], d[2])'
    PROVE  Obstacle(d[1], d[2])'
<1> DEFINE s == d[1]
           i == d[2]
           g == group.centre
<1>1. /\ s \in Sectors /\ i \in Commodities /\ g \in Sectors
      /\ s # c[1] \/ i # c[2]
  BY GroupTyped DEF Cells
<1>2. stage' = stage /\ group' = group /\ threshold' = threshold
  BY DEF SamePlans
<1>3. stock[s][i] \in Int /\ stock'[s][i] \in Int /\ stock[g][i] \in Int /\ stock'[g][i] \in Int
      /\ ItemMax \in Int
  <2>1. stock \in [Sectors -> [Commodities -> Int]] /\ stock' \in [Sectors -> [Commodities -> Int]]
    BY DEF DistributionTypeOK
  <2>2. \A t \in Sectors, j \in Commodities : stock[t][j] \in Int /\ stock'[t][j] \in Int
    BY <2>1
  <2> HIDE DEF s, i, g
  <2> QED
    BY <1>1, <2>2, DistributionConstants
<1>4. /\ stock'[s][i] = stock[s][i]
      /\ stage = "export" => stock'[g][i] >= stock[g][i]
      /\ stage = "import" => stock'[g][i] <= stock[g][i]
  <2>1. CASE stage = "export"
    <3>1. Moves(c[1], g, c[2], Surplus(c[1], c[2]))
      BY <2>1
    <3>2. stock'[s][i] = stock[s][i]
      BY <1>1, <3>1 DEF Moves
    <3>3. stock'[g][i] >= stock[g][i] \/ g = c[1]
      BY <1>1, <1>3, <3>1 DEF Moves
    <3> QED
      BY <2>1, <3>2, <3>3
  <2>2. CASE stage = "import"
    <3>1. Moves(g, c[1], c[2], Wanted(c[1], c[2]))
      BY <2>2
    <3>2. stock'[s][i] = stock[s][i]
      BY <1>1, <3>1 DEF Moves
    <3>3. stock'[g][i] <= stock[g][i] \/ g = c[1]
      BY <1>1, <1>3, <3>1 DEF Moves
    <3> QED
      BY <2>2, <3>2, <3>3
  <2> QED
    BY <2>1, <2>2
<1>5. Surplus(s, i)' = Surplus(s, i)
  BY <1>2, <1>4 DEF Surplus
<1>6. Obstacle(s, i)
  BY <1>2, <1>5 DEF Unmet
<1>7. CASE PathCosts(g, s) = {}
  BY <1>7, SamePaths DEF Obstacle
<1>8. CASE Stuck(s, i)
  BY <1>1, <1>8, StuckStays DEF Obstacle
<1>9. CASE stage = "export" /\ Room(g, i) <= 0
  <2>1. Room(g, i)' <= 0
    BY <1>2, <1>3, <1>4, <1>9 DEF Room
  <2> QED
    BY <1>2, <1>9, <2>1 DEF Obstacle
<1>10. CASE stage = "import" /\ stock[g][i] <= 0
  <2>1. stock'[g][i] <= 0
    BY <1>3, <1>4, <1>10
  <2> QED
    BY <1>2, <1>10, <2>1 DEF Obstacle
<1>11. CASE stage = "import" /\ Room(s, i) <= 0
  <2>1. Room(s, i)' <= 0
    BY <1>4, <1>11 DEF Room
  <2> QED
    BY <1>2, <1>11, <2>1 DEF Obstacle
<1> QED
  BY <1>6, <1>7, <1>8, <1>9, <1>10, <1>11 DEF Obstacle

LEMMA VisitedInit == DistributionInit => VisitsSettled
BY DEF DistributionInit, VisitsSettled

LEMMA VisitKeepsVisited ==
    ASSUME DistributionTypeOK, DistributionTypeOK', Directed, OneOwner, VisitsSettled, NEW c \in pending, Export(c) \/ Import(c)
    PROVE  VisitsSettled'
<1>1. SamePlans /\ pending' = pending \ {c} /\ stage \in {"export", "import"}
  BY DEF SamePlans, Export, Import, Visit, plans
<1>2. c \in Cells /\ c[1] \in Sectors /\ c[2] \in Commodities /\ c[1] # group.centre
  BY <1>1, VisitMoves DEF DistributionTypeOK, OneOwner, GroupCells
<1>3. Spent /\ (Unmet(c[1], c[2])' => Obstacle(c[1], c[2])')
  <2>1. CASE stage = "export"
    <3>1. ExportFrom(c[1], c[2])
      BY <2>1 DEF Export, Import, Visit
    <3> QED
      BY <1>1, <1>2, <2>1, <3>1, ExportOutcome
  <2>2. CASE stage = "import"
    <3>1. ImportTo(c[1], c[2])
      BY <2>2 DEF Export, Import, Visit
    <3> QED
      BY <1>1, <1>2, <2>2, <3>1, ImportOutcome
  <2> QED
    BY <1>1, <2>1, <2>2
<1>4. /\ stage = "export" => Moves(c[1], group.centre, c[2], Surplus(c[1], c[2]))
      /\ stage = "import" => Moves(group.centre, c[1], c[2], Wanted(c[1], c[2]))
  BY <1>2, ExportMoves, ImportMoves DEF Export, Import, Visit
<1>5. ASSUME NEW d \in GroupCells(group) \ pending', Unmet(d[1], d[2])'
      PROVE  Obstacle(d[1], d[2])'
  <2>1. CASE d = c
    BY <1>3, <1>5, <2>1
  <2>2. CASE d # c
    <3>1. d \in Cells /\ d \in GroupCells(group) \ pending /\ d[1] # group.centre
      BY <1>1, <1>5, <2>2 DEF GroupCells
    <3>2. Unmet(d[1], d[2]) => Obstacle(d[1], d[2])
      BY <1>1, <3>1 DEF VisitsSettled
    <3> QED
      BY <1>1, <1>2, <1>3, <1>4, <1>5, <2>2, <3>1, <3>2, ObstaclesStay
  <2> QED
    BY <2>1, <2>2
<1> QED
  BY <1>1, <1>5, SameCells DEF VisitsSettled

LEMMA VisitedStep ==
    ASSUME DistributionTypeOK, DistributionTypeOK', Directed, OneOwner, VisitsSettled, [DistributionNext]_distributionVars
    PROVE  VisitsSettled'
<1>1. CASE UNCHANGED distributionVars
  <2>1. SamePlans /\ UNCHANGED <<stock, mobil, pending>> /\ Spent
    BY <1>1 DEF distributionVars, plans, SamePlans, Spent, DistributionTypeOK
  <2>2. GroupCells(group)' = GroupCells(group)
    BY <2>1, SameCells
  <2>3. ASSUME NEW s, NEW i, Unmet(s, i) => Obstacle(s, i)
        PROVE  Unmet(s, i)' => Obstacle(s, i)'
    <3>1. Unmet(s, i)' <=> Unmet(s, i)
      BY <2>1 DEF SamePlans, Unmet, Surplus
    <3>2. Obstacle(s, i) => Obstacle(s, i)'
      <4>1. PathCosts(group.centre, s)' = PathCosts(group.centre, s)
            /\ \A k : IsPathCost(k, group.centre, s)' <=> IsPathCost(k, group.centre, s)
        BY <2>1, SamePaths
      <4>2. Stuck(s, i) => Stuck(s, i)'
        BY <2>1, <4>1 DEF Stuck, Mobility
      <4> QED
        BY <2>1, <4>1, <4>2 DEF SamePlans, Obstacle, Room
    <3> QED
      BY <2>3, <3>1, <3>2
  <2>4. stage' = stage /\ pending' = pending
    BY <2>1 DEF SamePlans
  <2> QED
    BY <2>2, <2>3, <2>4 DEF VisitsSettled
<1>2. CASE \E s \in Sectors : Command(s)
  <2>1. stage' = "idle"
    BY <1>2 DEF Command, SetThreshold, SetDelivery, Distribute, GiveOrder
  <2> QED
    BY <2>1 DEF VisitsSettled
<1>3. CASE Update
  <2>1. CASE BeginDelivery \/ FormGroups \/ EndGroup \/ EndUpdate
    BY <2>1 DEF BeginDelivery, FormGroups, EndGroup, EndUpdate, VisitsSettled
  <2>2. CASE ImportPass
    <3>1. GroupCells(group)' = GroupCells(group) /\ pending' = GroupCells(group)
      BY <1>3, <2>2, UpdateKeepsPlans DEF ImportPass, GroupCells, Owned
    <3> QED
      BY <3>1 DEF VisitsSettled
  <2>3. ASSUME NEW g \in groups, NextGroup(g)
        PROVE  VisitsSettled'
    <3>1. CASE own[g.centre] = g.own
      <4>1. GroupCells(group)' = pending'
        BY <1>3, <2>3, <3>1, UpdateKeepsPlans DEF NextGroup, GroupCells, Owned
      <4> QED
        BY <4>1 DEF VisitsSettled
    <3>2. CASE own[g.centre] # g.own
      BY <2>3, <3>2 DEF NextGroup, VisitsSettled
    <3> QED
      BY <3>1, <3>2
  <2>4. ASSUME NEW c \in pending, Deliver(c)
        PROVE  VisitsSettled'
    BY <2>4 DEF Deliver, Visit, VisitsSettled
  <2> QED
    BY <1>3, <2>1, <2>2, <2>3, <2>4, VisitKeepsVisited DEF Update
<1> QED
  BY <1>1, <1>2, <1>3 DEF DistributionNext

\* A pass that ends has left a surplus or a lack only before an obstacle:
\* a centre that is full or has nothing, a sector that is full or cannot be
\* reached, or one without the mobility for a single unit.
THEOREM PassesAreComplete == DistributionSpec => PassComplete
<1>1. ASSUME VisitsSettled, [DistributionNext]_distributionVars, stage' # stage, stage \in {"export", "import"}
      PROVE  \A c \in GroupCells(group) : Unmet(c[1], c[2]) => Obstacle(c[1], c[2])
  <2>1. pending = {}
    <3>1. Update
      BY <1>1 DEF DistributionNext, distributionVars, Command, SetThreshold, SetDelivery, Distribute, GiveOrder
    <3> QED
      BY <1>1, <3>1 DEF Update, BeginDelivery, FormGroups, ImportPass, EndGroup, EndUpdate,
         Deliver, Export, Import, Visit, NextGroup
  <2> QED
    BY <1>1, <2>1 DEF VisitsSettled
<1>2. VisitsSettled /\ [DistributionNext]_distributionVars =>
        [stage' # stage /\ (stage = "export" \/ stage = "import") =>
           \A c \in GroupCells(group) : Unmet(c[1], c[2]) => Obstacle(c[1], c[2])]_stage
  BY <1>1
<1>3. DistributionTypeOK /\ DistributionTypeOK' /\ Directed /\ OneOwner /\ VisitsSettled /\ [DistributionNext]_distributionVars => VisitsSettled'
  BY VisitedStep
<1> QED
  BY <1>2, <1>3, VisitedInit, OneOwnerInit, OneOwnerStep, Typing, PTL DEF DistributionSpec, PassComplete
=============================================================================
