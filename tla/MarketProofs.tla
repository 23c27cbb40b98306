---------------------------- MODULE MarketProofs ----------------------------
(***************************************************************************)
(* Proofs about module Market, for any number of players, lots, amounts    *)
(* and prices, and however many database calls fail.                       *)
(***************************************************************************)
EXTENDS Market, SetLemmas

-----------------------------------------------------------------------------
(* Arithmetic *)

LEMMA Product == \A a, b \in Nat : a * b \in Nat
OBVIOUS

LEMMA Halves ==
    ASSUME NEW n \in Nat
    PROVE  /\ n \div 2 \in Nat
           /\ \A m \in Int : 2 * m >= n => m - n \div 2 >= 0
<1>1. n \div 2 \in Int /\ n \div 2 >= 0 /\ 2 * (n \div 2) <= n
  OBVIOUS
<1> QED
  BY <1>1

\* The truncated price of a lot is a number of dollars that a treasury which
\* passed the check can pay.
LEMMA CostAffordable ==
    ASSUME NEW l \in Lot
    PROVE  /\ Cost(l) \in Nat
           /\ l.amount * l.price \in Nat
           /\ \A m \in Int : 2 * m >= l.amount * l.price => m - Cost(l) >= 0
<1>1. l.amount \in Nat /\ l.price \in Nat
  <2>1. l.amount \in 1..MaxItem /\ l.price \in Prices
    BY DEF Lot
  <2>2. MaxItem \in Nat /\ Prices \subseteq Nat
    BY MarketAssumption
  <2>3. l.amount \in Nat
    BY <2>1, <2>2
  <2>4. l.price \in Nat
    BY <2>1, <2>2
  <2> QED
    BY <2>3, <2>4
<1>2. l.amount * l.price \in Nat
  BY <1>1, Product
<1> DEFINE n == l.amount * l.price
<1>3. Cost(l) = n \div 2 /\ n \in Nat
  BY <1>2 DEF Cost
<1> HIDE DEF n
<1>4. Cost(l) \in Nat /\ \A m \in Int : 2 * m >= n => m - Cost(l) >= 0
  BY <1>3, Halves
<1> QED
  BY <1>2, <1>4 DEF n

LEMMA LotBought ==
    ASSUME NEW l \in Lot, NEW p \in Players
    PROVE  [l EXCEPT !.bought = TRUE, !.buyer = p] \in Lot
BY DEF Lot

-----------------------------------------------------------------------------
(***************************************************************************)
(* The inductive invariant.  Every put is computed from copies that passed *)
(* a check when they were made: a copy of the buyer's treasury that covers *)
(* the price, a copy of the stock that leaves room for the goods or has    *)
(* the goods that are listed.  The row itself may be another by then.      *)
(***************************************************************************)
Types ==
    /\ money \in [Players -> Int]
    /\ stock \in [Players -> Int]
    /\ lots \in [Uids -> Lot \cup {NoLot}]
    /\ day \in Nat
    /\ pc \in [Players -> {"idle"} \cup BuyCalls \cup SellCalls]
    /\ uid \in [Players -> Uids]
    /\ lot \in [Players -> Lot \cup {NoLot}]
    /\ buyer \in [Players -> Int] /\ seller \in [Players -> Int]
    /\ goods \in [Players -> Int]
    /\ kpc \in {"idle", "work", "refund", "delete"}
    /\ todo \subseteq [uid: Uids, lot: Lot]
    /\ purse \in Int

Copied(p) ==
    /\ pc[p] # "idle" => lot[p] \in Lot
    /\ pc[p] \in {"seller", "sector", "debit"} =>
          2 * buyer[p] >= lot[p].amount * lot[p].price
    /\ pc[p] \in {"sector", "debit", "credit"} => seller[p] >= 0
    /\ pc[p] \in {"debit", "credit", "deliver"} =>
          goods[p] >= 0 /\ goods[p] + lot[p].amount <= MaxItem
    /\ pc[p] \in {"deduct", "uid", "list", "rollback"} =>
          lot[p].amount <= goods[p] /\ goods[p] <= MaxItem

Inv ==
    /\ Types
    /\ NoOverdraft
    /\ StockInRange
    /\ \A p \in Players : Copied(p)
    /\ kpc = "refund" => purse >= 0

USE MarketAssumption

LEMMA InvInit == Init => Inv
BY DEF Init, Inv, Types, NoOverdraft, StockInRange, Copied, Uids, BuyCalls, SellCalls

\* A command changes its own copies only.
LocalTo(p) ==
    \A q \in Players \ {p} :
        /\ pc'[q] = pc[q] /\ lot'[q] = lot[q] /\ buyer'[q] = buyer[q]
        /\ seller'[q] = seller[q] /\ goods'[q] = goods[q]

LEMMA CopiedByOthers ==
    ASSUME Inv, NEW p \in Players, LocalTo(p), Copied(p)'
    PROVE  \A q \in Players : Copied(q)'
BY DEF Inv, LocalTo, Copied

\* A step that reads rows into the copies of p, or fails.
ReadsFor(p) ==
    /\ UNCHANGED <<money, stock, lots, day, kpc, todo, purse>>
    /\ LocalTo(p)
    /\ pc' \in [Players -> {"idle"} \cup BuyCalls \cup SellCalls]
    /\ uid' \in [Players -> Uids]
    /\ lot' \in [Players -> Lot \cup {NoLot}]
    /\ buyer' \in [Players -> Int] /\ seller' \in [Players -> Int]
    /\ goods' \in [Players -> Int]

LEMMA InvReads ==
    ASSUME Inv, NEW p \in Players, ReadsFor(p), Copied(p)'
    PROVE  Inv'
<1>1. Types'
  BY DEF Inv, Types, ReadsFor
<1>2. \A q \in Players : Copied(q)'
  BY CopiedByOthers DEF ReadsFor
<1> QED
  BY <1>1, <1>2 DEF Inv, ReadsFor, NoOverdraft, StockInRange

LEMMA InvBuyLot ==
    ASSUME Inv, NEW p \in Players, NEW u \in Uids, BuyLot(p, u)
    PROVE  Inv'
<1>1. ReadsFor(p)
  BY DEF Inv, Types, BuyLot, ForSaleTo, ReadsFor, LocalTo, Set, GoTo, rows, keeper, BuyCalls
<1>2. Copied(p)'
  BY DEF Inv, Types, BuyLot, ForSaleTo, Copied, Set, GoTo
<1> QED
  BY <1>1, <1>2, InvReads

LEMMA InvBuyBuyer ==
    ASSUME Inv, NEW p \in Players, BuyBuyer(p)
    PROVE  Inv'
<1>1. ReadsFor(p)
  BY DEF Inv, Types, BuyBuyer, ReadsFor, LocalTo, Set, GoTo, rows, keeper, BuyCalls
<1>2. /\ lot[p] \in Lot /\ lot'[p] = lot[p] /\ buyer'[p] = money[p]
      /\ pc'[p] \in {"idle", "seller"}
      /\ pc'[p] = "seller" => ~(2 * money[p] < lot[p].amount * lot[p].price)
  BY DEF Inv, Types, BuyBuyer, Copied, Set, GoTo
<1>3. lot[p].amount * lot[p].price \in Nat /\ money[p] \in Int
  BY <1>2, CostAffordable DEF Inv, Types
<1>4. Copied(p)'
  BY <1>2, <1>3 DEF Copied
<1> QED
  BY <1>1, <1>4, InvReads

LEMMA InvBuySeller ==
    ASSUME Inv, NEW p \in Players, BuySeller(p)
    PROVE  Inv'
<1>1. lot[p] \in Lot /\ lot[p].seller \in Players
  BY DEF Inv, Copied, BuySeller, Lot
<1>2. ReadsFor(p)
  BY <1>1 DEF Inv, Types, BuySeller, ReadsFor, LocalTo, Set, GoTo, rows, keeper, BuyCalls
<1>3. Copied(p)'
  BY <1>1 DEF Inv, Types, BuySeller, Copied, NoOverdraft, Set, GoTo
<1> QED
  BY <1>2, <1>3, InvReads

LEMMA InvBuySector ==
    ASSUME Inv, NEW p \in Players, BuySector(p)
    PROVE  Inv'
<1>1. ReadsFor(p)
  BY DEF Inv, Types, BuySector, ReadsFor, LocalTo, Set, GoTo, rows, keeper, BuyCalls
<1>2. lot[p] \in Lot /\ lot[p].amount \in Nat
  BY DEF Inv, Copied, BuySector, Lot
<1>3. Copied(p)'
  BY <1>2 DEF Inv, Types, BuySector, Copied, StockInRange, Set, GoTo
<1> QED
  BY <1>1, <1>3, InvReads

\* "sell" lists no more than is there.
LEMMA InvSellLoad ==
    ASSUME Inv, NEW p \in Players, NEW a \in Amounts, NEW c \in Prices, SellLoad(p, a, c)
    PROVE  Inv'
<1> DEFINE l == [seller |-> p, amount |-> Min({a, stock[p]}), price |-> c,
                 created |-> day, bought |-> FALSE, buyer |-> p]
<1>1. a \in Nat /\ a > 0
  OBVIOUS
<1>2. stock[p] \in 0..MaxItem /\ stock[p] > 0
  BY DEF Inv, StockInRange, SellLoad
<1>3. Min({a, stock[p]}) \in 1..MaxItem /\ Min({a, stock[p]}) <= stock[p]
  BY <1>1, <1>2, MinOfTwo
<1>4. l \in Lot
  BY <1>3 DEF Lot, Inv, Types
<1>5. l.amount <= stock[p]
  BY <1>3
<1>6. lot' = [lot EXCEPT ![p] = l] /\ goods' = [goods EXCEPT ![p] = stock[p]]
      /\ pc' = [pc EXCEPT ![p] = "deduct"]
  BY DEF SellLoad, Set, GoTo
<1> HIDE DEF l
<1>7. ReadsFor(p)
  <2>1. UNCHANGED <<money, stock, lots, day, kpc, todo, purse, uid, buyer, seller>>
    BY DEF SellLoad, rows, keeper
  <2>2. LocalTo(p)
    BY <1>6, <2>1 DEF Inv, Types, LocalTo
  <2> QED
    BY <1>4, <1>6, <2>1, <2>2 DEF Inv, Types, ReadsFor, SellCalls
<1>8. Copied(p)'
  BY <1>2, <1>4, <1>5, <1>6 DEF Inv, Types, Copied
<1> QED
  BY <1>7, <1>8, InvReads

LEMMA InvReadFails ==
    ASSUME Inv, NEW p \in Players, ReadFails(p)
    PROVE  Inv'
<1>1. ReadsFor(p)
  BY DEF Inv, Types, ReadFails, ReadsFor, LocalTo, GoTo, rows, copies, keeper
<1>2. Copied(p)'
  BY DEF Inv, Types, ReadFails, Copied, GoTo
<1> QED
  BY <1>1, <1>2, InvReads

LEMMA InvSellUid ==
    ASSUME Inv, NEW p \in Players, SellUid(p)
    PROVE  Inv'
<1>1. ReadsFor(p)
  BY DEF Inv, Types, SellUid, ReadsFor, LocalTo, Set, GoTo, rows, keeper, SellCalls
<1>2. Copied(p)'
  BY DEF Inv, Types, SellUid, Copied, Set, GoTo
<1> QED
  BY <1>1, <1>2, InvReads

-----------------------------------------------------------------------------
(* The puts *)

\* A put of a player's command leaves its copies and the market loop alone;
\* what it writes is in range, or nothing is written.
PutsFor(p) ==
    /\ UNCHANGED <<day, uid, lot, buyer, seller, goods, kpc, todo, purse>>
    /\ \E c \in {"idle"} \cup BuyCalls \cup SellCalls : pc' = [pc EXCEPT ![p] = c]

Writes(f, g, S) == g = f \/ \E k \in DOMAIN f, v \in S : g = [f EXCEPT ![k] = v]

LEMMA InvPuts ==
    ASSUME Inv, NEW p \in Players, PutsFor(p), Copied(p)',
           Writes(money, money', Nat), Writes(stock, stock', 0..MaxItem),
           Writes(lots, lots', Lot \cup {NoLot})
    PROVE  Inv'
<1>1. Types'
  BY DEF Inv, Types, PutsFor, Writes
<1>2. NoOverdraft' /\ StockInRange'
  BY DEF Inv, Types, Writes, NoOverdraft, StockInRange
<1>3. \A q \in Players : Copied(q)'
  BY CopiedByOthers DEF Inv, Types, PutsFor, LocalTo
<1> QED
  BY <1>1, <1>2, <1>3 DEF Inv, PutsFor

LEMMA InvDebit ==
    ASSUME Inv, NEW p \in Players, Debit(p)
    PROVE  Inv'
<1>1. lot[p] \in Lot /\ buyer[p] \in Int /\ 2 * buyer[p] >= lot[p].amount * lot[p].price
  BY DEF Inv, Types, Copied, Debit
<1>2. buyer[p] - Cost(lot[p]) \in Nat
  BY <1>1, CostAffordable
<1>3. Writes(money, money', Nat)
  BY <1>2 DEF Debit, BuyPut, Set, Writes, Inv, Types
<1>4. PutsFor(p) /\ UNCHANGED <<stock, lots>>
  BY DEF Debit, GoTo, PutsFor, copies, keeper, BuyCalls
<1>5. Copied(p)'
  BY <1>4 DEF Inv, Types, Debit, Copied, GoTo, PutsFor
<1> QED
  BY <1>3, <1>4, <1>5, InvPuts DEF Writes

LEMMA InvCredit ==
    ASSUME Inv, NEW p \in Players, Credit(p)
    PROVE  Inv'
<1>1. lot[p] \in Lot /\ lot[p].seller \in Players /\ seller[p] \in Nat
  BY DEF Inv, Types, Copied, Credit, Lot
<1>2. seller[p] + Cost(lot[p]) \in Nat
  BY <1>1, CostAffordable
<1>3. Writes(money, money', Nat)
  BY <1>1, <1>2 DEF Credit, BuyPut, Set, Writes, Inv, Types
<1>4. PutsFor(p) /\ UNCHANGED <<stock, lots>>
  BY DEF Credit, GoTo, PutsFor, copies, keeper, BuyCalls
<1>5. Copied(p)'
  BY <1>4 DEF Inv, Types, Credit, Copied, GoTo, PutsFor
<1> QED
  BY <1>3, <1>4, <1>5, InvPuts DEF Writes

LEMMA InvDeliver ==
    ASSUME Inv, NEW p \in Players, Deliver(p)
    PROVE  Inv'
<1>1. lot[p] \in Lot /\ lot[p].amount \in Nat /\ goods[p] \in Int
      /\ goods[p] >= 0 /\ goods[p] + lot[p].amount <= MaxItem
  BY DEF Inv, Types, Copied, Deliver, Lot
<1>2. goods[p] + lot[p].amount \in 0..MaxItem
  BY <1>1
<1>3. Writes(stock, stock', 0..MaxItem)
  BY <1>2 DEF Deliver, BuyPut, Set, Writes, Inv, Types
<1>4. PutsFor(p) /\ UNCHANGED <<money, lots>>
  BY DEF Deliver, GoTo, PutsFor, copies, keeper, BuyCalls
<1>5. Copied(p)'
  BY <1>4 DEF Inv, Types, Deliver, Copied, GoTo, PutsFor
<1> QED
  BY <1>3, <1>4, <1>5, InvPuts DEF Writes

LEMMA InvMark ==
    ASSUME Inv, NEW p \in Players, Mark(p)
    PROVE  Inv'
<1>1. lot[p] \in Lot /\ uid[p] \in Uids
  BY DEF Inv, Types, Copied, Mark
<1>2. [lot[p] EXCEPT !.bought = TRUE, !.buyer = p] \in Lot
  BY <1>1, LotBought
<1>3. Writes(lots, lots', Lot \cup {NoLot})
  BY <1>1, <1>2 DEF Mark, BuyPut, Set, Writes, Inv, Types
<1>4. PutsFor(p) /\ UNCHANGED <<money, stock>>
  BY DEF Mark, GoTo, PutsFor, copies, keeper
<1>5. Copied(p)'
  BY <1>4 DEF Inv, Types, Mark, Copied, GoTo, PutsFor
<1> QED
  BY <1>3, <1>4, <1>5, InvPuts DEF Writes

LEMMA InvDeduct ==
    ASSUME Inv, NEW p \in Players, Deduct(p)
    PROVE  Inv'
<1>1. lot[p] \in Lot /\ lot[p].amount \in Nat /\ goods[p] \in Int
      /\ lot[p].amount <= goods[p] /\ goods[p] <= MaxItem
  BY DEF Inv, Types, Copied, Deduct, Lot
<1>2. goods[p] - lot[p].amount \in 0..MaxItem
  BY <1>1
<1>3. Writes(stock, stock', 0..MaxItem)
  BY <1>2 DEF Deduct, SellPut, Set, Writes, Inv, Types
<1>4. PutsFor(p) /\ UNCHANGED <<money, lots>>
  BY DEF Deduct, SellPut, GoTo, PutsFor, copies, keeper, SellCalls
<1>5. Copied(p)'
  BY <1>4 DEF Inv, Types, Deduct, SellPut, Copied, GoTo, PutsFor
<1> QED
  BY <1>3, <1>4, <1>5, InvPuts DEF Writes

LEMMA InvList ==
    ASSUME Inv, NEW p \in Players, List(p)
    PROVE  Inv'
<1>1. lot[p] \in Lot /\ uid[p] \in Uids
  BY DEF Inv, Types, Copied, List
<1>2. Writes(lots, lots', Lot \cup {NoLot})
  BY <1>1 DEF List, SellPut, Set, Writes, Inv, Types
<1>3. PutsFor(p) /\ UNCHANGED <<money, stock>>
  BY DEF List, SellPut, GoTo, PutsFor, copies, keeper, SellCalls
<1>4. Copied(p)'
  BY <1>3 DEF Inv, Types, List, SellPut, Copied, GoTo, PutsFor
<1> QED
  BY <1>2, <1>3, <1>4, InvPuts DEF Writes

LEMMA InvRollback ==
    ASSUME Inv, NEW p \in Players, Rollback(p)
    PROVE  Inv'
<1>1. lot[p] \in Lot /\ lot[p].amount \in Nat /\ goods[p] \in Int
      /\ lot[p].amount <= goods[p] /\ goods[p] <= MaxItem
  BY DEF Inv, Types, Copied, Rollback, Lot
<1>2. goods[p] \in 0..MaxItem
  BY <1>1
<1>3. Writes(stock, stock', 0..MaxItem)
  BY <1>2 DEF Rollback, SellPut, Set, Writes, Inv, Types
<1>4. PutsFor(p) /\ UNCHANGED <<money, lots>>
  BY DEF Rollback, GoTo, PutsFor, copies, keeper
<1>5. Copied(p)'
  BY <1>4 DEF Inv, Types, Rollback, Copied, GoTo, PutsFor
<1> QED
  BY <1>3, <1>4, <1>5, InvPuts DEF Writes

-----------------------------------------------------------------------------
(* The market loop, and the whole *)

LEMMA InvKeep ==
    ASSUME Inv, Keep
    PROVE  Inv'
<1>1. \A p \in Players : UNCHANGED <<pc[p], lot[p], buyer[p], seller[p], goods[p]>>
  BY DEF Keep, Scan, ReadPurse, Refund, DeleteLot, copies
<1>2. \A p \in Players : Copied(p)'
  BY <1>1 DEF Inv, Copied
<1>3. CASE Scan
  <2>1. todo' \subseteq [uid: Uids, lot: Lot]
    BY <1>3 DEF Scan, Inv, Types
  <2> QED
    BY <1>2, <1>3, <2>1 DEF Scan, rows, copies, Inv, Types, NoOverdraft, StockInRange
<1>4. ASSUME NEW t \in todo, ReadPurse(t)
      PROVE  Inv'
  <2>1. t.lot.buyer \in Players
    BY DEF Inv, Types, Lot
  <2> QED
    BY <1>2, <1>4, <2>1
    DEF ReadPurse, rows, copies, Inv, Types, NoOverdraft, StockInRange
<1>5. ASSUME NEW t \in todo, Refund(t)
      PROVE  Inv'
  <2>1. t.lot \in Lot /\ t.lot.buyer \in Players /\ purse \in Int /\ purse >= 0
    BY <1>5 DEF Inv, Types, Lot, Refund
  <2>2. purse + Cost(t.lot) \in Nat
    BY <2>1, CostAffordable
  <2>3. Writes(money, money', Nat)
    BY <1>5, <2>1, <2>2 DEF Refund, Set, Writes, Inv, Types
  <2>4. money' \in [Players -> Int] /\ NoOverdraft'
    BY <2>3 DEF Writes, Inv, Types, NoOverdraft
  <2> QED
    BY <1>2, <1>5, <2>4 DEF Refund, copies, Inv, Types, StockInRange
<1>6. ASSUME NEW t \in todo, DeleteLot(t)
      PROVE  Inv'
  <2>1. t.uid \in Uids
    BY DEF Inv, Types
  <2>2. lots' \in [Uids -> Lot \cup {NoLot}]
    BY <1>6, <2>1 DEF DeleteLot, BuyPut, Set, Inv, Types
  <2> QED
    BY <1>2, <1>6, <2>2 DEF DeleteLot, copies, Inv, Types, NoOverdraft, StockInRange
<1> QED
  BY <1>3, <1>4, <1>5, <1>6 DEF Keep

LEMMA InvStep == Inv /\ [Next]_vars => Inv'
<1> SUFFICES ASSUME Inv, [Next]_vars PROVE Inv'
  OBVIOUS
<1>1. CASE UNCHANGED vars
  BY <1>1 DEF vars, rows, copies, keeper, Inv, Types, NoOverdraft, StockInRange, Copied
<1>2. CASE NextDay
  BY <1>2 DEF NextDay, rows, copies, keeper, Inv, Types, NoOverdraft, StockInRange, Copied
<1>3. ASSUME NEW p \in Players, Command(p)
      PROVE  Inv'
  BY <1>3, InvBuyLot, InvBuyBuyer, InvBuySeller, InvBuySector, InvDebit, InvCredit,
     InvDeliver, InvMark, InvSellLoad, InvDeduct, InvSellUid, InvList, InvRollback, InvReadFails
  DEF Command
<1> QED
  BY <1>1, <1>2, <1>3, InvKeep DEF Next

LEMMA Invariant == Spec => []Inv
BY InvInit, InvStep, PTL DEF Spec

\* The market overdraws no treasury, however "buy", "sell" and the market
\* loop interleave and whichever puts fail.
THEOREM NoTreasuryIsOverdrawn == Spec => []NoOverdraft
BY Invariant, PTL DEF Inv

\* No sector's stock leaves the range of its column (0 .. i16::MAX).
THEOREM StockStaysInRange == Spec => []StockInRange
BY Invariant, PTL DEF Inv

-----------------------------------------------------------------------------
(* Typing, which rests on the invariant *)

Counters ==
    /\ sales \in Nat /\ faults \in Nat /\ buyFaults \in Nat /\ uidFaults \in Nat
    /\ refunded \in Nat

LEMMA CountersInit == Init => Counters
BY DEF Init, Counters

LEMMA CountersStep == Inv /\ Counters /\ [Next]_vars => Counters'
<1> SUFFICES ASSUME Inv, Counters, [Next]_vars PROVE Counters'
  OBVIOUS
<1> USE DEF Counters
<1>1. CASE UNCHANGED vars \/ NextDay \/ Scan
  BY <1>1 DEF vars, NextDay, Scan, history
<1>2. ASSUME NEW t \in todo, Refund(t)
      PROVE  Counters'
  <2>1. Cost(t.lot) \in Nat
    BY CostAffordable DEF Inv, Types
  <2> QED
    BY <1>2, <2>1 DEF Refund
<1>3. ASSUME NEW t \in todo, ReadPurse(t) \/ DeleteLot(t)
      PROVE  Counters'
  BY <1>3 DEF ReadPurse, DeleteLot, BuyPut, history
<1>4. ASSUME NEW p \in Players,
             BuyBuyer(p) \/ BuySeller(p) \/ BuySector(p) \/ SellUid(p)
               \/ \E u \in Uids : BuyLot(p, u)
      PROVE  Counters'
  BY <1>4 DEF BuyBuyer, BuySeller, BuySector, SellUid, BuyLot, history
<1>5. ASSUME NEW p \in Players, Debit(p) \/ Credit(p) \/ Deliver(p) \/ Mark(p)
      PROVE  Counters'
  BY <1>5 DEF Debit, Credit, Deliver, Mark, BuyPut
<1>6. ASSUME NEW p \in Players, Deduct(p) \/ List(p) \/ Rollback(p)
      PROVE  Counters'
  BY <1>6 DEF Deduct, List, Rollback, SellPut
<1>7. ASSUME NEW p \in Players, NEW a \in Amounts, NEW c \in Prices, SellLoad(p, a, c)
      PROVE  Counters'
  BY <1>7 DEF SellLoad
<1>8. ASSUME NEW p \in Players, ReadFails(p)
      PROVE  Counters'
  BY <1>8 DEF ReadFails
<1> QED
  BY <1>1, <1>2, <1>3, <1>4, <1>5, <1>6, <1>7, <1>8 DEF Next, Keep, Command

OverlappedTyped == overlapped \in BOOLEAN

LEMMA OverlappedStep == OverlappedTyped /\ [Next]_vars => OverlappedTyped'
BY Zenon DEF OverlappedTyped, Next, Command, Keep, vars, NextDay, Begin, BuyLot, BuyBuyer, BuySeller,
   BuySector, Debit, Credit, Deliver, Mark, SellLoad, Deduct, SellUid, List,
   Rollback, ReadFails, Scan, ReadPurse, Refund, DeleteLot

\* Types hold in every reachable state of the market.
THEOREM TypeCorrect == Spec => []TypeOK
<1>1. Inv /\ Counters /\ OverlappedTyped => TypeOK
  BY DEF OverlappedTyped, Inv, Types, Counters, TypeOK
<1>2. Init => OverlappedTyped
  BY Zenon DEF OverlappedTyped, Init
<1> QED
  BY <1>1, <1>2, InvInit, InvStep, CountersInit, CountersStep, OverlappedStep,
     PTL DEF Spec

\* The market keeps treasuries, stocks and everything else within bounds.
THEOREM MarketStaysWithinBounds == Spec => []WithinBounds
<1>1. TypeOK /\ NoOverdraft /\ StockInRange => WithinBounds
  BY DEF WithinBounds
<1> QED
  BY <1>1, TypeCorrect, NoTreasuryIsOverdrawn, StockStaysInRange, PTL

-----------------------------------------------------------------------------
(***************************************************************************)
(* Bought lots.  As long as nothing overlaps, one command or the market    *)
(* loop is at work; the lot a purchase has read is still for sale, and the *)
(* number a sale has computed is still free.                               *)
(***************************************************************************)
\* The number of a new lot is not in use.
LEMMA NextUidIsNew == \A u \in Uids : lots[u] # NoLot => u # NextUid
<1> DEFINE used == {0} \cup {u \in Uids : lots[u] # NoLot}
<1>1. MaxUid \in Nat /\ used \subseteq 0..MaxUid /\ used # {}
  BY DEF Uids
<1>2. NextUid = 1 + Max(used)
  BY DEF NextUid
<1>3. \A u \in Uids : lots[u] # NoLot => u \in used
  OBVIOUS
<1>4. \A u \in used : u \in Nat
  BY DEF Uids
<1> HIDE DEF used
<1>5. Max(used) \in used /\ \A y \in used : y <= Max(used)
  BY <1>1, GreatestExists
<1>6. Max(used) \in Nat
  BY <1>4, <1>5
<1> SUFFICES ASSUME NEW u \in Uids, lots[u] # NoLot
             PROVE  u # NextUid
  OBVIOUS
<1>7. u \in Nat /\ u <= Max(used)
  BY <1>3, <1>4, <1>5
<1> QED
  BY <1>2, <1>6, <1>7

Busy(p) == pc[p] # "idle"

OneAtWork ==
    /\ \A p, q \in Players : Busy(p) /\ Busy(q) => p = q
    /\ kpc # "idle" => \A p \in Players : ~Busy(p)

LotUnmoved(p) ==
    /\ pc[p] \in BuyCalls => lots[uid[p]] # NoLot /\ ~lots[uid[p]].bought
    /\ pc[p] = "list" => lots[uid[p]] = NoLot

Order ==
    /\ overlapped \in BOOLEAN
    /\ ~overlapped => OneAtWork /\ \A p \in Players : LotUnmoved(p)

LEMMA OrderInit == Init => Order
<1> SUFFICES ASSUME Init PROVE Order
  OBVIOUS
<1>1. overlapped \in BOOLEAN /\ kpc = "idle" /\ \A p \in Players : pc[p] = "idle"
  BY DEF Init
<1> QED
  BY <1>1 DEF Order, OneAtWork, Busy, LotUnmoved, BuyCalls

\* A step of the only command at work: the others rest before and after it.
LEMMA OrderByOne ==
    ASSUME Inv, Order, NEW p \in Players, NEW c, pc' = [pc EXCEPT ![p] = c],
           overlapped' \in BOOLEAN, kpc' = kpc,
           ~overlapped' => /\ ~overlapped
                           /\ kpc = "idle"
                           /\ \A q \in Players \ {p} : ~Busy(q)
                           /\ LotUnmoved(p)'
    PROVE  Order'
<1> SUFFICES ASSUME ~overlapped'
             PROVE  OneAtWork' /\ \A q \in Players : LotUnmoved(q)'
  BY DEF Order
<1>1. kpc' = "idle" /\ LotUnmoved(p)' /\ \A q \in Players \ {p} : pc'[q] = "idle"
  BY DEF Inv, Types, Busy
<1>2. OneAtWork'
  BY <1>1 DEF OneAtWork, Busy
<1>3. \A q \in Players : LotUnmoved(q)'
  <2> SUFFICES ASSUME NEW q \in Players, q # p PROVE LotUnmoved(q)'
    BY <1>1
  <2>1. pc'[q] = "idle"
    BY <1>1
  <2> QED
    BY <2>1 DEF LotUnmoved, BuyCalls
<1> QED
  BY <1>2, <1>3

\* A command that begins without overlap finds everybody at rest.
LEMMA OrderBegins ==
    ASSUME Inv, Order, NEW p \in Players, Begin(p), ~overlapped'
    PROVE  ~overlapped /\ kpc = "idle" /\ \A q \in Players : ~Busy(q)
BY DEF Begin, Resting, Busy, Order

\* A command that goes on without overlap is the only one.
LEMMA OrderGoesOn ==
    ASSUME Inv, Order, NEW p \in Players, Busy(p), UNCHANGED overlapped, ~overlapped'
    PROVE  ~overlapped /\ kpc = "idle" /\ LotUnmoved(p) /\ \A q \in Players \ {p} : ~Busy(q)
BY DEF Order, OneAtWork

LEMMA OrderBuyLot ==
    ASSUME Inv, Order, NEW p \in Players, NEW u \in Uids, BuyLot(p, u)
    PROVE  Order'
<1>1. Begin(p) /\ UNCHANGED <<lots, kpc>>
  BY DEF BuyLot, rows, keeper
<1>2. overlapped' \in BOOLEAN
  BY <1>1 DEF Begin, Order, Resting
<1>3. CASE UNCHANGED <<uid, lot, pc>>
  <2>1. ~overlapped' => ~overlapped
    BY <1>1, OrderBegins
  <2> QED
    BY <1>1, <1>2, <1>3, <2>1 DEF Order, OneAtWork, Busy, LotUnmoved
<1>4. CASE ForSaleTo(p, u) /\ uid' = Set(uid, p, u) /\ GoTo(p, "buyer")
  <2>1. pc' = [pc EXCEPT ![p] = "buyer"] /\ pc'[p] = "buyer" /\ uid'[p] = u
    BY <1>4 DEF GoTo, Set, Inv, Types
  <2>2. LotUnmoved(p)'
    BY <1>1, <1>4, <2>1 DEF ForSaleTo, LotUnmoved
  <2> QED
    BY <1>1, <1>2, <2>1, <2>2, OrderBegins, OrderByOne
<1> QED
  BY <1>3, <1>4 DEF BuyLot

LEMMA OrderSellLoad ==
    ASSUME Inv, Order, NEW p \in Players, NEW a \in Amounts, NEW c \in Prices, SellLoad(p, a, c)
    PROVE  Order'
<1>1. Begin(p) /\ pc' = [pc EXCEPT ![p] = "deduct"] /\ UNCHANGED kpc
  BY DEF SellLoad, GoTo, keeper
<1>2. overlapped' \in BOOLEAN
  BY <1>1 DEF Begin, Order, Resting
<1>3. pc'[p] = "deduct"
  BY <1>1 DEF Inv, Types
<1>4. LotUnmoved(p)'
  BY <1>3 DEF LotUnmoved, BuyCalls
<1> QED
  BY <1>1, <1>2, <1>4, OrderBegins, OrderByOne

LEMMA OrderSellUid ==
    ASSUME Inv, Order, NEW p \in Players, SellUid(p)
    PROVE  Order'
<1>1. /\ Busy(p) /\ uid' = [uid EXCEPT ![p] = NextUid] /\ pc' = [pc EXCEPT ![p] = "list"]
      /\ NextUid \in Uids /\ UNCHANGED <<lots, kpc, overlapped>>
  BY DEF SellUid, Busy, Set, GoTo, rows, keeper
<1>2. pc'[p] = "list" /\ uid'[p] = NextUid
  BY <1>1 DEF Inv, Types
<1>3. LotUnmoved(p)'
  BY <1>1, <1>2, NextUidIsNew DEF LotUnmoved, BuyCalls
<1> QED
  BY <1>1, <1>3, OrderGoesOn, OrderByOne DEF Order

\* A step that leaves the lots alone and goes on with a purchase, or with
\* something that needs no lot.
Onward(p, c) ==
    /\ Busy(p) /\ pc' = [pc EXCEPT ![p] = c]
    /\ UNCHANGED <<uid, lots, kpc, overlapped>>
    /\ c # "list" /\ (c \in BuyCalls => pc[p] \in BuyCalls)

LEMMA OrderOnward ==
    ASSUME Inv, Order, NEW p \in Players, NEW c, Onward(p, c)
    PROVE  Order'
<1>1. pc'[p] = c
  BY DEF Inv, Types, Onward
<1>2. LotUnmoved(p) => LotUnmoved(p)'
  BY <1>1 DEF Onward, LotUnmoved
<1> QED
  BY <1>2, OrderGoesOn, OrderByOne DEF Order, Onward

LEMMA OrderSteps ==
    ASSUME Inv, Order, NEW p \in Players,
           \/ BuyBuyer(p) \/ BuySeller(p) \/ BuySector(p) \/ Debit(p) \/ Credit(p)
           \/ Deliver(p) \/ Deduct(p) \/ Rollback(p) \/ ReadFails(p)
    PROVE  Order'
<1>1. CASE BuyBuyer(p)
  BY <1>1, OrderOnward DEF BuyBuyer, Onward, Busy, GoTo, BuyCalls, rows, keeper
<1>2. CASE BuySeller(p)
  BY <1>2, OrderOnward DEF BuySeller, Onward, Busy, GoTo, BuyCalls, rows, keeper
<1>3. CASE BuySector(p)
  BY <1>3, OrderOnward DEF BuySector, Onward, Busy, GoTo, BuyCalls, rows, keeper
<1>4. CASE Debit(p)
  BY <1>4, OrderOnward DEF Debit, Onward, Busy, GoTo, BuyCalls, copies, keeper
<1>5. CASE Credit(p)
  BY <1>5, OrderOnward DEF Credit, Onward, Busy, GoTo, BuyCalls, copies, keeper
<1>6. CASE Deliver(p)
  BY <1>6, OrderOnward DEF Deliver, Onward, Busy, GoTo, BuyCalls, copies, keeper
<1>7. CASE Deduct(p)
  BY <1>7, OrderOnward DEF Deduct, SellPut, Onward, Busy, GoTo, BuyCalls, copies, keeper
<1>8. CASE Rollback(p)
  BY <1>8, OrderOnward DEF Rollback, Onward, Busy, GoTo, BuyCalls, copies, keeper
<1>9. CASE ReadFails(p)
  BY <1>9, OrderOnward DEF ReadFails, Onward, Busy, GoTo, BuyCalls, rows, copies, keeper
<1> QED
  BY <1>1, <1>2, <1>3, <1>4, <1>5, <1>6, <1>7, <1>8, <1>9

\* The put of a lot leaves nothing to say of the copy.
LEMMA OrderLastPut ==
    ASSUME Inv, Order, NEW p \in Players, Mark(p) \/ List(p)
    PROVE  Order'
<1>1. Busy(p) /\ UNCHANGED <<kpc, overlapped>>
  BY DEF Mark, List, Busy, keeper
<1>2. PICK c \in {"idle", "rollback"} : pc' = [pc EXCEPT ![p] = c]
  BY DEF Mark, List, SellPut, GoTo
<1>3. LotUnmoved(p)'
  BY <1>2 DEF LotUnmoved, BuyCalls, Inv, Types
<1> QED
  BY <1>1, <1>2, <1>3, OrderGoesOn, OrderByOne DEF Order

LEMMA OrderKeep ==
    ASSUME Inv, Order, Keep
    PROVE  Order'
<1>1. UNCHANGED <<pc, uid>>
  BY DEF Keep, Scan, ReadPurse, Refund, DeleteLot, copies
<1>2. CASE Scan
  <2>1. overlapped' = (overlapped \/ ~Resting)
    BY <1>2 DEF Scan
  <2>2. overlapped' \in BOOLEAN
    BY <2>1 DEF Order, Resting
  <2>3. ASSUME ~overlapped'
        PROVE  \A q \in Players : pc'[q] = "idle"
    BY <1>1, <2>1, <2>3 DEF Resting, Order
  <2> QED
    BY <2>2, <2>3 DEF Order, OneAtWork, Busy, LotUnmoved, BuyCalls
<1>3. ASSUME NEW t \in todo, ReadPurse(t) \/ Refund(t) \/ DeleteLot(t)
      PROVE  Order'
  <2>1. kpc # "idle" /\ UNCHANGED overlapped
    BY <1>3 DEF ReadPurse, Refund, DeleteLot
  <2>2. ASSUME ~overlapped'
        PROVE  \A q \in Players : pc'[q] = "idle"
    BY <1>1, <2>1, <2>2 DEF Order, OneAtWork, Busy
  <2> QED
    BY <2>1, <2>2 DEF Order, OneAtWork, Busy, LotUnmoved, BuyCalls
<1> QED
  BY <1>2, <1>3 DEF Keep

LEMMA OrderStep == Inv /\ Order /\ [Next]_vars => Order'
<1> SUFFICES ASSUME Inv, Order, [Next]_vars PROVE Order'
  OBVIOUS
<1>1. CASE UNCHANGED vars \/ NextDay
  <2>1. UNCHANGED <<overlapped, uid, pc, lots, kpc>>
    BY <1>1 DEF vars, rows, copies, keeper, NextDay
  <2> QED
    BY <2>1 DEF Order, OneAtWork, Busy, LotUnmoved
<1>2. ASSUME NEW p \in Players, Command(p)
      PROVE  Order'
  BY <1>2, OrderBuyLot, OrderSellLoad, OrderSellUid, OrderSteps, OrderLastPut DEF Command
<1> QED
  BY <1>1, <1>2, OrderKeep DEF Next

\* What BoughtLotFinal asks of the step of one lot.
FinalOf(u) ==
    ~overlapped /\ lots[u] # NoLot /\ lots[u].bought => lots'[u] \in {lots[u], NoLot}

LEMMA FinalStep ==
    ASSUME Inv, Order, Next, ~overlapped, NEW u \in Uids
    PROVE  FinalOf(u)
<1>1. CASE UNCHANGED lots
  BY <1>1 DEF FinalOf
<1>2. ASSUME NEW p \in Players, Mark(p)
      PROVE  FinalOf(u)
  <2>1. lots[uid[p]] # NoLot /\ ~lots[uid[p]].bought
    BY <1>2 DEF Order, Mark, LotUnmoved, BuyCalls
  <2>2. u # uid[p] => lots'[u] = lots[u]
    BY <1>2 DEF Mark, BuyPut, Set, Inv, Types
  <2> QED
    BY <2>1, <2>2 DEF FinalOf
<1>3. ASSUME NEW p \in Players, List(p)
      PROVE  FinalOf(u)
  <2>1. lots[uid[p]] = NoLot
    BY <1>3 DEF Order, List, LotUnmoved
  <2>2. u # uid[p] => lots'[u] = lots[u]
    BY <1>3 DEF List, SellPut, Set, Inv, Types
  <2> QED
    BY <2>1, <2>2 DEF FinalOf
<1>4. ASSUME NEW t \in todo, DeleteLot(t)
      PROVE  FinalOf(u)
  BY <1>4 DEF FinalOf, DeleteLot, BuyPut, Set, Inv, Types
<1>5. ASSUME NEW p \in Players, Command(p), ~Mark(p), ~List(p)
      PROVE  UNCHANGED lots
  BY <1>5 DEF Command, BuyLot, BuyBuyer, BuySeller, BuySector, Debit, Credit, Deliver,
     SellLoad, Deduct, SellUid, Rollback, ReadFails, rows
<1>6. NextDay \/ Scan \/ (\E t \in todo : ReadPurse(t) \/ Refund(t)) => UNCHANGED lots
  BY DEF NextDay, Scan, ReadPurse, Refund, rows
<1> QED
  BY <1>1, <1>2, <1>3, <1>4, <1>5, <1>6 DEF Next, Keep

\* With one command at a time, a bought lot stays as it is until the market
\* loop deletes it, whichever database calls fail.
THEOREM BoughtLotsStay == Spec => BoughtLotFinal
<1>1. Inv /\ Order /\ [Next]_vars => [\A u \in Uids : FinalOf(u)]_lots
  <2> SUFFICES ASSUME Inv, Order, [Next]_vars, lots' # lots
               PROVE  \A u \in Uids : FinalOf(u)
    OBVIOUS
  <2>1. Next
    BY DEF vars, rows
  <2>2. CASE overlapped
    BY <2>2 DEF FinalOf
  <2>3. CASE ~overlapped
    BY <2>1, <2>3, FinalStep
  <2> QED
    BY <2>2, <2>3
<1>2. Inv /\ Order /\ [Next]_vars => [\A u \in Uids :
        ~overlapped /\ lots[u] # NoLot /\ lots[u].bought
            => lots'[u] \in {lots[u], NoLot}]_lots
  BY <1>1 DEF FinalOf
<1> QED
  BY <1>2, InvInit, InvStep, OrderInit, OrderStep, PTL DEF Spec, BoughtLotFinal

-----------------------------------------------------------------------------
(***************************************************************************)
(* Money and goods.  As long as nothing overlaps, every copy is of the row *)
(* as it is (Current); so a put adds to the row what the command has in    *)
(* mind, and the sums over all rows differ from what they should be by     *)
(* what the command at work has yet to move (MoneyTally, GoodsTally).      *)
(***************************************************************************)
CopiesCurrent(p) ==
    /\ pc[p] \in BuyCalls => lots[uid[p]] = lot[p] /\ lot[p].seller # p /\ ~lot[p].bought
    /\ pc[p] \in {"seller", "sector", "debit"} => buyer[p] = money[p]
    /\ pc[p] \in {"sector", "debit", "credit"} => seller[p] = money[lot[p].seller]
    /\ pc[p] \in {"debit", "credit", "deliver", "deduct"} => goods[p] = stock[p]
    /\ pc[p] \in {"uid", "list", "rollback"} => goods[p] = stock[p] + lot[p].amount
    /\ pc[p] \in SellCalls => ~lot[p].bought
    /\ pc[p] = "rollback" => faults >= 1

KeeperCurrent ==
    /\ kpc = "idle" => todo = {}
    /\ kpc = "refund" => \A t \in todo : First(t) => purse = money[t.lot.buyer]
    /\ \A t \in todo : lots[t.uid] = t.lot /\ t.lot.bought

Current == ~overlapped => KeeperCurrent /\ \A p \in Players : CopiesCurrent(p)

Quiet == \A p \in Players : ~Busy(p)

\* What the command at work has taken out of the treasuries, or put into the
\* sectors and lots, and has yet to make up for.
MoneyDue(p) == IF pc[p] = "credit" THEN Cost(lot[p]) ELSE 0
GoodsDue(p) ==
    IF pc[p] = "mark" THEN -lot[p].amount
    ELSE IF pc[p] \in {"uid", "list", "rollback"} THEN lot[p].amount ELSE 0

AllMoney == StartMoney * Cardinality(Players)
AllGoods == StartStock * Cardinality(Players)
GoodsNow == SumFunction(stock) + SumFunction(OnSale)

MoneyTally ==
    ~overlapped /\ buyFaults = 0 =>
        /\ Quiet => SumFunction(money) = AllMoney + refunded
        /\ \A p \in Players : Busy(p) =>
              SumFunction(money) + MoneyDue(p) = AllMoney + refunded

GoodsTally ==
    ~overlapped /\ buyFaults = 0 /\ uidFaults = 0 /\ faults <= 1 =>
        /\ Quiet => GoodsNow = AllGoods
        /\ \A p \in Players : Busy(p) => GoodsNow + GoodsDue(p) = AllGoods

\* A command of p works alone, and does not touch what the market loop knows.
LEMMA WorksAlone ==
    ASSUME Inv, Order, NEW p \in Players, Command(p), ~overlapped'
    PROVE  /\ ~overlapped /\ kpc = "idle" /\ UNCHANGED keeper
           /\ refunded' = refunded
           /\ pc' \in [Players -> {"idle"} \cup BuyCalls \cup SellCalls]
           /\ \A q \in Players \ {p} : pc[q] = "idle" /\ pc'[q] = "idle"
<1>1. UNCHANGED keeper /\ refunded' = refunded
  BY DEF Command, BuyLot, BuyBuyer, BuySeller, BuySector, Debit, Credit, Deliver, Mark,
     SellLoad, Deduct, SellUid, List, Rollback, ReadFails, history
<1>2. Begin(p) \/ (Busy(p) /\ UNCHANGED overlapped)
  BY DEF Command, BuyLot, BuyBuyer, BuySeller, BuySector, Debit, Credit, Deliver, Mark,
     SellLoad, Deduct, SellUid, List, Rollback, ReadFails, Busy
<1>3. ~overlapped /\ kpc = "idle" /\ \A q \in Players \ {p} : ~Busy(q)
  BY <1>2, OrderBegins, OrderGoesOn
<1>4. pc' \in [Players -> {"idle"} \cup BuyCalls \cup SellCalls]
  BY InvStep DEF Next, Inv, Types
<1>5. UNCHANGED pc \/ \E c : GoTo(p, c)
  <2>1. CASE \E u \in Uids : BuyLot(p, u)
    BY <2>1 DEF BuyLot
  <2>2. CASE \E a \in Amounts, c \in Prices : SellLoad(p, a, c)
    BY <2>2 DEF SellLoad
  <2>3. CASE BuyBuyer(p) \/ BuySeller(p) \/ BuySector(p) \/ Debit(p) \/ Credit(p) \/ Deliver(p)
             \/ Mark(p) \/ Deduct(p) \/ SellUid(p) \/ List(p) \/ Rollback(p) \/ ReadFails(p)
    BY <2>3 DEF BuyBuyer, BuySeller, BuySector, Debit, Credit, Deliver, Mark, Deduct,
       SellUid, List, Rollback, ReadFails, SellPut
  <2> QED
    BY <2>1, <2>2, <2>3 DEF Command
<1>6. \A q \in Players \ {p} : pc'[q] = pc[q]
  BY <1>5 DEF GoTo, Inv, Types
<1> QED
  BY <1>1, <1>3, <1>4, <1>6 DEF Busy

LEMMA CurrentByOne ==
    ASSUME Inv, Order, Current, NEW p \in Players, Command(p),
           ~overlapped' => CopiesCurrent(p)'
    PROVE  Current'
<1> SUFFICES ASSUME ~overlapped'
             PROVE  KeeperCurrent' /\ \A q \in Players : CopiesCurrent(q)'
  BY DEF Current
<1>1. ~overlapped /\ kpc = "idle" /\ kpc' = "idle" /\ todo' = todo
  BY WorksAlone DEF keeper
<1>2. todo = {}
  BY <1>1 DEF Current, KeeperCurrent
<1>3. \A q \in Players \ {p} : CopiesCurrent(q)'
  BY WorksAlone DEF CopiesCurrent, BuyCalls, SellCalls
<1> QED
  BY <1>1, <1>2, <1>3 DEF KeeperCurrent

LEMMA CurrentBefore ==
    ASSUME Inv, Order, Current, NEW p \in Players, Command(p), ~overlapped'
    PROVE  CopiesCurrent(p) /\ LotUnmoved(p)
BY WorksAlone DEF Current, Order

LEMMA CurrentBuyLot ==
    ASSUME Inv, Order, Current, NEW p \in Players, NEW u \in Uids, BuyLot(p, u), ~overlapped'
    PROVE  CopiesCurrent(p)'
<1>1. CopiesCurrent(p) /\ pc[p] = "idle"
  BY CurrentBefore DEF Command, BuyLot, Begin
<1>2. CASE UNCHANGED pc
  BY <1>1, <1>2 DEF CopiesCurrent, BuyCalls, SellCalls
<1>3. CASE ForSaleTo(p, u) /\ uid' = Set(uid, p, u) /\ lot' = Set(lot, p, lots[u]) /\ GoTo(p, "buyer")
  <2>1. pc'[p] = "buyer" /\ uid'[p] = u /\ lot'[p] = lots[u] /\ lots' = lots
    BY <1>3 DEF GoTo, Set, Inv, Types, BuyLot, rows
  <2> QED
    BY <1>3, <2>1 DEF ForSaleTo, CopiesCurrent, BuyCalls, SellCalls
<1> QED
  BY <1>2, <1>3 DEF BuyLot

LEMMA CurrentBuyReads ==
    ASSUME Inv, Order, Current, NEW p \in Players, BuyBuyer(p) \/ BuySeller(p) \/ BuySector(p),
           ~overlapped'
    PROVE  CopiesCurrent(p)'
<1>1. CopiesCurrent(p) /\ UNCHANGED <<rows, uid, lot>>
  BY CurrentBefore DEF Command, BuyBuyer, BuySeller, BuySector
<1>2. pc[p] \in BuyCalls
  BY DEF BuyBuyer, BuySeller, BuySector, BuyCalls
<1>3. CASE BuyBuyer(p)
  <2>1. pc'[p] \in {"idle", "seller"} /\ buyer'[p] = money[p]
    BY <1>3 DEF BuyBuyer, GoTo, Set, Inv, Types
  <2> QED
    BY <1>1, <1>2, <2>1 DEF CopiesCurrent, BuyCalls, SellCalls, rows
<1>4. CASE BuySeller(p)
  <2>1. pc'[p] = "sector" /\ buyer'[p] = buyer[p] /\ seller'[p] = money[lot[p].seller]
    BY <1>4 DEF BuySeller, GoTo, Set, Inv, Types
  <2>2. buyer[p] = money[p]
    BY <1>1, <1>4 DEF CopiesCurrent, BuySeller
  <2> QED
    BY <1>1, <1>2, <2>1, <2>2 DEF CopiesCurrent, BuyCalls, SellCalls, rows
<1>5. CASE BuySector(p)
  <2>1. /\ pc'[p] \in {"idle", "debit"} /\ goods'[p] = stock[p]
        /\ buyer'[p] = buyer[p] /\ seller'[p] = seller[p]
    BY <1>5 DEF BuySector, GoTo, Set, Inv, Types
  <2>2. buyer[p] = money[p] /\ seller[p] = money[lot[p].seller]
    BY <1>1, <1>5 DEF CopiesCurrent, BuySector
  <2> QED
    BY <1>1, <1>2, <2>1, <2>2 DEF CopiesCurrent, BuyCalls, SellCalls, rows
<1> QED
  BY <1>3, <1>4, <1>5

LEMMA CurrentBuyPuts ==
    ASSUME Inv, Order, Current, NEW p \in Players,
           Debit(p) \/ Credit(p) \/ Deliver(p) \/ Mark(p), ~overlapped'
    PROVE  CopiesCurrent(p)'
<1>1. CopiesCurrent(p) /\ UNCHANGED copies
  BY CurrentBefore DEF Command, Debit, Credit, Deliver, Mark
<1>2. CASE Debit(p)
  <2>1. pc'[p] = "credit" /\ UNCHANGED <<stock, lots>> /\ pc[p] = "debit"
    BY <1>2 DEF Debit, GoTo, Inv, Types
  <2>2. \A q \in Players : q # p => money'[q] = money[q]
    BY <1>2 DEF Debit, BuyPut, Set, Inv, Types
  <2>3. lot[p].seller \in Players /\ lot[p].seller # p
    BY <1>1, <2>1 DEF CopiesCurrent, BuyCalls, Inv, Copied, Lot
  <2>4. seller'[p] = money'[lot[p].seller]
    BY <1>1, <2>1, <2>2, <2>3 DEF CopiesCurrent, copies
  <2> QED
    BY <1>1, <2>1, <2>4 DEF CopiesCurrent, BuyCalls, SellCalls, copies
<1>3. CASE Credit(p)
  <2>1. pc'[p] = "deliver" /\ UNCHANGED <<stock, lots>> /\ pc[p] = "credit"
    BY <1>3 DEF Credit, GoTo, Inv, Types
  <2> QED
    BY <1>1, <2>1 DEF CopiesCurrent, BuyCalls, SellCalls, copies
<1>4. CASE Deliver(p)
  <2>1. pc'[p] = "mark" /\ UNCHANGED lots /\ pc[p] = "deliver"
    BY <1>4 DEF Deliver, GoTo, Inv, Types
  <2> QED
    BY <1>1, <2>1 DEF CopiesCurrent, BuyCalls, SellCalls, copies
<1>5. CASE Mark(p)
  <2>1. pc'[p] = "idle"
    BY <1>5 DEF Mark, GoTo, Inv, Types
  <2> QED
    BY <2>1 DEF CopiesCurrent, BuyCalls, SellCalls
<1> QED
  BY <1>2, <1>3, <1>4, <1>5

LEMMA CurrentSellLoad ==
    ASSUME Inv, NEW p \in Players, NEW a \in Amounts, NEW c \in Prices, SellLoad(p, a, c)
    PROVE  CopiesCurrent(p)'
<1>1. pc'[p] = "deduct" /\ goods'[p] = stock[p] /\ UNCHANGED stock
  BY DEF SellLoad, GoTo, Set, Inv, Types, rows
<1>2. ~lot'[p].bought
  BY DEF SellLoad, Set, Inv, Types
<1> QED
  BY <1>1, <1>2 DEF CopiesCurrent, BuyCalls, SellCalls

LEMMA CurrentSell ==
    ASSUME Inv, Counters, Order, Current, NEW p \in Players,
           Deduct(p) \/ SellUid(p) \/ List(p) \/ Rollback(p) \/ ReadFails(p), ~overlapped'
    PROVE  CopiesCurrent(p)'
<1>1. CopiesCurrent(p) /\ lot' = lot /\ goods' = goods
  BY CurrentBefore DEF Command, Deduct, SellUid, List, Rollback, ReadFails, copies
<1>2. CASE Deduct(p)
  <2>1. pc[p] = "deduct" /\ goods[p] = stock[p] /\ ~lot[p].bought
    BY <1>1, <1>2 DEF Deduct, CopiesCurrent, SellCalls
  <2>2. \/ pc'[p] = "idle"
        \/ pc'[p] = "uid" /\ stock'[p] = goods[p] - lot[p].amount
    BY <1>2 DEF Deduct, SellPut, GoTo, Set, Inv, Types
  <2>3. goods[p] \in Int /\ lot[p].amount \in Int
    BY <2>1 DEF Inv, Types, Copied, Lot
  <2>4. pc'[p] = "uid" => goods'[p] = stock'[p] + lot'[p].amount
    BY <1>1, <2>2, <2>3
  <2> QED
    BY <1>1, <2>1, <2>2, <2>4 DEF CopiesCurrent, BuyCalls, SellCalls
<1>3. CASE SellUid(p)
  <2>1. pc[p] = "uid" /\ pc'[p] = "list" /\ stock' = stock
    BY <1>3 DEF SellUid, GoTo, Inv, Types, rows
  <2> QED
    BY <1>1, <2>1 DEF CopiesCurrent, BuyCalls, SellCalls
<1>4. CASE List(p)
  <2>1. pc[p] = "list" /\ stock' = stock
    BY <1>4 DEF List
  <2>2. pc'[p] = "idle" \/ (pc'[p] = "rollback" /\ faults' = faults + 1)
    BY <1>4 DEF List, SellPut, GoTo, Inv, Types
  <2>3. pc'[p] = "rollback" => faults' >= 1
    BY <2>2 DEF Counters
  <2> QED
    BY <1>1, <2>1, <2>2, <2>3 DEF CopiesCurrent, BuyCalls, SellCalls
<1>5. CASE Rollback(p) \/ ReadFails(p)
  <2>1. pc'[p] = "idle"
    BY <1>5 DEF Rollback, ReadFails, GoTo, Inv, Types
  <2> QED
    BY <2>1 DEF CopiesCurrent, BuyCalls, SellCalls
<1> QED
  BY <1>2, <1>3, <1>4, <1>5

\* The lots the market loop works on are different ones.
LEMMA TodoDistinct ==
    ASSUME Inv, KeeperCurrent, NEW t \in todo, NEW s \in todo, t.uid = s.uid
    PROVE  t = s
<1>1. t \in [uid: Uids, lot: Lot] /\ s \in [uid: Uids, lot: Lot]
  BY DEF Inv, Types
<1>2. t.lot = s.lot
  BY DEF KeeperCurrent
<1> QED
  BY <1>1, <1>2

LEMMA CurrentKeep ==
    ASSUME Inv, Order, Current, Keep
    PROVE  Current'
<1> SUFFICES ASSUME ~overlapped'
             PROVE  KeeperCurrent' /\ \A q \in Players : CopiesCurrent(q)'
  BY DEF Current
<1>1. UNCHANGED pc
  BY DEF Keep, Scan, ReadPurse, Refund, DeleteLot
<1>2. \A q \in Players : pc[q] = "idle"
  <2>1. CASE Scan
    BY <2>1 DEF Scan, Resting
  <2>2. CASE \E t \in todo : ReadPurse(t) \/ Refund(t) \/ DeleteLot(t)
    BY <2>2 DEF ReadPurse, Refund, DeleteLot, Order, OneAtWork, Busy
  <2> QED
    BY <2>1, <2>2 DEF Keep
<1>3. \A q \in Players : CopiesCurrent(q)'
  BY <1>1, <1>2 DEF CopiesCurrent, BuyCalls, SellCalls
<1>4. CASE Scan
  <2>1. kpc' = "work" /\ lots' = lots
    BY <1>4 DEF Scan, rows
  <2>2. \A t \in todo' : lots[t.uid] = t.lot /\ t.lot.bought
    BY <1>4 DEF Scan
  <2> QED
    BY <1>3, <2>1, <2>2 DEF KeeperCurrent
<1>5. ASSUME NEW t \in todo, ReadPurse(t) \/ Refund(t) \/ DeleteLot(t)
      PROVE  KeeperCurrent'
  <2>1. KeeperCurrent
    BY <1>5 DEF Current, ReadPurse, Refund, DeleteLot
  <2>2. CASE ReadPurse(t)
    <3>1. UNCHANGED <<money, lots, todo>> /\ kpc' \in {"refund", "delete"}
      BY <2>2 DEF ReadPurse, rows
    <3>2. \A s \in todo : First(s) => s = t
      <4>1. \A s \in todo : s.uid \in Nat
        BY DEF Inv, Types, Uids
      <4> QED
        BY <2>1, <2>2, <4>1, TodoDistinct DEF ReadPurse, First
    <3>3. kpc' = "refund" => purse' = money[t.lot.buyer]
      BY <2>2 DEF ReadPurse
    <3>4. kpc' = "refund" => \A s \in todo' : First(s)' => purse' = money'[s.lot.buyer]
      BY <3>1, <3>2, <3>3 DEF First
    <3> QED
      BY <2>1, <3>1, <3>4 DEF KeeperCurrent
  <2>3. CASE Refund(t)
    <3>1. UNCHANGED <<lots, todo>> /\ kpc' = "delete"
      BY <2>3 DEF Refund
    <3> QED
      BY <2>1, <3>1 DEF KeeperCurrent
  <2>4. CASE DeleteLot(t)
    <3>1. todo' = todo \ {t} /\ kpc' = IF todo' = {} THEN "idle" ELSE "work"
      BY <2>4 DEF DeleteLot
    <3>2. ASSUME NEW s \in todo'
          PROVE  lots'[s.uid] = s.lot /\ s.lot.bought
      <4>1. s \in todo /\ s.uid # t.uid /\ s.uid \in Uids
        BY <2>1, <3>1, TodoDistinct DEF Inv, Types
      <4>2. lots'[s.uid] = lots[s.uid]
        BY <2>4, <4>1 DEF DeleteLot, BuyPut, Set, Inv, Types
      <4> QED
        BY <2>1, <4>1, <4>2 DEF KeeperCurrent
    <3>3. kpc' # "refund" /\ (kpc' = "idle" => todo' = {})
      BY <3>1
    <3> QED
      BY <3>2, <3>3 DEF KeeperCurrent
  <2> QED
    BY <1>5, <2>2, <2>3, <2>4
<1> QED
  BY <1>3, <1>4, <1>5 DEF Keep

LEMMA CurrentInit == Init => Current
BY DEF Init, Current, KeeperCurrent, CopiesCurrent, BuyCalls, SellCalls

LEMMA CurrentStep == Inv /\ Counters /\ Order /\ Current /\ [Next]_vars => Current'
<1> SUFFICES ASSUME Inv, Counters, Order, Current, [Next]_vars PROVE Current'
  OBVIOUS
<1>1. CASE UNCHANGED vars \/ NextDay
  <2>1. UNCHANGED <<rows, overlapped, pc, copies, keeper, faults>>
    BY <1>1 DEF vars, history, NextDay
  <2> QED
    BY <2>1 DEF Current, KeeperCurrent, CopiesCurrent, First, rows, copies, keeper
<1>2. ASSUME NEW p \in Players, Command(p), ~overlapped'
      PROVE  CopiesCurrent(p)'
  BY <1>2, CurrentBuyLot, CurrentBuyReads, CurrentBuyPuts, CurrentSellLoad, CurrentSell
     DEF Command
<1> QED
  BY <1>1, <1>2, CurrentByOne, CurrentKeep DEF Next

-----------------------------------------------------------------------------
(* Sums over the rows. *)

LEMMA PlayersFinite == IsFiniteSet(Players) /\ Cardinality(Players) \in Nat
BY FS_CardinalityType

LEMMA UidsFinite == IsFiniteSet(Uids)
BY FS_Interval DEF Uids

LEMMA AllAreInts == AllMoney \in Int /\ AllGoods \in Int
<1>1. StartStock \in Nat
  OBVIOUS
<1> QED
  BY <1>1, PlayersFinite, Product DEF AllMoney, AllGoods

LEMMA SumsAreInts ==
    ASSUME Inv
    PROVE  /\ SumFunction(money) \in Int /\ SumFunction(stock) \in Int
           /\ OnSale \in [Uids -> Int] /\ SumFunction(OnSale) \in Int
<1>1. OnSale \in [Uids -> Int]
  BY DEF OnSale, Inv, Types, Lot
<1> QED
  BY <1>1, PlayersFinite, UidsFinite, SumOfAll DEF Inv, Types

\* A row of a country or a sector is put.
LEMMA RowPut ==
    ASSUME NEW f \in [Players -> Int], NEW p \in Players, NEW v \in Int,
           NEW g, g = [f EXCEPT ![p] = v]
    PROVE  SumFunction(g) = SumFunction(f) + (v - f[p])
BY PlayersFinite, SumOfAllUpdate

\* A lot is put: the goods on sale change by that lot.
LEMMA OnSalePut ==
    ASSUME Inv, NEW u \in Uids, NEW l \in Lot \cup {NoLot}, lots' = [lots EXCEPT ![u] = l]
    PROVE  SumFunction(OnSale)' =
             SumFunction(OnSale) + ((IF l # NoLot /\ ~l.bought THEN l.amount ELSE 0) - OnSale[u])
<1> DEFINE v == IF l # NoLot /\ ~l.bought THEN l.amount ELSE 0
<1>1. v \in Int
  BY DEF Lot
<1>2. OnSale' = [OnSale EXCEPT ![u] = v]
  <2>1. OnSale' = [w \in Uids |-> IF lots'[w] # NoLot /\ ~lots'[w].bought
                                    THEN lots'[w].amount ELSE 0]
    BY DEF OnSale
  <2>2. [OnSale EXCEPT ![u] = v] = [w \in Uids |-> IF w = u THEN v ELSE OnSale[w]]
    BY DEF OnSale
  <2>3. \A w \in Uids : (IF lots'[w] # NoLot /\ ~lots'[w].bought THEN lots'[w].amount ELSE 0)
                          = IF w = u THEN v ELSE OnSale[w]
    BY DEF OnSale, Inv, Types
  <2> QED
    BY <2>1, <2>2, <2>3
<1>3. SumFunction(OnSale)' = SumFunction(OnSale')
  OBVIOUS
<1> HIDE DEF v
<1>4. SumFunction([OnSale EXCEPT ![u] = v]) = SumFunction(OnSale) + (v - OnSale[u])
  BY <1>1, SumsAreInts, UidsFinite, SumOfAllUpdate
<1> QED
  BY <1>2, <1>3, <1>4 DEF v

-----------------------------------------------------------------------------
(* The tally of the money. *)

MoneyWith(p) == SumFunction(money) + MoneyDue(p)

\* Who works alone leaves the others nothing to move.
LEMMA MoneyByOne ==
    ASSUME Inv, Order, MoneyTally, NEW p \in Players, Command(p),
           ~overlapped' /\ buyFaults' = 0 => buyFaults = 0 /\ MoneyWith(p)' = MoneyWith(p)
    PROVE  MoneyTally'
<1> SUFFICES ASSUME ~overlapped', buyFaults' = 0
             PROVE  /\ Quiet' => SumFunction(money)' = AllMoney + refunded'
                    /\ \A q \in Players : Busy(q)' =>
                          SumFunction(money)' + MoneyDue(q)' = AllMoney + refunded'
  BY DEF MoneyTally, AllMoney
<1>1. /\ ~overlapped /\ refunded' = refunded
      /\ pc' \in [Players -> {"idle"} \cup BuyCalls \cup SellCalls]
      /\ \A q \in Players \ {p} : pc[q] = "idle" /\ pc'[q] = "idle"
  BY WorksAlone
<1>2. Quiet \/ Busy(p)
  BY <1>1 DEF Quiet, Busy
<1>3. Quiet => MoneyWith(p) = SumFunction(money)
  BY SumsAreInts DEF Quiet, Busy, MoneyDue, MoneyWith
<1>4. MoneyWith(p) = AllMoney + refunded
  BY <1>1, <1>2, <1>3 DEF MoneyTally, MoneyWith
<1>5. SumFunction(money)' + MoneyDue(p)' = AllMoney + refunded'
  BY <1>1, <1>4 DEF MoneyWith
<1>6. Quiet' => SumFunction(money)' + MoneyDue(p)' = SumFunction(money)'
  <2>1. Inv'
    BY InvStep DEF Next
  <2>2. SumFunction(money)' \in Int
    BY <2>1, PlayersFinite, SumOfAll DEF Inv, Types
  <2> QED
    BY <2>2 DEF Quiet, Busy, MoneyDue
<1> QED
  BY <1>1, <1>5, <1>6 DEF Busy

LEMMA MoneyByDebit ==
    ASSUME Inv, Counters, Order, Current, NEW p \in Players, Debit(p), ~overlapped', buyFaults' = 0
    PROVE  buyFaults = 0 /\ MoneyWith(p)' = MoneyWith(p)
<1> DEFINE c == Cost(lot[p])
<1>1. pc[p] = "debit" /\ pc'[p] = "credit" /\ lot' = lot
  BY DEF Debit, GoTo, Inv, Types, copies
<1>2. money' = [money EXCEPT ![p] = buyer[p] - c] /\ buyFaults = 0
  BY DEF Debit, BuyPut, Set, Counters
<1>3. buyer[p] = money[p] /\ money[p] \in Int /\ c \in Int
  <2>1. CopiesCurrent(p)
    BY CurrentBefore DEF Command
  <2>2. lot[p] \in Lot
    BY <1>1 DEF Inv, Copied
  <2> QED
    BY <1>1, <2>1, <2>2, CostAffordable DEF CopiesCurrent, Inv, Types
<1>4. MoneyDue(p) = 0 /\ MoneyDue(p)' = c
  BY <1>1 DEF MoneyDue, Cost
<1> HIDE DEF c
<1>5. SumFunction(money') = SumFunction(money) + ((money[p] - c) - money[p])
  <2>1. money \in [Players -> Int] /\ money[p] - c \in Int
    BY <1>3 DEF Inv, Types
  <2> QED
    BY <1>2, <1>3, <2>1, RowPut
<1> QED
  BY <1>2, <1>3, <1>4, <1>5, SumsAreInts DEF MoneyWith

LEMMA MoneyByCredit ==
    ASSUME Inv, Counters, Order, Current, NEW p \in Players, Credit(p), ~overlapped', buyFaults' = 0
    PROVE  buyFaults = 0 /\ MoneyWith(p)' = MoneyWith(p)
<1> DEFINE c == Cost(lot[p])
           s == lot[p].seller
<1>1. pc[p] = "credit" /\ pc'[p] = "deliver"
  BY DEF Credit, GoTo, Inv, Types
<1>2. money' = [money EXCEPT ![s] = seller[p] + c] /\ buyFaults = 0
  BY DEF Credit, BuyPut, Set, Counters
<1>3. s \in Players /\ seller[p] = money[s] /\ money[s] \in Int /\ c \in Int
  <2>1. CopiesCurrent(p)
    BY CurrentBefore DEF Command
  <2>2. lot[p] \in Lot
    BY <1>1 DEF Inv, Copied
  <2>3. s \in Players
    BY <2>2 DEF Lot
  <2> QED
    BY <1>1, <2>1, <2>2, <2>3, CostAffordable DEF CopiesCurrent, Inv, Types
<1>4. MoneyDue(p) = c /\ MoneyDue(p)' = 0
  BY <1>1 DEF MoneyDue
<1> HIDE DEF c, s
<1>5. SumFunction(money') = SumFunction(money) + ((money[s] + c) - money[s])
  <2>1. money \in [Players -> Int] /\ money[s] + c \in Int
    BY <1>3 DEF Inv, Types
  <2> QED
    BY <1>2, <1>3, <2>1, RowPut
<1> QED
  BY <1>2, <1>3, <1>4, <1>5, SumsAreInts DEF MoneyWith

\* The other steps leave the treasuries alone, and come neither before nor
\* after the call that credits the seller.
LEMMA MoneyByOthers ==
    ASSUME Inv, Counters, NEW p \in Players, Command(p), ~Debit(p), ~Credit(p), buyFaults' = 0
    PROVE  buyFaults = 0 /\ MoneyWith(p)' = MoneyWith(p)
<1>1. money' = money /\ (buyFaults' = buyFaults \/ buyFaults' = buyFaults + 1)
  BY DEF Command, BuyLot, BuyBuyer, BuySeller, BuySector, Deliver, Mark, BuyPut,
     SellLoad, Deduct, SellUid, List, Rollback, ReadFails, rows, history
<1>2. pc[p] # "credit"
  BY DEF Command, BuyLot, BuyBuyer, BuySeller, BuySector, Deliver, Mark, Begin,
     SellLoad, Deduct, SellUid, List, Rollback, ReadFails
<1>3. pc'[p] # "credit"
  BY <1>2 DEF Command, BuyLot, BuyBuyer, BuySeller, BuySector, Deliver, Mark, GoTo,
     SellLoad, Deduct, SellUid, List, Rollback, ReadFails, SellPut, Inv, Types
<1> QED
  BY <1>1, <1>2, <1>3 DEF MoneyWith, MoneyDue, Counters

LEMMA MoneyKeep ==
    ASSUME Inv, Counters, Order, Current, MoneyTally, Keep
    PROVE  MoneyTally'
<1>1. UNCHANGED <<pc, lot>> /\ (~overlapped' => ~overlapped)
  BY DEF Keep, Scan, ReadPurse, Refund, DeleteLot, copies, Order
<1>2. CASE ~\E t \in todo : Refund(t)
  <2>1. UNCHANGED <<money, refunded>>
    BY <1>2 DEF Keep, Scan, ReadPurse, DeleteLot, rows, history
  <2>2. buyFaults' = 0 => buyFaults = 0
    BY <1>2 DEF Keep, Scan, ReadPurse, DeleteLot, BuyPut, history, Counters
  <2> QED
    BY <1>1, <2>1, <2>2 DEF MoneyTally, Quiet, Busy, MoneyDue, AllMoney, Cost
<1>3. ASSUME NEW t \in todo, Refund(t)
      PROVE  MoneyTally'
  <2> SUFFICES ASSUME ~overlapped', buyFaults' = 0
               PROVE  MoneyTally'
    BY DEF MoneyTally
  <2> DEFINE c == Cost(t.lot)
             b == t.lot.buyer
  <2>1. /\ money' = [money EXCEPT ![b] = purse + c] /\ refunded' = refunded + c
        /\ buyFaults = 0
    BY <1>3 DEF Refund, Set, Counters
  <2>2. t.lot \in Lot /\ b \in Players /\ c \in Int
    <3>1. t \in [uid: Uids, lot: Lot]
      BY DEF Inv, Types
    <3>2. t.lot \in Lot
      BY <3>1
    <3>3. t.lot.buyer \in Players
      BY <3>2 DEF Lot
    <3> QED
      BY <3>2, <3>3, CostAffordable
  <2>3. purse = money[b] /\ money[b] \in Int
    BY <1>1, <1>3, <2>2 DEF Refund, Current, KeeperCurrent, Inv, Types
  <2>4. Quiet /\ Quiet'
    BY <1>1, <1>3 DEF Refund, Order, OneAtWork, Quiet, Busy
  <2> HIDE DEF c, b
  <2>5. SumFunction(money') = SumFunction(money) + ((money[b] + c) - money[b])
    <3>1. money \in [Players -> Int] /\ money[b] + c \in Int /\ b \in Players
      BY <2>2, <2>3 DEF Inv, Types
    <3> QED
      BY <2>1, <2>3, <3>1, RowPut
  <2>6. SumFunction(money) = AllMoney + refunded
    BY <1>1, <2>1, <2>4 DEF MoneyTally
  <2>7. SumFunction(money') = AllMoney + refunded'
    BY <2>1, <2>2, <2>3, <2>5, <2>6, SumsAreInts, AllAreInts DEF Counters
  <2> QED
    BY <2>4, <2>7 DEF MoneyTally, Quiet, AllMoney
<1> QED
  BY <1>2, <1>3

LEMMA MoneyInit == Init => MoneyTally
<1> SUFFICES ASSUME Init PROVE MoneyTally
  OBVIOUS
<1>1. SumFunction(money) = AllMoney
  <2>1. StartMoney \in Int /\ money = [p \in Players |-> StartMoney]
    BY DEF Init
  <2>2. SumFunction([p \in Players |-> StartMoney]) = StartMoney * Cardinality(Players)
    BY <2>1, PlayersFinite, SumOfAllConstant
  <2> QED
    BY <2>1, <2>2 DEF AllMoney
<1>2. \A p \in Players : ~Busy(p)
  BY DEF Init, Busy
<1> QED
  BY <1>1, <1>2, AllAreInts DEF MoneyTally, Init

LEMMA MoneyStep ==
    Inv /\ Counters /\ Order /\ Current /\ MoneyTally /\ [Next]_vars => MoneyTally'
<1> SUFFICES ASSUME Inv, Counters, Order, Current, MoneyTally, [Next]_vars PROVE MoneyTally'
  OBVIOUS
<1>1. CASE UNCHANGED vars \/ NextDay
  <2>1. UNCHANGED <<money, lot, pc, overlapped, buyFaults, refunded>>
    BY <1>1 DEF vars, rows, copies, history, NextDay
  <2> QED
    BY <2>1 DEF MoneyTally, Quiet, Busy, MoneyDue, AllMoney, Cost
<1>2. ASSUME NEW p \in Players, Command(p)
      PROVE  MoneyTally'
  BY <1>2, MoneyByDebit, MoneyByCredit, MoneyByOthers, MoneyByOne
<1> QED
  BY <1>1, <1>2, MoneyKeep DEF Next

-----------------------------------------------------------------------------
(* The tally of the goods. *)

GoodsWith(p) == GoodsNow + GoodsDue(p)

\* Not more has failed than "sell" makes up for.
Sound == buyFaults = 0 /\ uidFaults = 0 /\ faults <= 1

LEMMA SoundBefore ==
    ASSUME Counters, Next, Sound'
    PROVE  Sound
<1>1. /\ faults' \in {faults, faults + 1}
      /\ buyFaults' \in {buyFaults, buyFaults + 1}
      /\ uidFaults' \in {uidFaults, uidFaults + 1}
  <2>1. ASSUME NEW p \in Players, Command(p)
        PROVE  <1>1
    BY <2>1 DEF Command, BuyLot, BuyBuyer, BuySeller, BuySector, Debit, Credit, Deliver, Mark,
       BuyPut, SellPut, SellLoad, Deduct, SellUid, List, Rollback, ReadFails, history
  <2>2. CASE Keep \/ NextDay
    BY <2>2 DEF Keep, Scan, ReadPurse, Refund, DeleteLot, BuyPut, NextDay, history
  <2> QED
    BY <2>1, <2>2 DEF Next
<1> QED
  BY <1>1 DEF Sound, Counters

LEMMA GoodsNowIsInt == Inv => GoodsNow \in Int
BY SumsAreInts DEF GoodsNow

LEMMA GoodsByOne ==
    ASSUME Inv, Counters, Order, GoodsTally, NEW p \in Players, Command(p),
           ~overlapped' /\ Sound' => GoodsWith(p)' = GoodsWith(p)
    PROVE  GoodsTally'
<1> SUFFICES ASSUME ~overlapped', Sound'
             PROVE  /\ Quiet' => GoodsNow' = AllGoods
                    /\ \A q \in Players : Busy(q)' => GoodsNow' + GoodsDue(q)' = AllGoods
  BY DEF GoodsTally, AllGoods, Sound
<1>1. /\ ~overlapped /\ Sound
      /\ pc' \in [Players -> {"idle"} \cup BuyCalls \cup SellCalls]
      /\ \A q \in Players \ {p} : pc[q] = "idle" /\ pc'[q] = "idle"
  BY WorksAlone, SoundBefore DEF Next
<1>2. Quiet \/ Busy(p)
  BY <1>1 DEF Quiet, Busy
<1>3. Quiet => GoodsWith(p) = GoodsNow
  BY GoodsNowIsInt DEF Quiet, Busy, GoodsDue, GoodsWith
<1>4. GoodsWith(p) = AllGoods
  BY <1>1, <1>2, <1>3 DEF GoodsTally, GoodsWith, Sound
<1>5. GoodsNow' + GoodsDue(p)' = AllGoods
  BY <1>1, <1>4 DEF GoodsWith
<1>6. Quiet' => GoodsNow' + GoodsDue(p)' = GoodsNow'
  <2>1. Inv'
    BY InvStep DEF Next
  <2>2. GoodsNow' \in Int
    <3>1. stock' \in [Players -> Int] /\ OnSale' \in [Uids -> Int]
      BY <2>1 DEF OnSale, Inv, Types, Lot
    <3>2. SumFunction(stock') \in Int /\ SumFunction(OnSale') \in Int
      BY <3>1, PlayersFinite, UidsFinite, SumOfAll
    <3> QED
      BY <3>2 DEF GoodsNow
  <2> QED
    BY <2>2 DEF Quiet, Busy, GoodsDue
<1> QED
  BY <1>1, <1>5, <1>6 DEF Busy

LEMMA GoodsByDeliver ==
    ASSUME Inv, Counters, Order, Current, NEW p \in Players, Deliver(p), ~overlapped', Sound'
    PROVE  GoodsWith(p)' = GoodsWith(p)
<1> DEFINE a == lot[p].amount
<1>1. pc[p] = "deliver" /\ pc'[p] = "mark" /\ lot' = lot /\ lots' = lots
  BY DEF Deliver, GoTo, Inv, Types, copies
<1>2. stock' = [stock EXCEPT ![p] = goods[p] + a]
  BY DEF Deliver, BuyPut, Set, Counters, Sound
<1>3. goods[p] = stock[p] /\ stock[p] \in Int /\ a \in Int
  <2>1. CopiesCurrent(p)
    BY CurrentBefore DEF Command
  <2> QED
    BY <1>1, <2>1 DEF CopiesCurrent, Inv, Types, Copied, Lot
<1>4. GoodsDue(p) = 0 /\ GoodsDue(p)' = -a
  BY <1>1 DEF GoodsDue
<1> HIDE DEF a
<1>5. SumFunction(stock') = SumFunction(stock) + ((stock[p] + a) - stock[p])
  <2>1. stock \in [Players -> Int] /\ stock[p] + a \in Int
    BY <1>3 DEF Inv, Types
  <2> QED
    BY <1>2, <1>3, <2>1, RowPut
<1>6. SumFunction(OnSale)' = SumFunction(OnSale)
  BY <1>1 DEF OnSale
<1> QED
  BY <1>3, <1>4, <1>5, <1>6, SumsAreInts DEF GoodsWith, GoodsNow

LEMMA GoodsByMark ==
    ASSUME Inv, Counters, Order, Current, NEW p \in Players, Mark(p), ~overlapped', Sound'
    PROVE  GoodsWith(p)' = GoodsWith(p)
<1> DEFINE a == lot[p].amount
           l == [lot[p] EXCEPT !.bought = TRUE, !.buyer = p]
<1>1. pc[p] = "mark" /\ pc'[p] = "idle" /\ stock' = stock
  BY DEF Mark, GoTo, Inv, Types
<1>2. lots' = [lots EXCEPT ![uid[p]] = l]
  BY DEF Mark, BuyPut, Set, Counters, Sound
<1>3. lot[p] \in Lot /\ uid[p] \in Uids /\ lots[uid[p]] = lot[p] /\ ~lot[p].bought
  <2>1. CopiesCurrent(p)
    BY CurrentBefore DEF Command
  <2> QED
    BY <1>1, <2>1 DEF CopiesCurrent, BuyCalls, Inv, Types, Copied
<1>4. l \in Lot /\ l.bought /\ a \in Int
  <2>1. l \in Lot
    BY <1>3, LotBought
  <2> QED
    BY <1>3, <2>1 DEF Lot
<1>5. OnSale[uid[p]] = a
  BY <1>3, NoLotAssumption DEF OnSale
<1>6. GoodsDue(p) = -a /\ GoodsDue(p)' = 0
  BY <1>1 DEF GoodsDue
<1> HIDE DEF a, l
<1>7. SumFunction(OnSale)' = SumFunction(OnSale) + (0 - a)
  BY <1>2, <1>3, <1>4, <1>5, OnSalePut
<1> QED
  BY <1>1, <1>4, <1>6, <1>7, SumsAreInts DEF GoodsWith, GoodsNow

LEMMA GoodsByDeduct ==
    ASSUME Inv, Counters, Order, Current, NEW p \in Players, Deduct(p), ~overlapped', Sound'
    PROVE  GoodsWith(p)' = GoodsWith(p)
<1> DEFINE a == lot[p].amount
<1>1. pc[p] = "deduct" /\ lot' = lot /\ lots' = lots
  BY DEF Deduct, copies
<1>2. SumFunction(OnSale)' = SumFunction(OnSale)
  BY <1>1 DEF OnSale
<1>3. \/ stock' = stock /\ pc'[p] = "idle"
      \/ stock' = [stock EXCEPT ![p] = goods[p] - a] /\ pc'[p] = "uid"
  BY DEF Deduct, SellPut, Set, GoTo, Inv, Types
<1>4. goods[p] = stock[p] /\ stock[p] \in Int /\ a \in Int
  <2>1. CopiesCurrent(p)
    BY CurrentBefore DEF Command
  <2> QED
    BY <1>1, <2>1 DEF CopiesCurrent, Inv, Types, Copied, Lot
<1>5. GoodsDue(p) = 0 /\ (pc'[p] = "idle" => GoodsDue(p)' = 0) /\ (pc'[p] = "uid" => GoodsDue(p)' = a)
  BY <1>1 DEF GoodsDue
<1> HIDE DEF a
<1>6. CASE pc'[p] = "idle"
  BY <1>2, <1>3, <1>5, <1>6, SumsAreInts DEF GoodsWith, GoodsNow
<1>7. CASE pc'[p] = "uid"
  <2>1. SumFunction(stock') = SumFunction(stock) + ((stock[p] - a) - stock[p])
    <3>1. stock \in [Players -> Int] /\ stock[p] - a \in Int
      BY <1>4 DEF Inv, Types
    <3>2. stock' = [stock EXCEPT ![p] = stock[p] - a]
      BY <1>3, <1>4, <1>7
    <3> QED
      BY <1>3, <1>4, <1>7, <3>1, <3>2, RowPut
  <2> QED
    BY <1>2, <1>4, <1>5, <1>7, <2>1, SumsAreInts DEF GoodsWith, GoodsNow
<1> QED
  BY <1>3, <1>6, <1>7

LEMMA GoodsByList ==
    ASSUME Inv, Counters, Order, Current, NEW p \in Players, List(p), ~overlapped', Sound'
    PROVE  GoodsWith(p)' = GoodsWith(p)
<1> DEFINE a == lot[p].amount
<1>1. pc[p] = "list" /\ lot' = lot /\ stock' = stock
  BY DEF List, copies
<1>2. \/ lots' = lots /\ pc'[p] = "rollback"
      \/ lots' = [lots EXCEPT ![uid[p]] = lot[p]] /\ pc'[p] = "idle"
  BY DEF List, SellPut, Set, GoTo, Inv, Types
<1>3. /\ lot[p] \in Lot /\ uid[p] \in Uids /\ lots[uid[p]] = NoLot /\ ~lot[p].bought
      /\ a \in Int
  <2>1. CopiesCurrent(p) /\ LotUnmoved(p)
    BY CurrentBefore DEF Command
  <2> QED
    BY <1>1, <2>1 DEF CopiesCurrent, LotUnmoved, SellCalls, Inv, Types, Copied, Lot
<1>4. GoodsDue(p) = a /\ (pc'[p] = "idle" => GoodsDue(p)' = 0) /\ (pc'[p] = "rollback" => GoodsDue(p)' = a)
  BY <1>1 DEF GoodsDue
<1> HIDE DEF a
<1>5. CASE lots' = lots /\ pc'[p] = "rollback"
  <2>1. SumFunction(OnSale)' = SumFunction(OnSale)
    BY <1>5 DEF OnSale
  <2> QED
    BY <1>1, <1>4, <1>5, <2>1 DEF GoodsWith, GoodsNow
<1>6. CASE lots' = [lots EXCEPT ![uid[p]] = lot[p]] /\ pc'[p] = "idle"
  <2>1. OnSale[uid[p]] = 0 /\ lot[p] # NoLot
    BY <1>3, NoLotAssumption DEF OnSale
  <2>2. SumFunction(OnSale)' = SumFunction(OnSale) + (a - 0)
    BY <1>3, <1>6, <2>1, OnSalePut DEF a
  <2> QED
    BY <1>1, <1>3, <1>4, <1>6, <2>2, SumsAreInts DEF GoodsWith, GoodsNow
<1> QED
  BY <1>2, <1>5, <1>6

\* The put that gives the goods back would be the second to fail.
LEMMA GoodsByRollback ==
    ASSUME Inv, Counters, Order, Current, NEW p \in Players, Rollback(p), ~overlapped', Sound'
    PROVE  GoodsWith(p)' = GoodsWith(p)
<1> DEFINE a == lot[p].amount
<1>1. pc[p] = "rollback" /\ pc'[p] = "idle" /\ lots' = lots
  BY DEF Rollback, GoTo, Inv, Types
<1>2. goods[p] = stock[p] + a /\ stock[p] \in Int /\ a \in Int /\ faults >= 1
  <2>1. CopiesCurrent(p)
    BY CurrentBefore DEF Command
  <2> QED
    BY <1>1, <2>1 DEF CopiesCurrent, Inv, Types, Copied, Lot
<1>3. stock' = [stock EXCEPT ![p] = stock[p] + a]
  BY <1>2 DEF Rollback, SellPut, Set, Counters, Sound
<1>4. GoodsDue(p) = a /\ GoodsDue(p)' = 0
  BY <1>1 DEF GoodsDue
<1> HIDE DEF a
<1>5. SumFunction(stock') = SumFunction(stock) + ((stock[p] + a) - stock[p])
  <2>1. stock \in [Players -> Int] /\ stock[p] + a \in Int
    BY <1>2 DEF Inv, Types
  <2> QED
    BY <1>3, <2>1, RowPut
<1>6. SumFunction(OnSale)' = SumFunction(OnSale)
  BY <1>1 DEF OnSale
<1> QED
  BY <1>2, <1>4, <1>5, <1>6, SumsAreInts DEF GoodsWith, GoodsNow

LEMMA GoodsByOthers ==
    ASSUME Inv, Counters, NEW p \in Players, Command(p),
           ~Deliver(p), ~Mark(p), ~Deduct(p), ~List(p), ~Rollback(p), Sound'
    PROVE  GoodsWith(p)' = GoodsWith(p)
<1>1. stock' = stock /\ lots' = lots
  BY DEF Command, BuyLot, BuyBuyer, BuySeller, BuySector, Debit, Credit,
     SellLoad, SellUid, ReadFails, rows
<1>2. CASE SellUid(p)
  <2>1. pc[p] = "uid" /\ pc'[p] = "list" /\ lot' = lot
    BY <1>2 DEF SellUid, GoTo, Inv, Types
  <2> QED
    BY <1>1, <2>1 DEF GoodsWith, GoodsNow, GoodsDue, OnSale
<1>3. CASE ReadFails(p)
  <2>1. pc[p] # "uid"
    BY <1>3 DEF ReadFails, Sound, Counters
  <2>2. pc[p] \in {"buyer", "seller", "sector"} /\ pc'[p] = "idle"
    BY <1>3, <2>1 DEF ReadFails, GoTo, Inv, Types
  <2> QED
    BY <1>1, <2>2 DEF GoodsWith, GoodsNow, GoodsDue, OnSale
<1>4. CASE ~SellUid(p) /\ ~ReadFails(p)
  <2>1. pc[p] \in {"idle", "buyer", "seller", "sector", "debit", "credit"}
    BY <1>4 DEF Command, BuyLot, BuyBuyer, BuySeller, BuySector, Debit, Credit, SellLoad, Begin
  <2>2. pc'[p] \in {"idle", "buyer", "seller", "sector", "debit", "credit", "deliver", "deduct"}
    BY <1>4, <2>1 DEF Command, BuyLot, BuyBuyer, BuySeller, BuySector, Debit, Credit, SellLoad,
       GoTo, Inv, Types
  <2> QED
    BY <1>1, <2>1, <2>2 DEF GoodsWith, GoodsNow, GoodsDue, OnSale
<1> QED
  BY <1>2, <1>3, <1>4

\* The market loop deletes lots that are not for sale.
LEMMA GoodsKeep ==
    ASSUME Inv, Counters, Order, Current, GoodsTally, Keep
    PROVE  GoodsTally'
<1> SUFFICES ASSUME ~overlapped', Sound'
             PROVE  GoodsTally'
  BY DEF GoodsTally, Sound
<1>1. UNCHANGED <<pc, lot, stock>> /\ ~overlapped
  BY DEF Keep, Scan, ReadPurse, Refund, DeleteLot, copies, rows, Order
<1>2. Sound
  BY SoundBefore DEF Next
<1>3. SumFunction(OnSale)' = SumFunction(OnSale)
  <2>1. CASE UNCHANGED lots
    BY <2>1 DEF OnSale
  <2>2. ASSUME NEW t \in todo, DeleteLot(t)
        PROVE  <1>3
    <3>1. lots' = [lots EXCEPT ![t.uid] = NoLot]
      BY <2>2 DEF DeleteLot, BuyPut, Set, Sound, Counters
    <3>2. t.uid \in Uids /\ lots[t.uid] = t.lot /\ t.lot.bought
      BY <1>1 DEF Current, KeeperCurrent, Inv, Types
    <3>3. OnSale[t.uid] = 0
      BY <3>2 DEF OnSale
    <3>4. SumFunction(OnSale)' = SumFunction(OnSale) + (0 - 0)
      BY <3>1, <3>2, <3>3, OnSalePut
    <3> QED
      BY <3>4, SumsAreInts
  <2> QED
    BY <2>1, <2>2 DEF Keep, Scan, ReadPurse, Refund, rows
<1> QED
  BY <1>1, <1>2, <1>3 DEF GoodsTally, Sound, Quiet, Busy, GoodsNow, GoodsDue, AllGoods

LEMMA GoodsInit == Init => GoodsTally
<1> SUFFICES ASSUME Init PROVE GoodsTally
  OBVIOUS
<1>1. SumFunction(stock) = AllGoods
  <2>1. StartStock \in Int /\ stock = [p \in Players |-> StartStock]
    BY DEF Init
  <2>2. SumFunction([p \in Players |-> StartStock]) = StartStock * Cardinality(Players)
    BY <2>1, PlayersFinite, SumOfAllConstant
  <2> QED
    BY <2>1, <2>2 DEF AllGoods
<1>2. SumFunction(OnSale) = 0
  <2>1. PICK c \in Int : c = 0
    OBVIOUS
  <2>2. OnSale = [u \in Uids |-> c]
    BY <2>1 DEF Init, OnSale
  <2>3. SumFunction([u \in Uids |-> c]) = c * Cardinality(Uids)
    BY UidsFinite, SumOfAllConstant
  <2>4. Cardinality(Uids) \in Nat /\ \A n \in Nat : 0 * n = 0
    BY UidsFinite, FS_CardinalityType
  <2> QED
    BY <2>1, <2>2, <2>3, <2>4
<1>3. \A p \in Players : ~Busy(p)
  BY DEF Init, Busy
<1> QED
  BY <1>1, <1>2, <1>3, AllAreInts DEF GoodsTally, GoodsNow

LEMMA GoodsStep ==
    Inv /\ Counters /\ Order /\ Current /\ GoodsTally /\ [Next]_vars => GoodsTally'
<1> SUFFICES ASSUME Inv, Counters, Order, Current, GoodsTally, [Next]_vars PROVE GoodsTally'
  OBVIOUS
<1>1. CASE UNCHANGED vars \/ NextDay
  <2>1. UNCHANGED <<stock, lots, lot, pc, overlapped, faults, buyFaults, uidFaults>>
    BY <1>1 DEF vars, rows, copies, history, NextDay
  <2> QED
    BY <2>1 DEF GoodsTally, Quiet, Busy, GoodsDue, GoodsNow, OnSale, AllGoods
<1>2. ASSUME NEW p \in Players, Command(p)
      PROVE  GoodsTally'
  BY <1>2, GoodsByDeliver, GoodsByMark, GoodsByDeduct, GoodsByList, GoodsByRollback,
     GoodsByOthers, GoodsByOne
<1> QED
  BY <1>1, <1>2, GoodsKeep DEF Next

\* With one command at a time the market loses and makes neither money nor
\* goods: what it has at rest is what it began with, and the refunds.
THEOREM MoneyAndGoodsAreAccounted == Spec => []Accounted
<1> DEFINE IInv == Inv /\ Counters /\ Order /\ Current /\ MoneyTally /\ GoodsTally
<1>1. Init => IInv
  BY InvInit, CountersInit, OrderInit, CurrentInit, MoneyInit, GoodsInit
<1>2. IInv /\ [Next]_vars => IInv'
  BY InvStep, CountersStep, OrderStep, CurrentStep, MoneyStep, GoodsStep
<1>3. IInv => Accounted
  <2> SUFFICES ASSUME IInv PROVE Accounted
    OBVIOUS
  <2>1. Resting => Quiet
    BY DEF Resting, Quiet, Busy
  <2>2. MoneyAccounted
    BY <2>1 DEF MoneyTally, MoneyAccounted, AllMoney
  <2>3. GoodsConserved
    BY <2>1 DEF GoodsTally, GoodsConserved, GoodsInPlace, GoodsNow, AllGoods
  <2> QED
    BY <2>2, <2>3 DEF Accounted
<1> QED
  BY <1>1, <1>2, <1>3, PTL DEF Spec
=============================================================================
