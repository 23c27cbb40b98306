------------------------------- MODULE Market -------------------------------
(***************************************************************************)
(* The commodity market of empire-server: "sell" (sell.rs), "buy" (buy.rs) *)
(* and the clean-up of bought lots (check_market of marketup.rs), on the   *)
(* rows of trades.rs.                                                      *)
(*                                                                         *)
(* Every database call is a step of its own: all of these run under the    *)
(* shared lock of the game state and interleave at every await.  A put     *)
(* writes the whole row from the copy the task has made of it earlier.     *)
(* Updates exclude all of this (module GameServer) and are not modelled.   *)
(*                                                                         *)
(* Each country has one sector, which it sells from and where purchases    *)
(* are delivered, and there is one commodity.  Prices are in half dollars, *)
(* so that the truncation of "cost as i32" shows.                          *)
(***************************************************************************)
EXTENDS Naturals, Integers, FiniteSets, FiniteSetsExt, Functions

CONSTANTS Players,      \* countries, each with a session that plays
          NoLot,        \* no such row
          MaxUid,       \* bound on lot numbers
          Amounts,      \* amounts a "sell" may name
          Prices,       \* prices per unit a "sell" may name, in half dollars
          MaxItem,      \* i16::MAX, what a sector can hold
          StartMoney, StartStock,   \* treasury and stock at the beginning
          MaxSales,     \* bound on "sell" commands
          MaxDays,      \* bound on the days that pass
          MaxFaults     \* bound on failing database calls

ASSUME MarketAssumption ==
    /\ IsFiniteSet(Players)
    /\ NoLot \notin Players
    /\ MaxUid \in Nat \ {0}
    /\ Amounts \subseteq Nat \ {0}
    /\ Prices \subseteq Nat \ {0}
    /\ MaxItem \in Nat /\ StartMoney \in Nat
    /\ StartStock \in 0..MaxItem
    /\ MaxSales \in Nat /\ MaxDays \in Nat /\ MaxFaults \in Nat

Uids == 1..MaxUid

VARIABLES
    money, stock,   \* the rows of the countries and of their sectors
    lots,           \* trade_items
    day,            \* days since the beginning
    overlapped,     \* history: whether a command began while another ran
    pc,             \* the next database call of each player's command
    uid, lot,       \* the lot a command works on, and its copy of the row
    buyer, seller,  \* copies of the treasuries "buy" has read
    goods,          \* copy of the stock "buy" or "sell" has read
    kpc, todo, purse,   \* the market loop: next call, lots left, copied treasury
    sales, faults,  \* bounds: sells begun, database calls failed
    buyFaults,      \* history: failed calls of "buy" and of the market loop
    uidFaults,      \* history: failed calls of next_uid
    refunded        \* history: money paid back by the market loop

rows    == <<money, stock, lots>>
copies  == <<uid, lot, buyer, seller, goods>>
keeper  == <<kpc, todo, purse>>
history == <<sales, faults, buyFaults, uidFaults, refunded>>
vars == <<rows, day, overlapped, pc, copies, keeper, history>>

Lot == [seller: Players, amount: 1..MaxItem, price: Prices,
        created: Nat, bought: BOOLEAN, buyer: Players]

ASSUME NoLotAssumption == NoLot \notin Lot

Cost(l) == (l.amount * l.price) \div 2     \* cost as i32

BuyCalls  == {"buyer", "seller", "sector", "debit", "credit", "deliver", "mark"}
SellCalls == {"deduct", "uid", "list", "rollback"}

TypeOK ==
    /\ money \in [Players -> Int]
    /\ stock \in [Players -> Int]
    /\ lots \in [Uids -> Lot \cup {NoLot}]
    /\ day \in Nat
    /\ overlapped \in BOOLEAN
    /\ pc \in [Players -> {"idle"} \cup BuyCalls \cup SellCalls]
    /\ uid \in [Players -> Uids]
    /\ lot \in [Players -> Lot \cup {NoLot}]
    /\ buyer \in [Players -> Int] /\ seller \in [Players -> Int]
    /\ goods \in [Players -> Int]
    /\ kpc \in {"idle", "work", "refund", "delete"}
    /\ todo \subseteq [uid: Uids, lot: Lot]
    /\ purse \in Int
    /\ sales \in Nat /\ faults \in Nat /\ buyFaults \in Nat /\ uidFaults \in Nat
    /\ refunded \in Nat

Init ==
    /\ money = [p \in Players |-> StartMoney]
    /\ stock = [p \in Players |-> StartStock]
    /\ lots = [u \in Uids |-> NoLot]
    /\ day = 0
    /\ overlapped = FALSE
    /\ pc = [p \in Players |-> "idle"]
    /\ uid = [p \in Players |-> 1]
    /\ lot = [p \in Players |-> NoLot]
    /\ buyer = [p \in Players |-> 0] /\ seller = [p \in Players |-> 0]
    /\ goods = [p \in Players |-> 0]
    /\ kpc = "idle" /\ todo = {} /\ purse = 0
    /\ sales = 0 /\ faults = 0 /\ buyFaults = 0 /\ uidFaults = 0 /\ refunded = 0

Resting == kpc = "idle" /\ \A p \in Players : pc[p] = "idle"

\* The read lock is shared, so a command may begin while others run.
Begin(p) == pc[p] = "idle" /\ overlapped' = (overlapped \/ ~Resting)

GoTo(p, c) == pc' = [pc EXCEPT ![p] = c]
Set(f, p, v) == [f EXCEPT ![p] = v]

\* A put succeeds, or fails and leaves the row as it is.
BuyPut(f, p, v, next) ==
    \/ next = Set(f, p, v) /\ UNCHANGED <<faults, buyFaults>>
    \/ /\ faults < MaxFaults
       /\ next = f
       /\ faults' = faults + 1 /\ buyFaults' = buyFaults + 1

SellPut(f, p, v, next, ok, failed) ==
    \/ next = Set(f, p, v) /\ UNCHANGED faults /\ ok
    \/ /\ faults < MaxFaults
       /\ next = f
       /\ faults' = faults + 1 /\ failed

-----------------------------------------------------------------------------
(* Faulty variants of the definitions below.  Nothing in the specification *)
(* uses them: each stands for a mistake that a property must catch.        *)

\* "buy" that does not look whether the sector can hold the goods.
BuySectorUnchecked(p) ==
    /\ pc[p] = "sector"
    /\ goods' = Set(goods, p, stock[p])
    /\ GoTo(p, "debit")
    /\ UNCHANGED <<rows, day, overlapped, uid, lot, buyer, seller, keeper, history>>

\* A number one above the lots for sale, the bought ones left out.
NextUidForSale == 1 + Max({0} \cup {u \in Uids : lots[u] # NoLot /\ ~lots[u].bought})

\* "sell" without the rollback.
ListNoRollback(p) ==
    /\ pc[p] = "list"
    /\ SellPut(lots, uid[p], lot[p], lots', GoTo(p, "idle"), GoTo(p, "idle"))
    /\ UNCHANGED <<money, stock, day, overlapped, copies, keeper, sales, buyFaults, uidFaults, refunded>>

-----------------------------------------------------------------------------
(* "buy LOT#": purchase_lot()                                              *)

\* The lot must exist, be for sale, and not be the player's own.
ForSaleTo(p, u) == lots[u] # NoLot /\ ~lots[u].bought /\ lots[u].seller # p

BuyLot(p, u) ==
    /\ Begin(p)
    /\ \/ /\ ForSaleTo(p, u)
          /\ uid' = Set(uid, p, u)
          /\ lot' = Set(lot, p, lots[u])
          /\ GoTo(p, "buyer")
       \/ /\ ~ForSaleTo(p, u)
          /\ UNCHANGED <<uid, lot, pc>>
    /\ UNCHANGED <<rows, day, buyer, seller, goods, keeper, history>>

\* A buyer who cannot afford the lot is turned away.
BuyBuyer(p) ==
    /\ pc[p] = "buyer"
    /\ buyer' = Set(buyer, p, money[p])
    /\ GoTo(p, IF 2 * money[p] < lot[p].amount * lot[p].price
                 THEN "idle" ELSE "seller")
    /\ UNCHANGED <<rows, day, overlapped, uid, lot, seller, goods, keeper, history>>

BuySeller(p) ==
    /\ pc[p] = "seller"
    /\ seller' = Set(seller, p, money[lot[p].seller])
    /\ GoTo(p, "sector")
    /\ UNCHANGED <<rows, day, overlapped, uid, lot, buyer, goods, keeper, history>>

\* The delivery sector must be able to hold the goods.
BuySector(p) ==
    /\ pc[p] = "sector"
    /\ goods' = Set(goods, p, stock[p])
    /\ GoTo(p, IF stock[p] + lot[p].amount > MaxItem THEN "idle" ELSE "debit")
    /\ UNCHANGED <<rows, day, overlapped, uid, lot, buyer, seller, keeper, history>>

\* The four puts are all tried, whatever becomes of the earlier ones.
Debit(p) ==
    /\ pc[p] = "debit"
    /\ BuyPut(money, p, buyer[p] - Cost(lot[p]), money')
    /\ GoTo(p, "credit")
    /\ UNCHANGED <<stock, lots, day, overlapped, copies, keeper, sales, uidFaults, refunded>>

Credit(p) ==
    /\ pc[p] = "credit"
    /\ BuyPut(money, lot[p].seller, seller[p] + Cost(lot[p]), money')
    /\ GoTo(p, "deliver")
    /\ UNCHANGED <<stock, lots, day, overlapped, copies, keeper, sales, uidFaults, refunded>>

Deliver(p) ==
    /\ pc[p] = "deliver"
    /\ BuyPut(stock, p, goods[p] + lot[p].amount, stock')
    /\ GoTo(p, "mark")
    /\ UNCHANGED <<money, lots, day, overlapped, copies, keeper, sales, uidFaults, refunded>>

Mark(p) ==
    /\ pc[p] = "mark"
    /\ BuyPut(lots, uid[p], [lot[p] EXCEPT !.bought = TRUE, !.buyer = p], lots')
    /\ GoTo(p, "idle")
    /\ UNCHANGED <<money, stock, day, overlapped, copies, keeper, sales, uidFaults, refunded>>

-----------------------------------------------------------------------------
(* "sell ITEM AMOUNT PRICE SECT": run() of sell.rs                         *)

\* The lot is made of what is there, up to the amount named.
SellLoad(p, amount, price) ==
    /\ Begin(p)
    /\ sales < MaxSales
    /\ sales' = sales + 1
    /\ stock[p] > 0
    /\ goods' = Set(goods, p, stock[p])
    /\ lot' = Set(lot, p,
                  [seller |-> p, amount |-> Min({amount, stock[p]}),
                   price |-> price, created |-> day, bought |-> FALSE,
                   buyer |-> p])
    /\ GoTo(p, "deduct")
    /\ UNCHANGED <<rows, day, uid, buyer, seller, keeper, faults, buyFaults, uidFaults, refunded>>

Deduct(p) ==
    /\ pc[p] = "deduct"
    /\ SellPut(stock, p, goods[p] - lot[p].amount, stock', GoTo(p, "uid"), GoTo(p, "idle"))
    /\ UNCHANGED <<money, lots, day, overlapped, copies, keeper, sales, buyFaults, uidFaults, refunded>>

\* next_uid: one more than the largest number in use.
NextUid == 1 + Max({0} \cup {u \in Uids : lots[u] # NoLot})

SellUid(p) ==
    /\ pc[p] = "uid"
    /\ NextUid \in Uids
    /\ uid' = Set(uid, p, NextUid)
    /\ GoTo(p, "list")
    /\ UNCHANGED <<rows, day, overlapped, lot, buyer, seller, goods, keeper, history>>

List(p) ==
    /\ pc[p] = "list"
    /\ SellPut(lots, uid[p], lot[p], lots', GoTo(p, "idle"), GoTo(p, "rollback"))
    /\ UNCHANGED <<money, stock, day, overlapped, copies, keeper, sales, buyFaults, uidFaults, refunded>>

\* The put of the lot failed: the sector gets back what it had when read.
Rollback(p) ==
    /\ pc[p] = "rollback"
    /\ SellPut(stock, p, goods[p], stock', TRUE, TRUE)
    /\ GoTo(p, "idle")
    /\ UNCHANGED <<money, lots, day, overlapped, copies, keeper, sales, buyFaults, uidFaults, refunded>>

\* A read that fails ends the command where it is.
ReadFails(p) ==
    /\ pc[p] \in {"buyer", "seller", "sector", "uid"}
    /\ faults < MaxFaults
    /\ faults' = faults + 1
    /\ uidFaults' = IF pc[p] = "uid" THEN uidFaults + 1 ELSE uidFaults
    /\ GoTo(p, "idle")
    /\ UNCHANGED <<rows, day, overlapped, copies, keeper, sales, buyFaults, refunded>>

-----------------------------------------------------------------------------
(* The market loop: check_market()                                         *)

\* get_all, then the bought lots listed more than a day ago, by number.
Scan ==
    /\ kpc = "idle" /\ overlapped' = (overlapped \/ ~Resting)
    /\ todo' = {[uid |-> u, lot |-> lots[u]] :
                  u \in {v \in Uids : /\ lots[v] # NoLot
                                      /\ lots[v].bought
                                      /\ day > lots[v].created}}
    /\ todo' # {}
    /\ kpc' = "work"
    /\ UNCHANGED <<rows, day, pc, copies, purse, history>>

First(t) == t \in todo /\ \A v \in todo : t.uid <= v.uid

\* A treasury that cannot be read is not paid; the lot is deleted all the same.
ReadPurse(t) ==
    /\ kpc = "work" /\ First(t)
    /\ \/ /\ purse' = money[t.lot.buyer]
          /\ kpc' = "refund"
          /\ UNCHANGED <<faults, buyFaults>>
       \/ /\ faults < MaxFaults
          /\ faults' = faults + 1 /\ buyFaults' = buyFaults + 1
          /\ kpc' = "delete"
          /\ UNCHANGED purse
    /\ UNCHANGED <<rows, day, overlapped, pc, copies, todo, sales, uidFaults, refunded>>

Refund(t) ==
    /\ kpc = "refund" /\ First(t)
    /\ \/ /\ money' = Set(money, t.lot.buyer, purse + Cost(t.lot))
          /\ refunded' = refunded + Cost(t.lot)
          /\ UNCHANGED <<faults, buyFaults>>
       \/ /\ faults < MaxFaults
          /\ faults' = faults + 1 /\ buyFaults' = buyFaults + 1
          /\ UNCHANGED <<money, refunded>>
    /\ kpc' = "delete"
    /\ UNCHANGED <<stock, lots, day, overlapped, pc, copies, todo, purse, sales, uidFaults>>

DeleteLot(t) ==
    /\ kpc = "delete" /\ First(t)
    /\ BuyPut(lots, t.uid, NoLot, lots')
    /\ todo' = todo \ {t}
    /\ kpc' = IF todo' = {} THEN "idle" ELSE "work"
    /\ UNCHANGED <<money, stock, day, overlapped, pc, copies, purse, sales, uidFaults, refunded>>

-----------------------------------------------------------------------------
NextDay ==
    /\ day < MaxDays
    /\ day' = day + 1
    /\ UNCHANGED <<rows, overlapped, pc, copies, keeper, history>>

Command(p) ==
    \/ \E u \in Uids : BuyLot(p, u)
    \/ BuyBuyer(p) \/ BuySeller(p) \/ BuySector(p)
    \/ Debit(p) \/ Credit(p) \/ Deliver(p) \/ Mark(p)
    \/ \E a \in Amounts, c \in Prices : SellLoad(p, a, c)
    \/ Deduct(p) \/ SellUid(p) \/ List(p) \/ Rollback(p)
    \/ ReadFails(p)

Keep == Scan \/ \E t \in todo : ReadPurse(t) \/ Refund(t) \/ DeleteLot(t)

Next == (\E p \in Players : Command(p)) \/ Keep \/ NextDay

Spec == Init /\ [][Next]_vars

-----------------------------------------------------------------------------
(* Properties *)

\* No treasury is overdrawn by the market, however commands interleave and
\* whichever database calls fail: what is paid was there when it was read.
NoOverdraft == \A p \in Players : money[p] >= 0

\* A sector's stock stays within the width of its column.
StockInRange == \A p \in Players : stock[p] \in 0..MaxItem

\* However commands overlap and whichever puts fail, both bounds are kept,
\* and every variable keeps its type.
WithinBounds == TypeOK /\ NoOverdraft /\ StockInRange

\* With one command at a time, only the market loop's refunds change how
\* much money there is, as long as the puts of "buy" succeed.
MoneyAccounted ==
    Resting /\ ~overlapped /\ buyFaults = 0 =>
        SumFunction(money) = StartMoney * Cardinality(Players) + refunded

OnSale == [u \in Uids |-> IF lots[u] # NoLot /\ ~lots[u].bought THEN lots[u].amount ELSE 0]
GoodsInPlace == SumFunction(stock) + SumFunction(OnSale) = StartStock * Cardinality(Players)

\* With one command at a time, goods are in a sector or in a lot that is for
\* sale, and nothing is lost when one put of "sell" fails.
GoodsConserved ==
    Resting /\ ~overlapped /\ buyFaults = 0 /\ uidFaults = 0 /\ faults <= 1 => GoodsInPlace

\* With one command at a time, the market makes and loses no money and no
\* goods but what its refunds and the failing puts of "buy" account for.
Accounted == MoneyAccounted /\ GoodsConserved

\* With one command at a time, a bought lot is never listed or bought again:
\* its row stays as it is until the market loop deletes it.
BoughtLotFinal ==
    [][\A u \in Uids :
        ~overlapped /\ lots[u] # NoLot /\ lots[u].bought
            => lots'[u] \in {lots[u], NoLot}]_lots
=============================================================================
