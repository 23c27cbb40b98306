------------------------------ MODULE Economy ------------------------------
(***************************************************************************)
(* The economy of an update of empire-server: update_main in update.rs     *)
(* without the movement of goods, which is module Distribution (here:      *)
(* Carry), the accrual of mobility, which is there as well, and loading    *)
(* and storing, which are in GameServer.                                   *)
(*                                                                         *)
(* update_main works on copies of all rows, under the exclusive lock: a    *)
(* loop for each part, which visits the rows in order.  A step here is one *)
(* turn of such a loop.  The treasury of a nation is simulated in its      *)
(* Budget and written to the nation by prod_nat.                           *)
(*                                                                         *)
(* Floating-point numbers are fractions <<n, d>>; amounts of money are cut *)
(* to a unit of which a dollar has Dollar.  round_avg cuts or rounds up by *)
(* chance.  The levels of technology and education, which grow by          *)
(* logarithms and chance, may be any of LevelChoices after an update.      *)
(***************************************************************************)
EXTENDS Dimensions, Sequences, FiniteSets

CONSTANTS NNations, NUnits,    \* rows, with NSectors, in the order of the tables
          Playing,              \* nations of status Active or above
          Items, Deposits,      \* commodities, and what is in the ground
          Types, TypeChr,       \* sector types with their SectorChr
          Products, ProductChr, \* products with their ProductChr
          Coastal,              \* sectors where a harbor may be
          Kind, UnitChr,        \* of each unit: "ship", "plane" or "land"; its characteristics
          OilField, Agri,       \* the sector types whose products are drilled and fished for
          Dollar, Etu,
          CivTax, UwTax, MilPay, BankInterest, ReservePay,   \* money per update
          CivBirths, UwBirths, Eats, BabyEats,     \* thousandths, per update
          WorkBump, GrowCap,    \* points of work and efficiency, per update
          LevelChoices,         \* what levels the nations may have
          Starts,               \* rows of sectors, units and nations to begin with
          MaxCarried            \* bound on what is carried at once

Nations == 1..NNations
Units == 1..NUnits
Levels == {"tech", "education"}
Headings == {"civ", "uw", "mil", "bars", "ship", "plane", "land", "build", "maint", "prod"}

Sector == [own : 0..NNations, oldOwn : 0..NNations, type : Types, newType : Types,
           effic : 0..100, avail : Nat, work : 0..100, loyal : Nat, off : BOOLEAN,
           items : [Items -> 0..ItemMax], deposit : [Deposits -> 0..100]]
Unit == [own : 0..NNations, at : Sectors, effic : 0..100, off : BOOLEAN,
         items : [Items -> 0..ItemMax]]
Nation == [money : Int, reserve : Int, level : [Levels -> Int]]
Budget == [start : Int, money : Int, book : [Headings -> Int]]

TypeRecord == [water : BOOLEAN, sanct : BOOLEAN, deity : BOOLEAN, enlist : BOOLEAN,
               bank : BOOLEAN, yard : SUBSET {"ship", "plane"}, hq : BOOLEAN,
               maxpop : Nat, maint : Nat, bwork : Nat, cost : Nat,
               product : Products \cup {"none"}, peff : Nat]
Input == [item : Items, amount : Nat]     \* amount 0 for no input
ProductRecord == [inputs : [1..3 -> Input], output : Items \cup {"level"}, bwork : Nat,
                  cost : Nat, resource : Deposits \cup {"none"}, nrdep : Nat,
                  needs : Levels \cup {"none"}, min : Int, lag : Nat]
UnitRecord == [bwork : Nat, lcm : Nat, hcm : Nat, cost : Nat, drills : BOOLEAN,
               fishes : BOOLEAN, room : [Items -> 0..ItemMax]]

ASSUME EconomyAssumption ==
    /\ NNations \in Nat /\ NSectors \in Nat \ {0} /\ NUnits \in Nat \ {0}
    /\ Playing \subseteq Nations
    /\ {"civil", "milit", "uw", "food", "bar", "lcm", "hcm", "oil"} \subseteq Items
    /\ {"fertil", "oil"} \subseteq Deposits
    /\ TypeChr \in [Types -> TypeRecord]
    /\ ProductChr \in [Products -> ProductRecord]
    /\ Coastal \subseteq Sectors
    /\ Kind \in [Units -> {"ship", "plane", "land"}]
    /\ UnitChr \in [Units -> UnitRecord]
    /\ {OilField, Agri} \subseteq Types
    /\ {TypeChr[OilField].product, TypeChr[Agri].product} \subseteq Products
    /\ Dollar \in Nat \ {0} /\ Etu \in Nat \ {0} /\ ItemMax \in Nat
    /\ {CivTax, UwTax, BankInterest} \subseteq Nat /\ {MilPay, ReservePay} \subseteq Int
    /\ {CivBirths, UwBirths, Eats, BabyEats, WorkBump} \subseteq Nat
    /\ GrowCap \in [{"ship", "plane", "land"} -> Nat]
    /\ LevelChoices \subseteq [Nations -> [Levels -> Int]]
    /\ Starts \subseteq [sect : [Sectors -> Sector], unit : [Units -> Unit],
                         nat : [Nations -> Nation]]
    /\ MaxCarried \in Nat /\ MaxOrders \in Nat /\ MaxUpdates \in Nat

\* What the tables of the code have in common (sector_chr.rs, product_chr.rs):
\* no type houses more than fits a store, no product takes the same item
\* twice, people are neither used up nor made, and the oil of a deposit is a
\* whole number.
People == {"civil", "milit", "uw"}
ASSUME TablesAssumption ==
    /\ ItemMax >= 1 /\ "level" \notin Items
    /\ \A t \in Types : TypeChr[t].maxpop <= ItemMax
    /\ \A c \in Products :
         /\ ProductChr[c].output \notin People
         /\ \A j \in 1..3 : ProductChr[c].inputs[j].amount > 0 =>
              /\ ProductChr[c].inputs[j].item \notin People
              /\ \A k \in 1..3 \ {j} : ProductChr[c].inputs[k].amount > 0 =>
                   ProductChr[c].inputs[k].item # ProductChr[c].inputs[j].item
    /\ LET nrdep == ProductChr[TypeChr[OilField].product].nrdep
       IN nrdep # 0 => 100 % nrdep = 0

VARIABLES
    sect, unit, nat,   \* the rows
    budget,            \* the budgets of the nations
    phase, row,        \* the loop the update is in, and the row it visits next
    orders, updates,   \* bounds: commands given, updates begun
    enlistPay,   \* history: what each nation has paid for recruits in this update
    onCredit,    \* history: how often each has gone into debt by building in this update
    overdrawn    \* history: whether a max(0) has ever hidden a number below zero

history == <<orders, updates, enlistPay, onCredit, overdrawn>>
vars == <<sect, unit, nat, budget, phase, row, history>>

NewBudget(m) == [start |-> m, money |-> m, book |-> [h \in Headings |-> 0]]

Init ==
    /\ \E s \in Starts : sect = s.sect /\ unit = s.unit /\ nat = s.nat
    /\ budget = [n \in Nations |-> NewBudget(0)]
    /\ phase = "idle" /\ row = 1
    /\ orders = 0 /\ updates = 0
    /\ enlistPay = [n \in Nations |-> 0]
    /\ onCredit = [n \in Nations |-> 0]
    /\ overdrawn = FALSE

-----------------------------------------------------------------------------
(* Fractions *)

Lower(a, b) == IF a < b THEN a ELSE b
Higher(a, b) == IF a > b THEN a ELSE b
Less(q, r) == IF q[1] * r[2] <= r[1] * q[2] THEN q ELSE r
Times(q, r) == <<q[1] * r[1], q[2] * r[2]>>
Whole(q) == q[1] \div q[2]
RoundAvg(q) == {Whole(q)} \cup (IF q[1] % q[2] = 0 THEN {} ELSE {Whole(q) + 1})
Rounded(q) ==
    IF q[1] >= 0 THEN (2 * q[1] + q[2]) \div (2 * q[2])
                 ELSE -((q[2] - 2 * q[1]) \div (2 * q[2]))
Percent(k) == <<k, 100>>

-----------------------------------------------------------------------------
(* The loops of update_main *)

\* Faulty: treasuries are written before the units are built.
LoopsNationsFirst == <<"prepare", "reserve", "produce", "goods", "finish",
                       "nat", "ships", "ocean", "planes", "land", "age">>

Loops == <<"prepare", "reserve", "produce", "goods", "finish",
           "ships", "ocean", "planes", "land", "nat", "age">>
After(p) ==
    LET k == CHOOSE j \in DOMAIN Loops : Loops[j] = p
    IN IF k = Len(Loops) THEN "idle" ELSE Loops[k + 1]
Rows(p) ==
    IF p \in {"prepare", "produce"} THEN NSectors
    ELSE IF p \in {"ships", "ocean", "planes", "land"} THEN NUnits ELSE 1
Advance ==
    IF row < Rows(phase) THEN row' = row + 1 /\ phase' = phase
                         ELSE row' = 1 /\ phase' = After(phase)

\* An amount is added to the balance and to a heading.
Book(b, h, m) ==
    [start |-> b.start, money |-> b.money + m, book |-> [b.book EXCEPT ![h] = @ + m]]

\* Sectors that prepare_sects and produce_sects pass over.
Wild(p) == TypeChr[p.type].water \/ TypeChr[p.type].sanct

\* The nations whose rows prod_nat writes have their treasury in the budget.
BeginUpdate ==
    /\ phase = "idle" /\ updates < MaxUpdates
    /\ phase' = "prepare" /\ row' = 1 /\ updates' = updates + 1
    /\ budget' = [n \in Nations |-> NewBudget(IF n \in Playing THEN Dollar * nat[n].money ELSE 0)]
    /\ enlistPay' = [n \in Nations |-> 0]
    /\ onCredit' = [n \in Nations |-> 0]
    /\ UNCHANGED <<sect, unit, nat, orders, overdrawn>>

-----------------------------------------------------------------------------
(* prepare_sects: workers, taxes, food and births, and who is left *)

\* What people do in an update.
Workers(work, items, maxpop) ==
    LET people(i) == Lower(items[i], maxpop)
    IN <<(people("civil") * work + 40 * people("milit") + 100 * people("uw")) * Etu, 10000>>

Taxed(b, p) ==
    LET share(rate, k) == (rate * p.items[k] * p.effic) \div 100
        bars == IF TypeChr[p.type].bank THEN share(BankInterest, "bar") ELSE 0
        civ == (CivTax * p.items["civil"] * p.effic) \div (IF p.oldOwn = p.own THEN 100 ELSE 400)
    IN Book(Book(Book(Book(b, "civ", civ), "uw", share(UwTax, "uw")),
                 "mil", MilPay * p.items["milit"]), "bars", bars)

Added(p, i, k) == [p EXCEPT !.items[i] = @ + k]

\* The ways a sector may look when its people have eaten, or starved.
Fed(p) ==
    LET civ == p.items["civil"]
        uw == p.items["uw"]
        people == civ + uw + p.items["milit"]
        babies == (civ * CivBirths) \div 1000
        babyUw == (uw * UwBirths) \div 1000
        need == (people + babies + babyUw) * Eats + (babies + babyUw) * BabyEats
        left == 1000 * p.items["food"] - need
    IN IF people = 0 \/ need <= 0 THEN {p}
       ELSE IF left >= 0
       THEN {[Added(Added(p, "civil", babies), "uw", babyUw)
                EXCEPT !.items["food"] = left \div 1000, !.work = Lower(p.work + WorkBump, 100)]}
       ELSE {[Added(Added(p, "civil", -c), "uw", -u) EXCEPT !.items["food"] = 0] :
                c \in RoundAvg(<<-left * civ, 2 * need>>), u \in RoundAvg(<<-left * uw, 2 * need>>)}

Truncated(p) ==
    LET maxpop == Higher(TypeChr[p.type].maxpop, 1)
        Cut(q, i) == [q EXCEPT !.items[i] = Lower(@, maxpop)]
    IN Cut(Cut(p, "civil"), "uw")

\* check_pop_loss: without people a sector is nobody's.
CheckPopLoss(p) ==
    IF p.items["civil"] # 0 THEN p
    ELSE IF p.items["milit"] # 0 THEN [p EXCEPT !.work = 100, !.loyal = 0, !.oldOwn = p.own]
    ELSE [p EXCEPT !.work = 100, !.loyal = 0, !.own = 0, !.oldOwn = 0]

\* Those who are loyal to nobody come over to the owner.
Reconciled(p) == IF p.loyal = 0 THEN [p EXCEPT !.oldOwn = p.own] ELSE p

Settled(p) == Reconciled(CheckPopLoss(Truncated(p)))

\* Faulty: losses are looked at before those who starve are dead.
PreparedBeforeMeal(p) ==
    IF Wild(p) \/ p.own = 0 THEN {p} ELSE UNION {Fed(q) : q \in {Settled(p)}}

Prepared(p) ==
    LET rested == {[p EXCEPT !.avail = Lower(@ \div 2 + w, 10000)] :
            w \in RoundAvg(Workers(p.work, p.items, Higher(TypeChr[p.type].maxpop, 1)))}
    IN IF Wild(p) THEN {p}
       ELSE IF p.own = 0 THEN rested
       ELSE {Settled(q) : q \in UNION {Fed(r) : r \in rested}}

Prepare ==
    /\ phase = "prepare"
    /\ \E q \in Prepared(sect[row]) : sect' = [sect EXCEPT ![row] = q]
    /\ budget' = [n \in Nations |->
            IF n = sect[row].own /\ ~Wild(sect[row]) THEN Taxed(budget[n], sect[row])
                                                  ELSE budget[n]]
    /\ Advance
    /\ UNCHANGED <<unit, nat, history>>

PayReserve ==
    /\ phase = "reserve"
    /\ budget' = [n \in Nations |->
            IF n \in Playing THEN Book(budget[n], "mil", ReservePay * nat[n].reserve)
                             ELSE budget[n]]
    /\ Advance
    /\ UNCHANGED <<sect, unit, nat, history>>

-----------------------------------------------------------------------------
(* produce_sects: upkeep, efficiency, recruits and products *)

\* build_eff: half of the workers, who are not used up, tear down what is to
\* become something else and build what is not finished.
Builders(p) == 100 * (p.avail \div 2)
BuildWork(p) == Higher(TypeChr[p.type].bwork, 1)
TornDown(p) ==
    IF p.type = p.newType THEN 0 ELSE Lower((4 * Builders(p)) \div BuildWork(p), p.effic)
Cleared(p) ==
    LET q == [p EXCEPT !.effic = @ - TornDown(p)]
    IN IF q.effic = 0 THEN [q EXCEPT !.type = p.newType] ELSE q
Grown(p) ==
    IF p.type = p.newType THEN Lower(Builders(p) \div BuildWork(p), 100 - p.effic) ELSE 0
BuildEff(p) ==
    LET q == Cleared(p)
    IN [q EXCEPT !.effic = @ + Grown(q), !.avail = (@ + 1) \div 2 + Builders(q) \div 100]
BuildCost(p) ==
    LET q == Cleared(p)
    IN (Dollar * (25 * TornDown(p) + Grown(q) * TypeChr[q.type].cost)) \div 100

\* enlist, at three dollars a head.
Recruits(p, chr) ==
    IF chr.enlist /\ p.effic >= 60 /\ p.oldOwn = p.own
    THEN Higher(0, Lower((Etu * (10 + p.items["milit"])) \div 20,
                         p.items["civil"] \div 2 - p.items["milit"]))
    ELSE 0
Enlist(p, k) == Added(Added(p, "civil", -k), "milit", k)

ProdEff(d, level, peff) ==
    IF d.needs = "none" THEN Percent(peff)
    ELSE LET delta == level[d.needs] - d.min
         IN IF delta < 0 THEN <<0, 1>> ELSE <<delta * peff, 100 * Higher(d.lag + delta, 1)>>
Resource(p, d) == IF d.resource = "none" THEN 100 ELSE p.deposit[d.resource]
ResourceLimit(p, d) ==
    IF d.nrdep = 0 THEN <<9999, 1>> ELSE <<100 * Resource(p, d), d.nrdep>>
MaterialLimit(p, d) ==
    LET limit(k) == IF d.inputs[k].amount = 0 THEN <<9999, 1>>
                    ELSE <<p.items[d.inputs[k].item], d.inputs[k].amount>>
    IN Less(Less(<<9999, 1>>, limit(1)), Less(limit(2), limit(3)))
\* Faulty: as if the sector were finished.
WorkerLimitUnscaled(p, d) == <<p.avail * Resource(p, d), 100 * Higher(d.bwork, 1)>>
WorkerLimit(p, d) == <<p.avail * p.effic * Resource(p, d), 10000 * Higher(d.bwork, 1)>>
Batch(p, d) == Less(Less(MaterialLimit(p, d), WorkerLimit(p, d)), ResourceLimit(p, d))

\* What is made of a batch, and how much of the batch that takes: what cannot
\* be stored needs no materials, but its labour and ore are gone.
Made(p, d, pe) ==
    LET q == Times(Batch(p, d), pe)
    IN IF d.output = "level" THEN q
       ELSE <<Lower(Whole(q), Higher(ItemMax - p.items[d.output], 0)), 1>>
Used(p, d, pe) ==
    IF d.output = "level" THEN Batch(p, d)
                          ELSE <<Made(p, d, pe)[1] * pe[2], pe[1]>>
Consumed(p, d, pe, i) ==
    LET use(k) == IF d.inputs[k].item # i THEN 0
                  ELSE Rounded(Times(<<d.inputs[k].amount, 1>>, Used(p, d, pe)))
    IN use(1) + use(2) + use(3)
Stored(p, d, pe) ==
    [p EXCEPT !.items = [i \in Items |->
        p.items[i] - Consumed(p, d, pe, i)
             + (IF i = d.output THEN Made(p, d, pe)[1] ELSE 0)]]

\* deplete_resource, and the same for labour: max(0) of what is left.
Depletion(d, amount) ==
    IF d.nrdep = 0 \/ d.resource = "none" THEN {0}
    ELSE RoundAvg(Times(<<d.nrdep, 100>>, amount))
Depleted(p, d, k) ==
    IF d.resource = "none" THEN p ELSE [p EXCEPT !.deposit[d.resource] = Higher(@ - k, 0)]
Tired(p, w) == [p EXCEPT !.avail = Higher(@ - w, 0)]
Labour(p, d) ==
    RoundAvg(<<Higher(d.bwork, 1) * Batch(p, d)[1] * 10000,
               Batch(p, d)[2] * p.effic * Resource(p, d)>>)

\* The outcomes of produce: the sector, the cost, and whether a max(0) hid anything.
Produced(p, chr, level) ==
    LET d == ProductChr[chr.product]
        pe == ProdEff(d, level, chr.peff)
        cost == (Dollar * d.cost * Used(p, d, pe)[1]) \div Used(p, d, pe)[2]
    IN IF chr.product = "none" \/ p.effic < 60
       THEN {[sect |-> p, cost |-> 0, hid |-> FALSE]}
       ELSE IF pe[1] <= 0 \/ p.avail <= 0 \/ Batch(p, d)[1] <= 0
       THEN {[sect |-> p, cost |-> 0, hid |-> FALSE]}
       ELSE {[sect |-> Tired(Depleted(Stored(p, d, pe), d, k), w), cost |-> cost,
              hid |-> w > p.avail \/ k > Resource(p, d)] :
                k \in Depletion(d, Batch(p, d)), w \in Labour(p, d)}

\* A nation in debt, or a sector switched off, pays the upkeep and does nothing else.
Upkeep(b, p) == Book(b, "maint", -TypeChr[p.type].maint)
Idle(p, b) == p.off \/ b.money < 0

PassOver ==
    LET p == sect[row]
        b == Upkeep(budget[p.own], p)
    IN /\ phase = "produce"
       /\ \/ /\ p.own = 0 \/ Wild(p)
             /\ UNCHANGED <<sect, budget>>
          \/ /\ p.own # 0 /\ ~Wild(p) /\ Idle(p, b)
             /\ sect' = [sect EXCEPT ![row].avail = 0]
             /\ budget' = [budget EXCEPT ![p.own] = b]
       /\ Advance
       /\ UNCHANGED <<unit, nat, history>>

Produce ==
    LET p == sect[row]
        chr == TypeChr[p.type]
        n == p.own
        b == Upkeep(budget[n], p)
        built == BuildEff(p)
        recruits == Recruits(built, chr)
        pay == 3 * Dollar * recruits
    IN /\ phase = "produce" /\ n # 0 /\ ~Wild(p) /\ ~Idle(p, b)
       /\ \E o \in Produced(Enlist(built, recruits), chr, nat[n].level) :
            LET c == Book(Book(b, "build", -BuildCost(p)), "prod", -o.cost)
            IN /\ sect' = [sect EXCEPT ![row] = o.sect]
               /\ budget' = [budget EXCEPT ![n] = [c EXCEPT !.money = @ - pay]]
               /\ onCredit' = [onCredit EXCEPT ![n] = IF c.money - pay < 0 THEN @ + 1 ELSE @]
               /\ overdrawn' = (overdrawn \/ o.hid)
       /\ enlistPay' = [enlistPay EXCEPT ![n] = @ + pay]
       /\ Advance
       /\ UNCHANGED <<unit, nat, orders, updates>>

-----------------------------------------------------------------------------
(* Goods move, and what is left of the workers is limited *)

\* What do_deliver and do_distribute may do: module Distribution says what they do.
Carry ==
    /\ phase = "goods"
    /\ \E s, t \in Sectors, i \in Items, k \in 0..MaxCarried :
        /\ s # t /\ sect[s].own # 0 /\ sect[s].own = sect[t].own
        /\ k <= sect[s].items[i] /\ k <= ItemMax - sect[t].items[i]
        /\ sect' = [sect EXCEPT ![s] = Added(@, i, -k), ![t] = Added(@, i, k)]
    /\ Advance
    /\ UNCHANGED <<unit, nat, budget, history>>

Finish ==
    /\ phase = "finish"
    /\ sect' = [s \in Sectors |-> [sect[s] EXCEPT !.avail = Lower(@, 1000)]]
    /\ Advance
    /\ UNCHANGED <<unit, nat, budget, history>>

-----------------------------------------------------------------------------
(* prod_ships, prod_planes and prod_land build; ship_produce_ocean *)

KindOf == [ships |-> "ship", ocean |-> "ship", planes |-> "plane", land |-> "land"]
Solvent(n) == budget[n].money >= 0

\* Ships are built in harbors that are begun, planes on airfields, others anywhere.
Berth(u) ==
    LET p == sect[unit[u].at] IN
    /\ p.own = unit[u].own
    /\ Kind[u] = "ship" => "ship" \in TypeChr[p.type].yard /\ p.effic >= 2
    /\ Kind[u] = "plane" => "plane" \in TypeChr[p.type].yard
    /\ Kind[u] # "ship" => ~p.off /\ ~unit[u].off
\* Faulty: the budget is not asked.
MayBuildOnCredit(u) == unit[u].own # 0 /\ unit[u].effic < 100 /\ Berth(u)
MayBuild(u) == unit[u].own # 0 /\ unit[u].effic < 100 /\ Berth(u) /\ Solvent(unit[u].own)

Crew(u) ==
    IF Kind[u] = "ship"
    THEN Etu * (unit[u].items["civil"] \div 2 + unit[u].items["milit"] \div 5) ELSE 0
Pool(u) == Crew(u) + 100 * sect[unit[u].at].avail
UnitWork(u) == Higher(UnitChr[u].bwork, 1)

\* The efficiency that workers, the rate of growth and materials allow.
Pace(u) == Lower(Pool(u) \div UnitWork(u), Lower(GrowCap[Kind[u]], 100 - unit[u].effic))
Supply(u, i, need) ==
    IF need > 0 THEN (100 * sect[unit[u].at].items[i]) \div need ELSE 100

Delta(u) ==
    Lower(Pace(u), Lower(Supply(u, "lcm", UnitChr[u].lcm), Supply(u, "hcm", UnitChr[u].hcm)))
\* Land units grow at a third of it away from a headquarters, but tire all its workers.
Growth(u) ==
    IF Kind[u] = "land" /\ ~TypeChr[sect[unit[u].at].type].hq THEN Delta(u) \div 3 ELSE Delta(u)
Needed(u, amount) == RoundAvg(<<amount * Growth(u), 100>>)
Wages(u) == RoundAvg(<<Higher(Delta(u) * UnitWork(u) - Crew(u), 0), 100>>)

Build ==
    LET u == row
        s == unit[u].at
        n == unit[u].own
        cost == (Dollar * UnitChr[u].cost * Growth(u)) \div 100
    IN /\ phase \in {"ships", "planes", "land"} /\ Kind[u] = KindOf[phase]
       /\ MayBuild(u) /\ Growth(u) > 0
       /\ \E lcm \in Needed(u, UnitChr[u].lcm), hcm \in Needed(u, UnitChr[u].hcm), w \in Wages(u) :
            /\ sect' = [sect EXCEPT ![s] = Tired(Added(Added(@, "lcm", -lcm), "hcm", -hcm), w)]
            /\ overdrawn' = (overdrawn \/ w > sect[s].avail)
       /\ unit' = [unit EXCEPT ![u].effic = @ + Growth(u)]
       /\ budget' = [budget EXCEPT ![n] = Book(@, Kind[u], -cost)]
       /\ onCredit' = [onCredit EXCEPT ![n] = IF budget[n].money < cost THEN @ + 1 ELSE @]
       /\ Advance
       /\ UNCHANGED <<nat, orders, updates, enlistPay>>

\* A finished or half-finished ship at sea, whose owner is not in debt.
MayDrill(u) ==
    /\ unit[u].own # 0 /\ ~unit[u].off /\ Solvent(unit[u].own)
    /\ TypeChr[sect[unit[u].at].type].water
    /\ UnitChr[u].drills \/ UnitChr[u].fishes
Afloat(u, type, work, deposit) ==
    LET pe == ProdEff(ProductChr[TypeChr[type].product], nat[unit[u].own].level, TypeChr[type].peff)
    IN Times(<<work * unit[u].effic * sect[unit[u].at].deposit[deposit], 10000>>, pe)
Hold(u, i, k) == Lower(k, Higher(UnitChr[u].room[i] - unit[u].items[i], 0))
Drilled(u, work) ==
    IF ~UnitChr[u].drills THEN {0}
    ELSE {Hold(u, "oil", k) : k \in RoundAvg(Less(Afloat(u, OilField, work, "oil"),
            ResourceLimit(sect[unit[u].at], ProductChr[TypeChr[OilField].product])))}
\* Fish are not used up.
Fished(u, work) ==
    IF ~UnitChr[u].fishes THEN {0}
    ELSE {Hold(u, "food", k) : k \in RoundAvg(Afloat(u, Agri, work, "fertil"))}

Drill ==
    LET u == row
        s == unit[u].at
        d == ProductChr[TypeChr[OilField].product]
    IN /\ phase = "ocean" /\ Kind[u] = "ship" /\ MayDrill(u)
       /\ \E work \in RoundAvg(Workers(100, unit[u].items, ItemMax)) :
          \E oil \in Drilled(u, work), fish \in Fished(u, work) :
          \E k \in Depletion(d, <<oil, 1>>) :
            /\ unit' = [unit EXCEPT ![u] = Added(Added(@, "oil", oil), "food", fish)]
            /\ sect' = [sect EXCEPT ![s] = Depleted(@, d, k)]
            /\ overdrawn' = (overdrawn \/ k > Resource(sect[s], d))
       /\ Advance
       /\ UNCHANGED <<nat, budget, orders, updates, enlistPay, onCredit>>

Skip ==
    /\ phase \in DOMAIN KindOf
    /\ \/ Kind[row] # KindOf[phase]
       \/ /\ phase # "ocean" /\ Kind[row] = KindOf[phase]
          /\ MayBuild(row) => Growth(row) <= 0
       \/ phase = "ocean" /\ Kind[row] = "ship" /\ ~MayDrill(row)
    /\ Advance
    /\ UNCHANGED <<sect, unit, nat, budget, history>>

-----------------------------------------------------------------------------
(* prod_nat and age_levels, and a command *)

\* The simulated treasury is stored; the levels wait for AgeLevels here.
ProdNat ==
    /\ phase = "nat"
    /\ nat' = [n \in Nations |->
            IF n \in Playing THEN [nat[n] EXCEPT !.money = Rounded(<<budget[n].money, Dollar>>)]
                             ELSE nat[n]]
    /\ Advance
    /\ UNCHANGED <<sect, unit, budget, history>>

\* Reserves grow old: one in a hundred in 24 etus.
AgedReserve(n) ==
    IF n \in Playing THEN RoundAvg(<<nat[n].reserve * (2400 - Etu), 2400>>) ELSE {nat[n].reserve}

AgeLevels ==
    /\ phase = "age"
    /\ \E level \in LevelChoices :
       \E reserve \in [Nations -> UNION {AgedReserve(n) : n \in Nations}] :
            /\ \A n \in Nations : reserve[n] \in AgedReserve(n)
            /\ nat' = [n \in Nations |->
                    [nat[n] EXCEPT !.level = level[n], !.reserve = reserve[n]]]
    /\ Advance
    /\ UNCHANGED <<sect, unit, budget, history>>

\* "designate <sector> <type>" of the owner.
Designate(s, t) ==
    /\ phase = "idle" /\ orders < MaxOrders
    /\ sect[s].own # 0 /\ sect[s].type # t
    /\ ~TypeChr[t].water /\ ~TypeChr[t].deity /\ ~TypeChr[sect[s].type].deity
    /\ "ship" \in TypeChr[t].yard => s \in Coastal
    /\ sect' = [sect EXCEPT ![s].effic = 0, ![s].type = t, ![s].newType = t]
    /\ orders' = orders + 1
    /\ UNCHANGED <<unit, nat, budget, phase, row, updates, enlistPay, onCredit, overdrawn>>

Next ==
    \/ BeginUpdate
    \/ Prepare \/ PayReserve
    \/ PassOver \/ Produce
    \/ Carry \/ Finish
    \/ Build \/ Drill \/ Skip
    \/ ProdNat \/ AgeLevels
    \/ \E s \in Sectors, t \in Types : Designate(s, t)

Spec == Init /\ [][Next]_vars

-----------------------------------------------------------------------------
(* Properties *)

\* Types: rows stay within their columns and stores, and efficiency within 100,
\* whatever workers, materials, sectors and units of all kinds share.
TypeOK ==
    /\ sect \in [Sectors -> Sector]
    /\ unit \in [Units -> Unit]
    /\ nat \in [Nations -> Nation]
    /\ budget \in [Nations -> Budget]
    /\ phase \in {Loops[k] : k \in DOMAIN Loops} \cup {"idle"}
    /\ row \in 1..Rows(phase)
    /\ orders \in 0..MaxOrders /\ updates \in 0..MaxUpdates
    /\ enlistPay \in [Nations -> Nat] /\ onCredit \in [Nations -> Nat]
    /\ overdrawn \in BOOLEAN

\* What the budget has booked, heading by heading.
Booked(b) ==
    b.book["civ"] + b.book["uw"] + b.book["mil"] + b.book["bars"] + b.book["ship"]
    + b.book["plane"] + b.book["land"] + b.book["build"] + b.book["maint"] + b.book["prod"]

\* When an update has written the treasury, nothing that was booked in it is
\* missing: not even what units cost, which are built after sectors (the bug
\* that the comment at update.rs:337 tells of), and nothing else has been
\* written but the pay of recruits, which is under no heading (enlist).
TreasuryAccounted ==
    phase = "age" =>
        \A n \in Playing :
            nat[n].money = Rounded(<<budget[n].start + Booked(budget[n]) - enlistPay[n], Dollar>>)

\* A nation goes into debt by building, enlisting or producing at most once in
\* an update: no sector after that, and no unit, is worked on.
OnceOnCredit == \A n \in Nations : onCredit[n] <= 1

\* The max(0) at the end of a subtraction never hides workers who were not
\* there, or ore: the limits computed before are enough, however chance rounds
\* (prod_output, deplete_resource, prod_ships, prod_planes, prod_land).
NothingOverdrawn == TypeOK /\ ~overdrawn

\* A sector that the update has prepared is owned only if somebody lives there,
\* and belongs at heart to somebody else only if civilians do, recruits or not;
\* until it is built and produces, it has no more civilians than its type can
\* hold (check_pop_loss, the end of prepare_sects, enlist).
Ready(s) == phase \in {"reserve", "produce"} \/ (phase = "prepare" /\ s < row)
Unproduced(s) == phase = "produce" => s >= row
SettledSectors ==
    \A s \in Sectors : Ready(s) /\ sect[s].own # 0 /\ ~Wild(sect[s]) =>
        /\ sect[s].items["civil"] + sect[s].items["milit"] > 0
        /\ sect[s].oldOwn # sect[s].own => sect[s].items["civil"] > 0
        /\ Unproduced(s) => sect[s].items["civil"] <= Higher(TypeChr[sect[s].type].maxpop, 1)
=============================================================================
