---------------------------- MODULE Distribution ----------------------------
(***************************************************************************)
(* The movement of goods in an update of empire-server: do_deliver and     *)
(* do_distribute of update.rs, with the commands that direct them,         *)
(* "threshold", "deliver" and "distribute".                                *)
(*                                                                         *)
(* The update holds the exclusive lock (module GameServer), so commands    *)
(* happen only between updates.  It visits sectors and items in order, and *)
(* the groups of sectors with a common centre in the order of a HashMap,   *)
(* which is any order.  What production, feeding and building do to the    *)
(* stocks is not modelled here.                                            *)
(*                                                                         *)
(* The fractions of the code become fractions over the packing: carrying   *)
(* "want" units costs want * load / cap points of mobility.                *)
(***************************************************************************)
EXTENDS Dimensions, FiniteSets, FiniteSetsExt, Functions

CONSTANTS NItems,
          Ownerships,     \* who may own the sectors: functions to countries, 0 for nobody
          Land,           \* sectors that are neither water nor sanctuary
          Neighbour,      \* the sector next to another in a direction, 0 if there is none
          Directions,     \* the directions of the map, of 1..6
          Weight, Pack,   \* of an item, and of an item in a sector
          DeliverBonus, DistBonus,
          MoveCost,       \* mcost of a sector, 0 if it is impassable
          MaxPathCost,    \* bound on the cost of a path
          MobGain, MobMax,  \* sect_mob_scale * etu and sect_mob_max
          Thresholds,     \* what the commands may name
          StartStock, StartMobil, StartThreshold, StartCentre    \* at the beginning

Commodities == 1..NItems
Cells == Sectors \X Commodities
Stop == 0     \* no delivery; 7, the distribution centre, is skipped likewise

ASSUME DistributionAssumption ==
    /\ NSectors \in Nat \ {0} /\ NItems \in Nat \ {0}
    /\ Ownerships \subseteq [Sectors -> Nat]
    /\ Land \subseteq Sectors
    /\ Directions \subseteq 1..6
    /\ Neighbour \in [Sectors -> [Directions -> Sectors \cup {0}]]
    /\ \A s \in Sectors, d \in Directions : Neighbour[s][d] # s
    /\ Weight \in [Commodities -> Nat \ {0}]
    /\ Pack \in [Sectors -> [Commodities -> Nat \ {0}]]
    /\ DeliverBonus \in Nat \ {0} /\ DistBonus \in Nat \ {0} /\ ItemMax \in Nat
    /\ MoveCost \in [Sectors -> Nat]
    /\ MaxPathCost \in Nat /\ MobGain \in Nat /\ MobMax \in Int
    /\ Thresholds \subseteq Int
    /\ StartStock \subseteq [Sectors -> [Commodities -> 0..ItemMax]]
    /\ StartMobil \in Int
    /\ StartThreshold \subseteq [Sectors -> [Commodities -> Nat]]
    /\ StartCentre \subseteq [Sectors -> Sectors]
    /\ MaxOrders \in Nat /\ MaxUpdates \in Nat

VARIABLES
    own,         \* the owners of the sectors
    stock,       \* the items of each sector
    mobil,       \* the mobility of each sector
    threshold, path,   \* del: the threshold and direction of each sector and item
    centre,      \* dist_x, dist_y: the distribution centre of each sector
    stage,       \* what the update is doing
    pending,     \* the cells it has yet to visit in this pass
    group, groups,   \* the group at work, and those still to come
    commandsGiven, updatesBegun,   \* bounds: commands given, updates begun
    belowZero,   \* history: whether a negative threshold was ever stored
    goods        \* history: the stocks at the beginning

plans == <<own, threshold, path, centre>>
distributionHistory == <<commandsGiven, updatesBegun, belowZero, goods>>
distributionVars == <<plans, stock, mobil, stage, pending, group, groups, distributionHistory>>

Owned(s) == own[s] # 0 /\ s \in Land
Group == [own: Nat, centre: Sectors]
NoGroup == [own |-> 0, centre |-> 1]

DistributionTypeOK ==
    /\ own \in [Sectors -> Nat]
    /\ stock \in [Sectors -> [Commodities -> Int]]
    /\ mobil \in [Sectors -> Int]
    /\ threshold \in [Sectors -> [Commodities -> Int]]
    /\ path \in [Sectors -> [Commodities -> Directions \cup {Stop}]]
    /\ centre \in [Sectors -> Sectors]
    /\ stage \in {"idle", "deliver", "groups", "export", "import"}
    /\ pending \subseteq Cells
    /\ group \in Group
    /\ groups \subseteq Group
    /\ commandsGiven \in 0..MaxOrders /\ updatesBegun \in 0..MaxUpdates
    /\ belowZero \in BOOLEAN
    /\ goods \in [Sectors -> [Commodities -> Int]]

DistributionInit ==
    /\ own \in Ownerships
    /\ stock \in StartStock
    /\ mobil = [s \in Sectors |-> StartMobil]
    /\ threshold \in StartThreshold
    /\ path = [s \in Sectors |-> [i \in Commodities |-> Stop]]
    /\ centre \in StartCentre
    /\ stage = "idle"
    /\ pending = {}
    /\ group = NoGroup /\ groups = {}
    /\ commandsGiven = 0 /\ updatesBegun = 0
    /\ belowZero = FALSE
    /\ goods = stock

-----------------------------------------------------------------------------
(* What one pass has to visit, and in which order *)

Before(c, d) == c[1] < d[1] \/ (c[1] = d[1] /\ c[2] <= d[2])
IsNext(c) == c \in pending /\ \A d \in pending : Before(c, d)

\* The cells do_deliver does not skip.
DeliverCells == {c \in Cells : Owned(c[1]) /\ path[c[1]][c[2]] # Stop}

\* A sector takes part in the distribution with any threshold at all.
Groups ==
    {[own |-> own[s], centre |-> centre[s]] :
        s \in {t \in Sectors : Owned(t) /\ \E i \in Commodities : threshold[t][i] # 0}}
GroupCells(g) ==
    {c \in Cells : /\ Owned(c[1]) /\ own[c[1]] = g.own /\ centre[c[1]] = g.centre
                   /\ c[1] # g.centre
                   /\ threshold[c[1]][c[2]] # 0}

\* The costs of the paths from c to s through sectors of one owner, where a
\* sector costs its mcost to enter.
Adjacent(s, t) == \E d \in Directions : Neighbour[s][d] = t
Walks(c, s) ==
    {w \in UNION {[1..n -> Sectors] : n \in 1..NSectors} :
        LET n == Cardinality(DOMAIN w) IN
        /\ w[1] = c /\ w[n] = s
        /\ \A k \in 1..n : own[w[k]] = own[c]
        /\ \A k \in 2..n : Adjacent(w[k - 1], w[k]) /\ MoveCost[w[k]] > 0}
WalkCost(w) == SumFunctionOnSet([k \in DOMAIN w |-> MoveCost[w[k]]], DOMAIN w \ {1})
PathCosts(c, s) == {k \in 0..MaxPathCost : \E w \in Walks(c, s) : k = WalkCost(w)}
IsPathCost(k, c, s) == k \in PathCosts(c, s) /\ \A j \in PathCosts(c, s) : k <= j

-----------------------------------------------------------------------------
(* Carrying goods from one sector to another *)

Mobility(s) == IF mobil[s] > 0 THEN mobil[s] ELSE 0
Affordable(s, want, load, cap) == want * load <= Mobility(s) * cap

(* Faulty variants of definitions below, for the properties to catch. *)

\* Nothing is carried by a sector that cannot afford all of it.
AmountAllOrNothing(s, want, load, cap) == IF Affordable(s, want, load, cap) THEN want ELSE 0
\* What the sector holds already is forgotten.
RoomWhenEmpty(s, i) == ItemMax

Amount(s, want, load, cap) ==
    IF Affordable(s, want, load, cap) THEN want ELSE (Mobility(s) * cap) \div load
Charge(s, want, load, cap) ==
    IF Affordable(s, want, load, cap) THEN (want * load) \div cap ELSE Mobility(s)
Room(s, i) == ItemMax - stock[s][i]
Lesser(a, b) == IF a <= b THEN a ELSE b

\* The sector "payer" pays for the whole amount it could carry, even when
\* there is room for less.
Convey(from, to, i, payer, want, load, cap) ==
    LET actual == Lesser(Amount(payer, want, load, cap), Room(to, i)) IN
    IF actual > 0
    THEN /\ stock' = [stock EXCEPT ![from][i] = @ - actual, ![to][i] = @ + actual]
         /\ mobil' = [mobil EXCEPT ![payer] = @ - Charge(payer, want, load, cap)]
    ELSE UNCHANGED <<stock, mobil>>

Surplus(s, i) == stock[s][i] - threshold[s][i]
WantedAll(s, i) == stock[group.centre][i]     \* faulty: all the centre has
Wanted(s, i) == Lesser(-Surplus(s, i), stock[group.centre][i])

\* Faulty: a delivery that does not look at the owner of the next sector.
DeliverToAnyone(s, i) ==
    LET d == Neighbour[s][path[s][i]] IN
    IF Surplus(s, i) > 0 /\ path[s][i] # Stop /\ d # 0
    THEN Convey(s, d, i, s, Surplus(s, i), Weight[i], Pack[s][i] * DeliverBonus)
    ELSE UNCHANGED <<stock, mobil>>

\* What a pass does at a cell it visits.
DeliverFrom(s, i) ==
    LET d == Neighbour[s][path[s][i]] IN
    IF Surplus(s, i) > 0 /\ d # 0 /\ own[d] = own[s]
    THEN Convey(s, d, i, s, Surplus(s, i), Weight[i], Pack[s][i] * DeliverBonus)
    ELSE UNCHANGED <<stock, mobil>>

ExportFrom(s, i) ==
    \/ /\ Surplus(s, i) > 0
       /\ \E k \in PathCosts(group.centre, s) :
            /\ IsPathCost(k, group.centre, s) /\ k > 0
            /\ Convey(s, group.centre, i, s,
                     Surplus(s, i), Weight[i] * k, Pack[s][i] * DistBonus)
    \/ /\ Surplus(s, i) <= 0 \/ PathCosts(group.centre, s) = {}
       /\ UNCHANGED <<stock, mobil>>

ImportTo(s, i) ==
    \/ /\ Surplus(s, i) < 0 /\ stock[group.centre][i] > 0
       /\ \E k \in PathCosts(group.centre, s) :
            /\ IsPathCost(k, group.centre, s) /\ k > 0
            /\ Convey(group.centre, s, i, s,
                     Wanted(s, i), Weight[i] * k, Pack[s][i] * DistBonus)
    \/ /\ \/ Surplus(s, i) >= 0 \/ stock[group.centre][i] <= 0
          \/ PathCosts(group.centre, s) = {}
       /\ UNCHANGED <<stock, mobil>>

-----------------------------------------------------------------------------
(* The update *)

BeginDelivery ==
    /\ stage = "idle" /\ updatesBegun < MaxUpdates
    /\ stage' = "deliver"
    /\ pending' = DeliverCells
    /\ updatesBegun' = updatesBegun + 1
    /\ UNCHANGED <<plans, stock, mobil, group, groups, commandsGiven, belowZero, goods>>

Visit(p, c) ==
    /\ stage = p /\ IsNext(c)
    /\ pending' = pending \ {c}
    /\ UNCHANGED <<plans, stage, group, groups, distributionHistory>>

Deliver(c)  == Visit("deliver", c) /\ DeliverFrom(c[1], c[2])
Export(c)   == Visit("export", c) /\ ExportFrom(c[1], c[2])
Import(c)   == Visit("import", c) /\ ImportTo(c[1], c[2])

\* The groups are formed when all deliveries are made.
FormGroups ==
    /\ stage = "deliver" /\ pending = {}
    /\ stage' = "groups"
    /\ groups' = Groups
    /\ UNCHANGED <<plans, stock, mobil, pending, group, distributionHistory>>

\* A group whose centre has another owner is passed over.
NextGroup(g) ==
    /\ stage = "groups" /\ g \in groups
    /\ groups' = groups \ {g}
    /\ IF own[g.centre] = g.own
       THEN stage' = "export" /\ group' = g /\ pending' = GroupCells(g)
       ELSE UNCHANGED <<stage, group, pending>>
    /\ UNCHANGED <<plans, stock, mobil, distributionHistory>>

ImportPass ==
    /\ stage = "export" /\ pending = {}
    /\ stage' = "import"
    /\ pending' = GroupCells(group)
    /\ UNCHANGED <<plans, stock, mobil, group, groups, distributionHistory>>

EndGroup ==
    /\ stage = "import" /\ pending = {}
    /\ stage' = "groups"
    /\ UNCHANGED <<plans, stock, mobil, pending, group, groups, distributionHistory>>

\* mob_inc_sect: what is gained is cut to the maximum, mobility above it too.
EndUpdate ==
    /\ stage = "groups" /\ groups = {}
    /\ stage' = "idle"
    /\ mobil' = [s \in Sectors |->
                   IF Owned(s) THEN Lesser(mobil[s] + MobGain, MobMax) ELSE mobil[s]]
    /\ group' = NoGroup
    /\ UNCHANGED <<plans, stock, pending, groups, distributionHistory>>

-----------------------------------------------------------------------------
(* The commands, for one sector *)

GiveOrder(s) ==
    /\ stage = "idle" /\ own[s] # 0
    /\ commandsGiven < MaxOrders
    /\ commandsGiven' = commandsGiven + 1
    /\ UNCHANGED <<own, stock, mobil, stage, pending, group, groups, updatesBegun, goods>>

SetThreshold(s, i, t) ==
    /\ GiveOrder(s)
    /\ threshold' = [threshold EXCEPT ![s][i] = IF t > 0 THEN t ELSE 0]
    /\ UNCHANGED <<path, centre, belowZero>>

\* "deliver" takes any threshold, and keeps the old one if it is given none.
SetDelivery(s, i, d, t) ==
    /\ GiveOrder(s)
    /\ path' = [path EXCEPT ![s][i] = d]
    /\ threshold' = [threshold EXCEPT ![s][i] = t]
    /\ belowZero' = (belowZero \/ t < 0)
    /\ UNCHANGED centre

Distribute(s, c) ==
    /\ GiveOrder(s)
    /\ centre' = [centre EXCEPT ![s] = c]
    /\ UNCHANGED <<threshold, path, belowZero>>

Command(s) ==
    \/ \E i \in Commodities, t \in Thresholds : SetThreshold(s, i, t)
    \/ \E i \in Commodities, d \in Directions \cup {Stop} :
         \E t \in Thresholds \cup {threshold[s][i]} : SetDelivery(s, i, d, t)
    \/ \E c \in Sectors : Distribute(s, c)

Update ==
    \/ BeginDelivery \/ FormGroups \/ ImportPass \/ EndGroup \/ EndUpdate
    \/ \E c \in pending : Deliver(c) \/ Export(c) \/ Import(c)
    \/ \E g \in groups : NextGroup(g)

DistributionNext == (\E s \in Sectors : Command(s)) \/ Update

DistributionSpec == DistributionInit /\ [][DistributionNext]_distributionVars

-----------------------------------------------------------------------------
(* Properties *)

\* No sector gives away what it does not have and none is filled beyond
\* ITEM_MAX, unless "deliver" was once given a negative threshold.
StockInRange ==
    ~belowZero => \A s \in Sectors, i \in Commodities : stock[s][i] \in 0..ItemMax

\* Goods move between sectors of one owner only, and none appear or vanish,
\* whatever the thresholds, the clipping and the order of the groups.
Holdings(n, i, f) == SumFunctionOnSet([s \in Sectors |-> f[s][i]], {s \in Sectors : own[s] = n})
GoodsConserved ==
    \A n \in Range(own), i \in Commodities : Holdings(n, i, stock) = Holdings(n, i, goods)

\* Mobility is spent by sectors that have some, and never more than they have.
MobilityNotOverdrawn ==
    [][\A s \in Sectors : mobil'[s] < mobil[s] /\ stage # "groups" => mobil'[s] >= 0]_mobil

\* Apart from the centre of the group at work, exports and deliveries leave
\* a sector its threshold, and imports fill no sector beyond it.
ThresholdsRespected ==
    [][\A s \in Sectors, i \in Commodities :
         /\ stock'[s][i] < stock[s][i]
              => stock'[s][i] >= threshold[s][i] \/ (stage = "import" /\ s = group.centre)
         /\ stock'[s][i] > stock[s][i] /\ stage = "import"
              => stock'[s][i] <= threshold[s][i]]_stock

Stuck(s, i) ==
    \E k \in PathCosts(group.centre, s) :
        IsPathCost(k, group.centre, s) /\ Mobility(s) * Pack[s][i] * DistBonus < Weight[i] * k

\* When the export pass is over, a surplus is left only where the centre is
\* full, cannot be reached, or is too far for the mobility left; when the
\* import pass is over, a lack only where the centre has nothing, or likewise.
Unmet(s, i) == IF stage = "export" THEN Surplus(s, i) > 0 ELSE Surplus(s, i) < 0
Obstacle(s, i) ==
    \/ stage = "export" /\ Room(group.centre, i) <= 0
    \/ stage = "import" /\ (stock[group.centre][i] <= 0 \/ Room(s, i) <= 0)
    \/ PathCosts(group.centre, s) = {}
    \/ Stuck(s, i)
PassComplete ==
    [][stage' # stage /\ (stage = "export" \/ stage = "import") =>
        \A c \in GroupCells(group) : Unmet(c[1], c[2]) => Obstacle(c[1], c[2])]_stage
=============================================================================
