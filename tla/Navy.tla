-------------------------------- MODULE Navy --------------------------------
(***************************************************************************)
(* The commands about ships: load and unload, tend, board, scuttle, scrap, *)
(* navigate with the forts on the way, fire, torpedo and fleetadd.         *)
(***************************************************************************)
EXTENDS Forces

CONSTANTS MaxRoute        \* bound on the length of a route that is searched for

MayUse(me, s) == sect[s].own = me \/ IsDeity(me)

(* ---- load, unload ---------------------------------------------------- *)

\* The ship is docked, and the harbor may be used.
InHarbor(me, s) == LET at == sect[ship[s].at]
                   IN  at.type = "harbor" /\ MayUse(me, ship[s].at) /\ at.effic >= 2

(* What moves onto the ship, or off it if negative: rows are those read at  *)
(* the start of the command.                                                *)
Cargo(s, i, amount) ==
    LET have == ship[s].items[i]
        room == Most(ShipChr[ship[s].type].cap[i] - have, 0)
        stock == sect[ship[s].at].items[i]
    IN  IF amount < 0 THEN -Least(have, -amount) ELSE Least(Least(stock, amount), room)

(* Each ship takes from, or adds to, the harbor as it was at the start.     *)
LoadOne(w, s, i, amount) ==
    LET at == ship[s].at
        n == Cargo(s, i, amount)
        row == [sect[at] EXCEPT !.items = Shift(@, i, -n)]
    IN  IF n = 0 THEN w
        ELSE PutSect(PutShip(w, s, [ship[s] EXCEPT !.items = Shift(@, i, n)]), at, row)

LoadAll(docked, i, amount) ==
    FoldLeft(LAMBDA w, s : LoadOne(w, s, i, amount), World, Ascending(docked))

\* amount < 0 is unload
Load(me, i, amount, spec) ==
    LET docked == {s \in Matching(ship, me, spec) : InHarbor(me, s)}
        moving == {s \in docked : Cargo(s, i, amount) # 0}
    IN  Done(LoadAll(docked, i, amount),
             \E s, t \in moving : (amount > 0 /\ s # t /\ ship[s].at = ship[t].at)
                                \/ ship[s].effic = 0)

LoadOnto(st, s, p) ==
    IF p \in st.placed \/ plane[p].at # ship[s].at THEN st
    ELSE IF Bucket(st.w, p) = "none" THEN [st EXCEPT !.placed = @ \cup {p}]
    ELSE IF ~ShipCanCarry(st.w, ship[s].type, st.manifest, p) THEN st
    ELSE [w |-> PutPlane(st.w, p, [plane[p] EXCEPT !.ship = s]),
          manifest |-> Append(st.manifest, p), placed |-> st.placed \cup {p}]

Filled(st, s, planes) ==
    FoldLeft(LAMBDA v, p : LoadOnto(v, s, p), [st EXCEPT !.manifest = Ascending(PlanesOn(st.w, s))],
             Ascending(planes))
AllFilled(ships, planes) ==
    FoldLeft(LAMBDA st, s : Filled(st, s, planes), [w |-> World, manifest |-> <<>>, placed |-> {}],
             Ascending(ships))

(* Every plane is put on the first of the ships that has room for it.       *)
LoadPlanes(me, spec, planes) ==
    Done(AllFilled(Matching(ship, me, spec), Matching(plane, me, planes)).w, FALSE)

UnloadPlanes(me, spec, planes) ==
    LET off == {p \in Matching(plane, me, planes) : plane[p].ship \in Matching(ship, me, spec)}
        ashore(p) == [plane[p] EXCEPT !.ship = None, !.at = ship[plane[p].ship].at]
    IN  Done([World EXCEPT !.plane = [p \in DOMAIN plane |->
                                        IF p \in off THEN ashore(p) ELSE plane[p]]], FALSE)

(* ---- tend ------------------------------------------------------------ *)

(* From the tender to the target, or back if amount is negative. Whether    *)
(* the owner of the receiver is a friend is asked, not of the giver.  A     *)
(* tender that is dry, or full, has no more to move.                        *)
Tended(w, me, i, amount, tender, target) ==
    LET giver == IF amount > 0 THEN tender ELSE target
        receiver == IF amount > 0 THEN target ELSE tender
        to == w.ship[receiver]
        room == Most(ShipChr[to.type].cap[i] - to.items[i], 0)
        n == Least(Least(w.ship[giver].items[i], IF amount > 0 THEN amount ELSE -amount), room)
    IN  IF /\ target # tender /\ w.ship[target].at = w.ship[tender].at
           /\ w.ship[target].own # 0
           /\ IsDeity(me) \/ to.own = me \/ relation[me][to.own] >= Friendly
           /\ n > 0
        THEN [w EXCEPT !.ship[giver].items[i] = @ - n, !.ship[receiver].items[i] = @ + n]
        ELSE w

TendAll(w, me, i, amount, tender, targets) ==
    FoldLeft(LAMBDA v, t : Tended(v, me, i, amount, tender, t), w, Ascending(targets))
AllTend(me, i, tenders, amount, targets) ==
    FoldLeft(LAMBDA w, tender : TendAll(w, me, i, amount, tender, targets), World,
             Ascending(tenders))

Tend(me, i, tenders, amount, targets) ==
    LET mine == Matching(ship, me, tenders)
    IN  Done(Saved(AllTend(me, i, mine, amount, targets), mine \cup targets),
             \E s \in mine : ship[s].effic = 0)

(* ---- board ----------------------------------------------------------- *)

(* Strengths in ten thousandths; a tenth to three tenths of the other side's *)
(* strength is lost.                                                        *)
Strength(mil, tech, effic) == mil * (100 + tech) * effic
Rolled(luck) == Draw(10, 30, luck)
Losses(str, luck) == (str * Rolled(luck)) \div 1000000
Remaining(str, losses) == Most(str - losses * 10000, 0)
Prevails(att, attLost, def, defLost) == 2 * Remaining(att, attLost) > 3 * Remaining(def, defLost)

Board(me, victim, boarder, asked, luck, back) ==
    LET v == ship[victim]
        b == ship[boarder]
        mil == Most(Least(asked, b.items["mil"]), 0)
        att == Strength(mil, Tech[me], b.effic)
        def == Strength(v.items["mil"], IF v.own = 0 THEN 0 ELSE Tech[v.own], v.effic)
        attLost == IF v.items["mil"] <= 0 THEN 0 ELSE Losses(def, luck)
        defLost == IF v.items["mil"] <= 0 THEN 0 ELSE Losses(att, back)
        wins == v.items["mil"] <= 0 \/ Prevails(att, attLost, def, defLost)
        dead == Least(attLost, mil)
        crew == IF wins THEN Least(mil - dead, 1) ELSE 0
        b1 == [b EXCEPT !.items = Shift(@, "mil", -dead - crew)]
        v1 == IF wins THEN [v EXCEPT !.items["mil"] = crew, !.own = me]
              ELSE [v EXCEPT !.items = Shift(@, "mil", -Least(defLost, v.items["mil"]))]
    IN  /\ victim # boarder
        /\ b.own = me \/ IsDeity(me)
        /\ v.own # me /\ v.at = b.at
        /\ IsDeity(me) \/ v.own = 0 \/ relation[me][v.own] = AtWar
        /\ mil > 0
        /\ Done(PutShip(PutShip(World, boarder, b1), victim, v1), FALSE)

(* ---- scuttle, scrap -------------------------------------------------- *)

\* Two thirds of what building costs
Recovered(cost, effic) == (2 * cost * effic) \div 300
Materials(items, chr, effic) ==
    Shift(Shift(items, "lcm", Recovered(chr.lcm, effic)), "hcm", Recovered(chr.hcm, effic))

Wreck(row) == [row EXCEPT !.effic = 0]
Spill(w, row) == IF w.sect[row.at].own = row.own
                 THEN PutSect(w, row.at, [w.sect[row.at] EXCEPT !.items = Drop(@, row.items)])
                 ELSE w

ShipsSunk(ships) ==
    FoldLeft(LAMBDA w, s : PutShip(Spill(w, ship[s]), s, Wreck(ship[s])), World, Ascending(ships))
ScuttleShips(me, spec) ==
    Done(ShipsSunk(Matching(ship, me, spec)), \E s \in Matching(ship, me, spec) : ship[s].effic = 0)

ScuttlePlanes(me, spec) ==
    Done(PutPlanes(World, [p \in Matching(plane, me, spec) |-> Wreck(plane[p])]), FALSE)

LandSunk(units) ==
    FoldLeft(LAMBDA w, u : PutLand(Spill(w, land[u]), u, Wreck(land[u])), World, Ascending(units))
ScuttleLand(me, spec) ==
    LET ashore == {u \in Matching(land, me, spec) : land[u].ship = None}
    IN  Done(LandSunk(ashore), \E u \in ashore : land[u].effic = 0)

InYard(me, row, type) == LET at == sect[row.at] IN at.type = type /\ at.effic >= 60
                                                   /\ MayUse(me, row.at)
Salvaged(w, row, chr) ==
    PutSect(w, row.at, [w.sect[row.at] EXCEPT !.items = Materials(@, chr, row.effic)])
Spilled(w, row) == PutSect(w, row.at, [w.sect[row.at] EXCEPT !.items = Drop(@, row.items)])

ShipsScrapped(ships) ==
    FoldLeft(LAMBDA w, s : PutShip(Salvaged(Spilled(w, ship[s]), ship[s], ShipChr[ship[s].type]),
                                   s, Wreck(ship[s])), World, Ascending(ships))
ScrapShips(me, spec) ==
    LET here == {s \in Matching(ship, me, spec) : InYard(me, ship[s], "harbor")}
    IN  Done(ShipsScrapped(here), \E s \in here : ship[s].effic = 0)

PlanesScrapped(planes) ==
    FoldLeft(LAMBDA w, p : PutPlane(Salvaged(w, plane[p], PlaneChr[plane[p].type]), p,
                                    Wreck(plane[p])), World, Ascending(planes))
ScrapPlanes(me, spec) ==
    Done(PlanesScrapped({p \in Matching(plane, me, spec) : InYard(me, plane[p], "airfield")}), FALSE)

\* Neither looks whether the unit is a wreck already: its cargo stays in its row.
LandScrapped(units) ==
    FoldLeft(LAMBDA w, u : PutLand(Salvaged(Spilled(w, land[u]), land[u], LandChr[land[u].type]),
                                   u, Wreck(land[u])), World, Ascending(units))
ScrapLand(me, spec) ==
    LET here == {u \in Matching(land, me, spec) : MayUse(me, land[u].at)}
    IN  Done(LandScrapped(here), \E u \in here : land[u].effic = 0)

(* ---- navigate -------------------------------------------------------- *)

Navigable(s) == LET at == sect[s]
                IN  \/ at.type = "sea"
                    \/ at.type = "harbor" /\ at.effic >= 2
                    \/ at.type = "span" /\ at.effic >= 60

FortCanFire(row) == /\ row.type = "fortress" /\ row.effic >= 5
                    /\ row.items["gun"] > 0 /\ row.items["shell"] > 0 /\ row.items["mil"] >= 5
FortRange(row) == TechFact(7, 1, Tech[row.own]) + (IF row.effic >= 60 THEN 1 ELSE 0)
Spent(row) == [row EXCEPT !.items = Shift(@, "shell", -1)]
FortDamage(row, luck) == (Draw(19, 48, luck) * Least(row.items["gun"], 7) * row.effic) \div 700

FORT_MAX_INTERDICTION_RANGE == 8

\* The forts that fire at a ship because it has come near.
Hostiles(w, row) ==
    {f \in DOMAIN w.sect :
        LET at == w.sect[f]
            d == MapDist(f, row.at)
        IN  /\ at.own \notin {0, row.own} /\ FortCanFire(at)
            /\ relation[at.own][row.own] <= Hostile
            /\ d <= FORT_MAX_INTERDICTION_RANGE /\ d <= FortRange(at)}

\* Each fires one shell, and the damage of all is taken at once.
Interdict(w, row, luck) ==
    LET forts == IF "SUBMARINE" \in ShipChr[row.type].flags THEN {} ELSE Hostiles(w, row)
        dam == SumFunction([f \in forts |-> FortDamage(w.sect[f], luck)])
    IN  [w |-> PutSects(w, [f \in forts |-> Spent(w.sect[f])]),
         row |-> IF dam > 0 THEN ShipDamage(row, dam) ELSE row,
         halt |-> dam > 0, moved |-> TRUE]

\* One direction of the route: st is the ship on its way.
Sail(st, d, luck) ==
    LET to == Step(st.row.at, d)
    IN  IF st.halt THEN st
        ELSE IF st.row.mobil <= 0 \/ ~Navigable(to) THEN [st EXCEPT !.halt = TRUE]
        ELSE Interdict(st.w, [st.row EXCEPT !.mobil = @ - 1, !.at = to], luck)

\* Faulty: leaves its planes where it was.
ArriveAlone(st, s) == IF st.moved THEN PutShip(st.w, s, st.row) ELSE st.w

\* A ship that has moved is put at the end, and takes its planes along.
Arrive(st, s) ==
    LET w == PutShip(st.w, s, st.row)
    IN  IF ~st.moved THEN st.w
        ELSE [w EXCEPT !.plane = [p \in DOMAIN @ |->
                                    IF @[p].ship = s THEN [@[p] EXCEPT !.at = st.row.at] ELSE @[p]]]

Sailed(w, s, route, luck) ==
    FoldLeft(LAMBDA st, d : Sail(st, d, luck),
             [w |-> w, row |-> ship[s], halt |-> FALSE, moved |-> FALSE], route)
Voyage(w, s, route, luck) == Arrive(Sailed(w, s, route, luck), s)

Sailing(me, spec) == {s \in Matching(ship, me, spec) : ship[s].own # 0}

Voyages(ships, route, luck) ==
    FoldLeft(LAMBDA w, s : Voyage(w, s, route, luck), World, Ascending(ships))
Navigate(me, spec, route, luck) == Done(Voyages(Sailing(me, spec), route, luck), FALSE)

\* To a place: every ship finds its own route.
NavigateTo(me, s, to, luck) ==
    /\ s \in Sailing(me, {s})
    /\ \E route \in FindPath(ship[s].at, to, {at \in Sectors : Navigable(at)}, MaxRoute) :
            Done(Voyage(World, s, route, luck), FALSE)

(* ---- fire, torpedo --------------------------------------------------- *)

\* Guns that fire: manned, and with half a shell for each.
Guns(row) ==
    LET glim == ShipChr[row.type].glim
        manned == Least(Least(glim, row.items["gun"]), (row.items["mil"] + 1) \div 2)
    IN  Most(Least(manned, 2 * row.items["shell"]), 0)
ShellsNeeded(guns) == (guns + 1) \div 2
CanFire(row) == /\ row.effic >= 60 /\ ShipChr[row.type].glim # 0
                /\ row.items["gun"] > 0 /\ row.items["shell"] > 0 /\ row.items["mil"] >= 1
ShipRange(row) == TechFact(ShipChr[row.type].frnge, 2, row.tech)
Broadside(row, luck) == (Draw(9 * Guns(row), 14 * Guns(row), luck) * row.effic) \div 100
\* Faulty: takes no shells.
AfterFiringFree(row) == [row EXCEPT !.mobil = IF Guns(row) > 0 THEN Most(@ - 15, -100) ELSE @]
AfterFiring(row) == [row EXCEPT !.items = Shift(@, "shell", -ShellsNeeded(Guns(row))),
                                !.mobil = IF Guns(row) > 0 THEN Most(@ - 15, -100) ELSE @]
InRange(row, at) == LET r == ShipRange(row) IN r > 0 /\ MapDist(row.at, at) <= r

(* A ship fires at the target, which fires back if it can.  target is the   *)
(* command's copy, which the ships fire at in turn.                         *)
FireAtShip(st, s, luck, back) ==
    LET me == st.w.ship[s]
        hit == ShipDamage(st.target, Broadside(me, luck))
        answers == hit.effic > 0 /\ CanFire(hit)
    IN  IF CanFire(me) /\ InRange(me, st.target.at)
        THEN [w |-> [st.w EXCEPT !.ship[s] = IF answers
                        THEN ShipDamage(AfterFiring(me), Broadside(hit, back)) ELSE AfterFiring(me)],
              target |-> IF answers THEN AfterFiring(hit) ELSE hit]
        ELSE st

FireAtSect(st, s, luck) ==
    LET me == st.w.ship[s]
    IN  IF CanFire(me) /\ InRange(me, st.at)
        THEN [w |-> [st.w EXCEPT !.ship[s] = AfterFiring(me)],
              target |-> Shelled(st.target, Broadside(me, luck)), at |-> st.at]
        ELSE st

AllFireAtShip(firers, t, luck, back) ==
    FoldLeft(LAMBDA st, s : FireAtShip(st, s, luck, back), [w |-> World, target |-> ship[t]],
             Ascending(firers))
AllFireAtSect(firers, at, luck) ==
    FoldLeft(LAMBDA st, s : FireAtSect(st, s, luck), [w |-> World, target |-> sect[at], at |-> at],
             Ascending(firers))

ShipsFireAtShip(me, spec, t, luck, back) ==
    LET firers == Matching(ship, me, spec)
        st == AllFireAtShip(firers \ {t}, t, luck, back)
    IN  firers # {} /\ Done(PutShip(Saved(st.w, firers), t, st.target), FALSE)

ShipsFireAtSect(me, spec, at, luck) ==
    LET firers == Matching(ship, me, spec)
        st == AllFireAtSect(firers, at, luck)
    IN  firers # {} /\ Done(PutSect(Saved(st.w, firers), at, st.target), FALSE)

(* Land units: guns as the type's strength allows; a unit short of shells   *)
(* does less damage in proportion.                                          *)
LAND_MIN_FIRE_EFF == 40
LandCanFire(u) ==
    /\ u.effic >= LAND_MIN_FIRE_EFF /\ u.ship = None /\ LandChr[u.type].dam # 0
    /\ u.items["gun"] > 0 /\ u.items["shell"] > 0 /\ u.items["mil"] >= 1
LandRange(u) == TechFact(LandChr[u.type].frg, 1, u.tech)
LandAmmo(u) == Most(LandChr[u.type].ammo, 1)
LandShot(u, luck) ==
    LET guns == Least(LandChr[u.type].dam, u.items["gun"])
        full == (Draw(4 * guns, 9 * guns, luck) * u.effic) \div 100
        shells == Least(u.items["shell"], LandAmmo(u))
    IN  (2 * full * shells + LandAmmo(u)) \div (2 * LandAmmo(u))
AfterShot(u) == [u EXCEPT !.items = Shift(@, "shell", -Least(u.items["shell"], LandAmmo(u)))]

\* The units within reach fire in order, each a shot if it hits.
Battery(me, spec, at) == {u \in Matching(land, me, spec) :
                            LandCanFire(land[u]) /\ MapDist(land[u].at, at) <= LandRange(land[u])}
Barrage(units) == PutLands(World, [u \in units |-> AfterShot(land[u])])
ShipHit(row, shot) == IF shot > 0 THEN ShipDamage(row, shot) ELSE row
SectHit(row, shot) == IF shot > 0 THEN Shelled(row, shot) ELSE row
ShipShelled(t, units, luck) ==
    FoldLeft(LAMBDA row, u : ShipHit(row, LandShot(land[u], luck)), ship[t], Ascending(units))
SectShelled(at, units, luck) ==
    FoldLeft(LAMBDA row, u : SectHit(row, LandShot(land[u], luck)), sect[at], Ascending(units))

LandFiresAtShip(me, spec, t, luck) ==
    LET units == Battery(me, spec, ship[t].at)
    IN  /\ Matching(land, me, spec) # {}
        /\ Done(PutShip(Barrage(units), t, ShipShelled(t, units, luck)), FALSE)

LandFiresAtSect(me, spec, at, luck) ==
    LET units == Battery(me, spec, at)
    IN  /\ Matching(land, me, spec) # {}
        /\ Done(PutSect(Barrage(units), at, SectShelled(at, units, luck)), FALSE)

Ready(me, f, at) == /\ MayUse(me, f) /\ FortCanFire(sect[f])
                    /\ MapDist(f, at) <= FortRange(sect[f])

FortFiresAtShip(me, f, t, luck) ==
    /\ Ready(me, f, ship[t].at)
    /\ Done(PutSect(PutShip(World, t, ShipDamage(ship[t], FortDamage(sect[f], luck))),
                    f, Spent(sect[f])), FALSE)

\* The row of the fort is put last, though it may be the target.
FortFiresAtSect(me, f, at, luck) ==
    /\ Ready(me, f, at)
    /\ Done(PutSect(PutSect(World, at, Shelled(sect[at], FortDamage(sect[f], luck))),
                    f, Spent(sect[f])), FALSE)

CanTorp(row) == /\ "TORP" \in ShipChr[row.type].flags
                /\ row.items["gun"] > 0 /\ row.items["shell"] >= 3 /\ row.items["mil"] >= 1
                /\ row.effic >= 60 /\ row.mobil > 0
TorpRange(row) == (ShipChr[row.type].frnge * 2 * (50 + row.tech) * row.effic)
                  \div ((200 + row.tech) * 100)
AfterTorp(row) == [row EXCEPT !.items = Shift(@, "shell", -3), !.mobil = Most(@ - 10, -100)]

TorpAtShip(st, s, hits, answered, luck) ==
    LET me == st.w.ship[s]
        sub(row) == "SUBMARINE" \in ShipChr[row.type].flags
        dam == Draw(40, 118, luck)
        hit == IF hits THEN ShipDamage(st.target, dam) ELSE st.target
        answers == hits /\ hit.effic > 0 /\ CanTorp(hit)
    IN  IF /\ CanTorp(me)
           /\ sub(st.target) => "SUB_TORP" \in ShipChr[me.type].flags
           /\ MapDist(me.at, st.target.at) <= TorpRange(me)
        THEN [w |-> [st.w EXCEPT !.ship[s] = IF answers /\ answered
                        THEN ShipDamage(AfterTorp(me), dam) ELSE AfterTorp(me)],
              target |-> IF answers THEN AfterTorp(hit) ELSE hit]
        ELSE st

AllTorp(firers, t, hits, answered, luck) ==
    FoldLeft(LAMBDA st, s : TorpAtShip(st, s, hits, answered, luck),
             [w |-> World, target |-> ship[t]], Ascending(firers))

Torpedo(me, spec, t, hits, answered, luck) ==
    LET firers == Matching(ship, me, spec)
        st == AllTorp(firers, t, hits, answered, luck)
    IN  /\ firers # {} /\ t \notin firers
        /\ Done(PutShip(Saved(st.w, firers), t, st.target), FALSE)
=============================================================================
