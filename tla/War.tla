--------------------------------- MODULE War ---------------------------------
(***************************************************************************)
(* Nations that build, move and fight: Realm, Navy, Air and Army composed, *)
(* and declare.  Every command of every player, one after the other.       *)
(***************************************************************************)
EXTENDS Realm, Navy, Air, Army

CONSTANTS Players,        \* the countries that give commands
          Starts,         \* what the rows may be at the start
          Goods, Amounts, \* that are moved, loaded, enlisted, landed
          Types,          \* that sectors are designated
          Ways,           \* routes, sequences of directions
          Stances         \* that are declared

ASSUME WarAssumption ==
    /\ Players \subseteq Nations /\ Goods \subseteq Items /\ Amounts \subseteq Int
    /\ Types \subseteq DOMAIN SectChr /\ Ways \subseteq Seq(Directions)
    /\ Stances \subseteq AtWar..Allied
    /\ Relation \in [Nations -> [Nations -> AtWar..Allied]]
    /\ MaxMove \in Nat /\ MaxRoute \in Nat /\ MaxMarch \in Nat

Init ==
    \E w \in Starts :
        /\ ship = w.ship /\ plane = w.plane /\ land = w.land /\ sect = w.sect /\ nat = w.nat
        /\ relation = Relation
        /\ commands = 0 /\ repeated = FALSE

\* What a player may name at once, of his own: to name others' has no effect.
Named(me, row) == SUBSET Matching(row, me, DOMAIN row) \ {{}}
Areas == {{s} : s \in Sectors} \cup {Sectors}

(* ---- declare --------------------------------------------------------- *)

Declare(me, as, targets, stance) ==
    /\ as = me \/ IsDeity(me)
    /\ commands' = commands + 1 /\ repeated' = FALSE
    /\ relation' = [relation EXCEPT ![as] = [n \in Nations |->
                        IF n \in targets \ {as} THEN stance ELSE @[n]]]
    /\ UNCHANGED rows

(* ---- The commands of a player ---------------------------------------- *)

Rule(me) ==
    \/ \E from \in Sectors, i \in Goods, n \in Amounts, way \in Ways :
            Move(me, from, i, n, way) \/ Explore(me, from, i, n, way)
    \/ \E from \in {s \in Sectors : sect[s].own = me}, to \in Sectors, i \in Goods, n \in Amounts :
            MoveTo(me, from, i, n, to)
    \/ \E area \in Areas, n \in Amounts : Enlist(me, area, n)
    \/ \E area \in Areas, n \in Amounts, reserve \in BOOLEAN : Demobilize(me, area, n, reserve)
    \/ \E area \in Areas, type \in Types : Designate(me, area, type)
    \/ \E area \in Areas, type \in DOMAIN ShipChr : BuildShip(me, area, type)
    \/ \E area \in Areas, type \in DOMAIN PlaneChr : BuildPlane(me, area, type)
    \/ \E area \in Areas, type \in DOMAIN LandChr : BuildLand(me, area, type)
    \/ \E area \in Areas, d \in Directions : BuildBridgeSpan(me, area, d)
                                             \/ BuildBridgeTower(me, area, d)
    \/ \E targets \in {{n} : n \in Nations} \cup {Nations}, stance \in Stances, as \in Nations :
            Declare(me, as, targets, stance)

Supply(me) ==
    \/ \E i \in Goods, n \in Amounts, spec \in Named(me, ship) : Load(me, i, n, spec)
    \/ \E spec \in Named(me, ship), planes \in Named(me, plane) :
            LoadPlanes(me, spec, planes) \/ UnloadPlanes(me, spec, planes)
    \/ \E i \in Goods, n \in Amounts, tenders \in Named(me, ship), targets \in SUBSET DOMAIN ship :
            Tend(me, i, tenders, n, targets)
    \/ \E spec \in Named(me, ship) : ScuttleShips(me, spec) \/ ScrapShips(me, spec)
    \/ \E spec \in Named(me, plane) : ScuttlePlanes(me, spec) \/ ScrapPlanes(me, spec)
    \/ \E spec \in Named(me, land) : ScuttleLand(me, spec) \/ ScrapLand(me, spec)

Fleet(me) ==
    \/ \E spec \in Named(me, ship), way \in Ways, luck \in Luck : Navigate(me, spec, way, luck)
    \/ \E s \in DOMAIN ship, to \in Sectors, luck \in Luck : NavigateTo(me, s, to, luck)
    \/ \E v, b \in DOMAIN ship, n \in Amounts, luck, back \in Luck : Board(me, v, b, n, luck, back)
    \/ \E spec \in Named(me, ship), t \in DOMAIN ship, luck, back \in Luck :
            ShipsFireAtShip(me, spec, t, luck, back)
    \/ \E spec \in Named(me, ship), at \in Sectors, luck \in Luck : ShipsFireAtSect(me, spec, at, luck)
    \/ \E spec \in Named(me, ship), t \in DOMAIN ship, hits, answered \in BOOLEAN, luck \in Luck :
            Torpedo(me, spec, t, hits, answered, luck)

Campaign(me) ==
    \/ \E spec \in Named(me, land), t \in DOMAIN ship, luck \in Luck : LandFiresAtShip(me, spec, t, luck)
    \/ \E spec \in Named(me, land), at \in Sectors, luck \in Luck : LandFiresAtSect(me, spec, at, luck)
    \/ \E f \in Sectors, t \in DOMAIN ship, luck \in Luck : FortFiresAtShip(me, f, t, luck)
    \/ \E f, at \in Sectors, luck \in Luck : FortFiresAtSect(me, f, at, luck)
    \/ \E spec \in Named(me, land), way \in Ways : March(me, spec, way)
    \/ \E u \in DOMAIN land, to \in Sectors : MarchTo(me, u, to)
    \/ \E at \in Sectors, spec \in Named(me, land) \cup {{}}, n \in Amounts, luck, back, roll \in Luck :
            Attack(me, at, spec, n, luck, back, roll)
    \/ \E at \in Sectors, spec \in Named(me, ship), n \in Amounts : Assault(me, at, spec, n)

Fight(me, spec, at) == Shots(spec, Interceptors(World, me, at))

Sortie(me) ==
    \/ \E spec \in Named(me, plane), at \in Sectors : Fly(me, spec, at)
    \/ \E spec \in Named(me, plane), at \in Sectors :
            /\ Bombers(me, spec) # {} /\ sect[at].type # "sea"
            /\ \E shots \in Fight(me, Bombers(me, spec), at), luck \in Luck :
                   BombSect(me, spec, at, shots, luck)
    \/ \E spec \in Named(me, plane), t \in DOMAIN ship :
            /\ Bombers(me, spec) # {}
            /\ \E shots \in Fight(me, Bombers(me, spec), ship[t].at), luck \in Luck :
                   BombShip(me, spec, t, shots, luck)
    \/ \E spec \in Named(me, plane), at \in Sectors, orbit \in Orbits : Launch(me, spec, at, orbit)
    \/ \E spies, escorts \in Named(me, plane) \cup {{}}, from \in Sectors :
            LET flight == ReconFlight(me, spies, escorts, from)
            IN  /\ flight # {}
                /\ \E way \in Ways, luck \in Luck, lucky \in {{}, spies} :
                       \E shots \in Fight(me, flight, Walk(from, way)) :
                           Recon(me, spies, escorts, from, way, lucky, shots, luck)

\* The bound on commands.
Exhausted == commands = MaxCommands /\ UNCHANGED vars

Next == \/ /\ commands < MaxCommands
           /\ \E me \in Players : Rule(me) \/ Supply(me) \/ Fleet(me) \/ Campaign(me) \/ Sortie(me)
        \/ Exhausted

Spec == Init /\ [][Next]_vars

(* ---- Properties ------------------------------------------------------ *)

(* The rows stay in their tables, and numbers in their range: no stock, no  *)
(* treasury and no work force falls below zero, though a command spends for *)
(* many sectors or units of which it has read the rows before. The mobility *)
(* of a unit is a signed byte: that of a plane that has flown does not clamp *)
(* to 0, as a comment says of pln_use_fuel.                                 *)
Tables(w) ==
    /\ w \in Worlds(DOMAIN w.ship, DOMAIN w.plane, DOMAIN w.land)
    /\ \A numbers \in {DOMAIN w.ship, DOMAIN w.plane, DOMAIN w.land} :
          IsFiniteSet(numbers) /\ numbers \subseteq Nat
RowsInRange ==
    /\ Tables(World)
    /\ relation \in [Nations -> [Nations -> AtWar..Allied]]
    /\ commands \in 0..MaxCommands /\ repeated \in BOOLEAN

(* The planes aboard a ship have berths, whatever has loaded them: load, a   *)
(* landing after fly or recon, one by one or several at once. A helicopter  *)
(* may take a helicopter's berth, an extra light plane one of its own or a  *)
(* missile's, and every other goes on the deck: shipcarry counts.           *)
Berth(chr) == [chopper |-> chr.nchoppers, xlight |-> chr.nxlight, deck |-> chr.nplanes]
MayLie(flags, bucket, berth) ==
    \/ berth = "chopper" /\ bucket = "chopper"
    \/ berth = "xlight" /\ bucket = "xlight"
    \/ berth = "deck" /\ bucket \in {"fixed", "chopper"} /\ "CARRIER" \in flags
    \/ berth = "deck" /\ bucket \in {"missile", "xlight"} /\ {"CARRIER", "MISSILE"} \cap flags # {}
Housed(w, s) ==
    LET chr == ShipChr[w.ship[s].type]
    IN  \E berth \in [PlanesOn(w, s) -> {"chopper", "xlight", "deck"}] :
            /\ \A p \in DOMAIN berth : MayLie(chr.flags, Bucket(w, p), berth[p])
            /\ \A b \in DOMAIN Berth(chr) :
                  Cardinality({p \in DOMAIN berth : berth[p] = b}) <= Berth(chr)[b]
HangarFits(w) == \A s \in DOMAIN w.ship : Housed(w, s)

(* No hold has more in it than the type of ship can carry: load, tend from   *)
(* several tenders to several ships, board and assault all move goods.      *)
HoldsFit(w) ==
    \A s \in DOMAIN w.ship, i \in Items : w.ship[s].items[i] <= ShipChr[w.ship[s].type].cap[i]

(* Neither hangar nor hold of a ship takes more than it can, by load, tend, *)
(* board, fly, recon or assault.                                            *)
NothingOverloaded == HangarFits(World) /\ HoldsFit(World)

(* A plane that is aboard is not left at sea when its ship sails, is sunk or *)
(* is taken: it is where the ship is, or has come down on land.             *)
Moored(w) ==
    \A p \in DOMAIN w.plane :
        LET row == w.plane[p]
        IN  row.ship # None => row.at = w.ship[row.ship].at \/ w.sect[row.at].type # "sea"
NoneAdrift == Moored(World)

(* The server starts with rows that earlier commands, or the deity, have    *)
(* left: in their tables, no ship overloaded and no plane adrift.           *)
ASSUME StartsAssumption ==
    \A w \in Starts : Tables(w) /\ HangarFits(w) /\ HoldsFit(w) /\ Moored(w)

(* No command makes goods, or people, of nothing: what there is in sectors,  *)
(* ships and units, and what scrapping them would give, does not grow. The  *)
(* exceptions are recorded in repeated, and described where it is set.      *)
Scrap(chr, effic, i) == IF i \in {"lcm", "hcm"} THEN Recovered(chr[i], effic) ELSE 0
Worth(row, chr, i) == IF row.effic > 0 THEN Scrap(chr, row.effic, i) ELSE 0
Laden(row, chr, i) == IF row.effic > 0 THEN row.items[i] + Scrap(chr, row.effic, i) ELSE 0
Wealth(w, i) ==
    SumFunction([s \in Sectors |-> w.sect[s].items[i] + (IF i = "civ" THEN w.sect[s].che ELSE 0)])
    + SumFunction([s \in DOMAIN w.ship |-> Laden(w.ship[s], ShipChr[w.ship[s].type], i)])
    + SumFunction([p \in DOMAIN w.plane |-> Worth(w.plane[p], PlaneChr[w.plane[p].type], i)])
    + SumFunction([u \in DOMAIN w.land |-> Laden(w.land[u], LandChr[w.land[u].type], i)])
Afterwards == [ship |-> ship', plane |-> plane', land |-> land', sect |-> sect', nat |-> nat']
Kinds == {{i} : i \in Items \ {"civ", "mil"}} \cup {{"civ", "mil"}}
All(w, kind) == SumFunction([i \in kind |-> Wealth(w, i)])
NothingFromNothing ==
    [][repeated' \/ \A kind \in Kinds : All(Afterwards, kind) <= All(World, kind)]_vars

(* A ship that is hit and stays afloat has cost somebody else a shell, or a  *)
(* plane fuel: whoever fires, asked or answering, is charged in its own row *)
(* also when the row is put more than once in the command.                  *)
NoFreeShot ==
    [][\A s \in DOMAIN ship :
        ship'[s].effic < ship[s].effic /\ ship'[s].effic > 0 =>
            \/ \E f \in Sectors : sect'[f].items["shell"] < sect[f].items["shell"]
            \/ \E t \in DOMAIN ship \ {s} : ship'[t].items["shell"] < ship[t].items["shell"]
            \/ \E u \in DOMAIN land : land'[u].items["shell"] < land[u].items["shell"]
            \/ \E p \in DOMAIN plane : plane'[p].mobil < plane[p].mobil]_vars
=============================================================================
