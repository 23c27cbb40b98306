------------------------------- MODULE Forces -------------------------------
(***************************************************************************)
(* Ships, planes, land units, sectors and nations: their rows, the         *)
(* rules of the tables of types, distances, and what damage does.          *)
(*                                                                         *)
(* Realm, Navy, Air and Army are the commands over these rows; War         *)
(* composes them.  A command is one step here: what overlapping commands   *)
(* do to one another's copies of a row is the subject of GameServer,       *)
(* Market and Loans.                                                       *)
(* Random draws are given by Luck, per cent of the span of a draw.         *)
(***************************************************************************)
EXTENDS Integers, Sequences, FiniteSets, FiniteSetsExt, SequencesExt, Functions

CONSTANTS WorldX, WorldY,
          Nations,                      \* country numbers; 0 is nobody, and the deity
          Tech, Relation,               \* of a country; of one towards another
          Items,                        \* at least those in Special
          SectChr, ShipChr, PlaneChr, LandChr,   \* the tables of types
          Luck,                         \* per cent of the span of a random draw
          MaxCommands                   \* bound on commands

VARIABLES ship, plane, land, sect, nat, \* the rows
          relation,                     \* of each country towards each other
          commands,                     \* how many so far
          repeated                      \* history: the last command counted the same goods twice

rows == <<ship, plane, land, sect, nat>>
vars == <<rows, relation, commands, repeated>>

Special == {"civ", "mil", "shell", "gun", "petrol", "lcm", "hcm"}
None == -1              \* of plane.ship, plane.land, land.ship, land.carrier
SHIP_MINEFF == 20
PLANE_MIN_EFF == 10
LAND_MIN_EFF == 10

ASSUME ForcesAssumption ==
    /\ WorldX \in Nat \ {0} /\ WorldX % 2 = 0
    /\ WorldY \in Nat \ {0} /\ WorldY % 2 = 0
    /\ 0 \in Nations /\ Nations \subseteq Nat
    /\ Tech \in [Nations -> Nat]
    /\ Special \subseteq Items
    /\ Luck \subseteq 0..99
    /\ MaxCommands \in Nat

(* What the tables of types have in common: no cost, armor, room or reach   *)
(* is negative, every ship has room for a soldier, and a plane's fuel for a  *)
(* sector is less than its tank.  Open water is not a designation.          *)
ASSUME TablesAssumption ==
    /\ {"sea", "span", "tower"} \subseteq DOMAIN SectChr /\ SectChr["sea"].water
    /\ \A t \in DOMAIN SectChr : SectChr[t].mob0 \in Int /\ SectChr[t].mob1 \in Int
    /\ \A t \in DOMAIN ShipChr :
          LET chr == ShipChr[t]
          IN  /\ chr.lcm \in Nat /\ chr.hcm \in Nat /\ chr.bwork \in Nat /\ chr.armor \in Nat
              /\ chr.frnge \in Nat /\ chr.glim \in Nat /\ chr.nplanes \in Nat
              /\ chr.nchoppers \in Nat /\ chr.nxlight \in Nat
              /\ chr.cap \in [Items -> Nat] /\ chr.cap["mil"] >= 1
    /\ \A t \in DOMAIN PlaneChr :
          LET chr == PlaneChr[t]
          IN  /\ chr.lcm \in Nat /\ chr.hcm \in Nat /\ chr.bwork \in Nat /\ chr.load \in Nat
              /\ chr.range \in Nat /\ chr.fuel \in 0..127 /\ chr.att \in Int /\ chr.def \in Int
    /\ \A t \in DOMAIN LandChr :
          LET chr == LandChr[t]
          IN  /\ chr.lcm \in Nat /\ chr.hcm \in Nat /\ chr.bwork \in Nat /\ chr.dam \in Nat
              /\ chr.ammo \in Nat /\ chr.frg \in Nat /\ chr.att \in Nat /\ chr.def \in Nat

\* From the worst to the best, as the code compares them.
AtWar == 0
Hostile == 1
Neutral == 2
Friendly == 3
Allied == 4

Least(a, b) == IF a <= b THEN a ELSE b
Most(a, b) == IF a >= b THEN a ELSE b
IsDeity(me) == me = 0

(* ---- The map --------------------------------------------------------- *)

Sectors == {s \in (0..WorldX - 1) \X (0..WorldY - 1) : (s[1] + s[2]) % 2 = 0}
Directions == 1..6
DIROFF == <<<<1, -1>>, <<2, 0>>, <<1, 1>>, <<-1, 1>>, <<-2, 0>>, <<-1, -1>>>>
Step(s, d) == <<(s[1] + DIROFF[d][1]) % WorldX, (s[2] + DIROFF[d][2]) % WorldY>>

Apart(a, b, n) == LET d == (IF a >= b THEN a - b ELSE b - a) % n
                  IN  IF d > n \div 2 THEN n - d ELSE d
MapDist(s, t) == LET dx == Apart(s[1], t[1], WorldX)
                     dy == Apart(s[2], t[2], WorldY)
                 IN  IF dx > dy THEN ((dx - dy) \div 2) + dy ELSE dy

(* find_path: all shortest routes over passable sectors; the search takes   *)
(* the first in the order of directions.                                    *)
Walk(s, route) == FoldLeft(Step, s, route)
FindPath(s, t, passable, max) ==
    LET through(route) == \A k \in 1..Len(route) : Walk(s, SubSeq(route, 1, k)) \in passable
        routes(n) == {r \in [1..n -> Directions] : Walk(s, r) = t /\ through(r)}
        lengths == {n \in 1..max : routes(n) # {}}
    IN  IF s = t \/ lengths = {} THEN {} ELSE routes(Min(lengths))

\* base * techfact(1, tech) for base = num / den, cut
TechFact(num, den, tech) == (num * (50 + tech)) \div (den * (200 + tech))

(* ---- Rows ------------------------------------------------------------ *)

\* No stock of goods, no work force and no treasury is below zero; the mobility of
\* a unit, a signed byte, may be.
Stock == [Items -> Nat]
SectRow == [own : Nations, old_own : Nations, type : DOMAIN SectChr, effic : 0..100, mobil : Int,
            avail : Nat, coastal : BOOLEAN, items : Stock, loyal : Int, che : Nat,
            che_target : Nations, mines : Nat]
ShipRow == [own : Nations, at : Sectors, type : DOMAIN ShipChr, effic : 0..100, mobil : -100..127,
            tech : Nat, items : Stock]
PlaneRow(ships) ==
    [own : Nations, at : Sectors, type : DOMAIN PlaneChr, effic : 0..100, mobil : -128..127,
     range : Nat, ship : ships \cup {None}, launched : BOOLEAN]
LandRow(ships) ==
    [own : Nations, at : Sectors, type : DOMAIN LandChr, effic : 0..100, mobil : -128..127,
     tech : Nat, ship : ships \cup {None}, items : Stock]
NatRow == [money : Nat, reserve : Nat]
\* The rows of these units, and of every sector and nation.
Worlds(ships, planes, units) ==
    [ship : [ships -> ShipRow], plane : [planes -> PlaneRow(ships)], land : [units -> LandRow(ships)],
     sect : [Sectors -> SectRow], nat : [Nations -> NatRow]]

Empty == [i \in Items |-> 0]
Drop(items, cargo) == [i \in Items |-> items[i] + Most(cargo[i], 0)]
Shift(items, i, n) == [items EXCEPT ![i] = @ + n]

\* The rows as one record, for handlers that visit one unit after the other.
World == [ship |-> ship, plane |-> plane, land |-> land, sect |-> sect, nat |-> nat]

PutShip(w, u, row) ==
    [w EXCEPT !.ship[u] = IF row.effic < SHIP_MINEFF
                          THEN [row EXCEPT !.own = 0, !.effic = 0] ELSE row]
PutPlane(w, u, row) == [w EXCEPT !.plane[u] = row]
PutLand(w, u, row) == [w EXCEPT !.land[u] = row]
PutSect(w, s, row) == [w EXCEPT !.sect[s] = row]
PutNat(w, n, row) == [w EXCEPT !.nat[n] = row]

\* Several units, each once: new has the rows of those that are put.
Over(old, new) == [u \in DOMAIN old |-> IF u \in DOMAIN new THEN new[u] ELSE old[u]]
Saved(w, spec) ==
    [w EXCEPT !.ship = [s \in DOMAIN @ |-> IF s \in spec /\ @[s].effic < SHIP_MINEFF
                                           THEN [@[s] EXCEPT !.own = 0, !.effic = 0] ELSE @[s]]]
PutPlanes(w, new) == [w EXCEPT !.plane = Over(@, new)]
PutLands(w, new) == [w EXCEPT !.land = Over(@, new)]
PutSects(w, new) == [w EXCEPT !.sect = Over(@, new)]

(* The end of a command: the rows it has put.  again: it has counted goods  *)
(* of a row twice.                                                          *)
Done(w, again) ==
    /\ commands < MaxCommands /\ commands' = commands + 1
    /\ ship' = w.ship /\ plane' = w.plane /\ land' = w.land /\ sect' = w.sect /\ nat' = w.nat
    /\ repeated' = again
    /\ UNCHANGED relation

\* The order of the queries: units by number, sectors by row and column.
Ascending(S) ==
    [k \in 1..Cardinality(S) |-> CHOOSE u \in S : Cardinality({v \in S : v < u}) = k - 1]
Precedes(s, t) == s[2] < t[2] \/ (s[2] = t[2] /\ s[1] < t[1])
InRows(S) ==
    [k \in 1..Cardinality(S) |-> CHOOSE s \in S : Cardinality({t \in S : Precedes(t, s)}) = k - 1]
Matching(row, me, spec) == {u \in spec : row[u].own = me \/ IsDeity(me)}
PlanesOn(w, s) == {p \in DOMAIN w.plane : w.plane[p].ship = s}

(* ---- Damage ---------------------------------------------------------- *)

Draw(lo, hi, luck) == lo + (((hi - lo) * luck) \div 99)

\* What is left of n after pct per cent, rounded to the nearest.
Damage(n, pct) == IF n <= 0 THEN 0 ELSE Most(n - ((n * pct + 50) \div 100), 0)
ItemDamage(pct, items) == [i \in Items |-> IF items[i] = 0 THEN 0 ELSE Damage(items[i], pct)]

Worn(row, pct) == [row EXCEPT !.effic = Damage(@, pct),
                              !.mobil = IF @ > 0 THEN Damage(@, pct) ELSE @]
ShipDamage(row, dam) ==
    LET armor == ShipChr[row.type].armor
        pct == Least((dam * 100) \div (100 + armor), 100)
    IN  IF pct <= 0 THEN row ELSE [Worn(row, pct) EXCEPT !.items = ItemDamage(pct, @)]
LandDamage(row, dam) ==
    LET pct == Least(dam, 100)
    IN  IF dam <= 0 THEN row
        ELSE IF "SPY" \in LandChr[row.type].flags THEN [row EXCEPT !.effic = 0]
        ELSE [Worn(row, pct) EXCEPT !.items = ItemDamage(pct, @)]
PlaneDamage(row, dam) == IF dam <= 0 THEN row ELSE Worn(row, Least(dam, 100))
Shelled(row, dam) == [row EXCEPT !.effic = Damage(@, Least(Most(dam, 0), 100))]

(* ---- Planes on ships ------------------------------------------------- *)

\* CarryBucket, or "none"
ClassifyPlane(flags) ==
    IF "HELO" \in flags THEN "chopper"
    ELSE IF "XLIGHT" \in flags THEN "xlight"
    ELSE IF "LIGHT" \notin flags THEN "none"
    ELSE IF "MISSILE" \in flags THEN "missile" ELSE "fixed"

Bucket(w, p) == ClassifyPlane(PlaneChr[w.plane[p].type].flags)

\* How many of a list are of a kind.
Aboard(w, list, b) == Cardinality({k \in 1..Len(list) : Bucket(w, list[k]) = b})

\* Faulty: forgets that a helicopter without a berth of its own takes a place on deck.
ShipCanCarryHelos(w, type, manifest, p) ==
    LET chr == ShipChr[type]
        kind(b) == Aboard(w, Append(manifest, p), b)
    IN  /\ Bucket(w, p) # "none"
        /\ kind("fixed") > 0 => "CARRIER" \in chr.flags
        /\ kind("fixed") + kind("missile") <= chr.nplanes
(* May a ship of this type carry the planes of its manifest and one more?   *)
(* The manifest is a sequence: a plane may be in it twice.                  *)
ShipCanCarry(w, type, manifest, p) ==
    LET chr == ShipChr[type]
        all == Append(manifest, p)
        count(b) == Aboard(w, all, b)
        nch == count("chopper")
        nxl == count("xlight")
        nmsl == count("missile") + Most(nxl - chr.nxlight, 0)
        nfw == Len(all) - nch - nxl - count("missile") + Most(nch - chr.nchoppers, 0)
    IN  /\ Bucket(w, p) # "none"
        /\ nmsl > 0 => {"MISSILE", "CARRIER"} \cap chr.flags # {}
        /\ nfw > 0 => "CARRIER" \in chr.flags
        /\ nfw + nmsl <= chr.nplanes
=============================================================================
