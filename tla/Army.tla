-------------------------------- MODULE Army --------------------------------
(***************************************************************************)
(* The commands about land units and the taking of sectors: march, attack,  *)
(* assault from a ship, and what becomes of a sector that is taken.         *)
(***************************************************************************)
EXTENDS Forces

CONSTANTS MaxMarch        \* bound on the length of a route that is searched for

CHE_MAX == 255

(* ---- march ----------------------------------------------------------- *)

Foreign(me, s) == sect[s].own \notin {0, me} /\ ~IsDeity(me)

\* A unit goes one mobility a step, up to the sea or another's border.
Tread(me, st, d) ==
    LET to == Step(st.at, d)
    IN  IF st.halt \/ st.mobil <= 0 \/ sect[to].type = "sea" \/ Foreign(me, to)
        THEN [st EXCEPT !.halt = TRUE]
        ELSE [at |-> to, mobil |-> st.mobil - 1, halt |-> FALSE]

Trodden(me, row, route) ==
    FoldLeft(LAMBDA st, d : Tread(me, st, d), [at |-> row.at, mobil |-> row.mobil, halt |-> FALSE],
             route)
Marched(me, row, route) ==
    LET st == Trodden(me, row, route) IN [row EXCEPT !.at = st.at, !.mobil = st.mobil]

Marching(me, spec) == {u \in Matching(land, me, spec) : land[u].own # 0 /\ land[u].ship = None}

March(me, spec, route) ==
    Done(PutLands(World, [u \in Marching(me, spec) |-> Marched(me, land[u], route)]), FALSE)

\* To a place: borders are no obstacle to the search, only to the march.
MarchTo(me, u, to) ==
    /\ u \in Marching(me, {u})
    /\ \E route \in FindPath(land[u].at, to, {s \in Sectors : sect[s].type # "sea"}, MaxMarch) :
            Done(PutLand(World, u, Marched(me, land[u], route)), FALSE)

(* ---- attack ---------------------------------------------------------- *)

(* Strengths in thousandths of a man; att and def of a type are in tenths.  *)
FORT_BONUS(type, str) == IF type = "fortress" THEN (str * 3) \div 2 ELSE str
\* of is "att" or "def"
UnitStr(units, of) == SumFunction([u \in units |-> land[u].effic * LandChr[land[u].type][of] * 100])
AttStr(me, mil, units) ==
    (mil * (100 + Tech[me]) * 10) + UnitStr(units, "att")
DefTech(own) == IF own = 0 THEN 0 ELSE Tech[own]
DefStr(at, units) ==
    FORT_BONUS(sect[at].type,
               ((sect[at].items["mil"] * (100 + DefTech(sect[at].own)) * sect[at].effic) \div 10)
                   + UnitStr(units, "def"))

\* A tenth to three tenths of the other side's strength, in men.
Roll(luck) == Draw(10, 30, luck)
Casualties(str, luck) == (str * Roll(luck)) \div 100000
Left(str, casualties) == Most(str - (casualties * 1000), 0)
AttackerWins(att, def, luck, back) ==
    2 * Left(att, Casualties(def, luck)) > 3 * Left(def, Casualties(att, back))

\* Guerrillas that rise when a sector is taken from its own people.
Risen(row, n) ==
    LET civ == row.items["civ"]
        few == ((civ * n) \div 3000) + 5
        count == Least(IF 2 * few > civ THEN civ \div 2 ELSE few, CHE_MAX - row.che)
    IN  IF n > 0 /\ row.own = row.old_own THEN Most(count, 0) ELSE 0

\* The sector as the new owner has it.
Takeover(row, new, luck) ==
    LET risen == Risen(row, (50 - row.loyal) + (luck - 26))
        target == IF new # row.old_own THEN new ELSE row.che_target
        again == row.old_own = new \/ row.items["civ"] = 0
    IN  [row EXCEPT !.own = new, !.avail = 0, !.items["civ"] = @ - risen,
                    !.che = IF target = 0 THEN 0 ELSE row.che + risen,
                    !.che_target = target,
                    !.loyal = IF again THEN 0 ELSE 50,
                    !.old_own = IF again THEN new ELSE @]

CanAttack(u) == land[u].effic >= LAND_MIN_EFF /\ land[u].ship = None

(* The units may be anywhere, and the militia need not exist: it is a       *)
(* number of the command.  Nobody's casualties are put.                     *)
Attack(me, at, spec, mil, luck, back, roll) ==
    LET own == sect[at].own
        attackers == {u \in spec : land[u].own = me /\ CanAttack(u)}
        defenders == {u \in DOMAIN land : land[u].own = own /\ land[u].at = at
                                          /\ land[u].ship = None}
        wins == AttackerWins(AttStr(me, Most(mil, 0), attackers), DefStr(at, defenders), luck, back)
    IN  /\ own # me
        /\ IsDeity(me) \/ (own # 0 /\ relation[me][own] = AtWar)
        /\ Done(IF wins
                THEN PutLands(PutSect(World, at, Takeover(sect[at], me, roll)),
                              [u \in defenders |-> [land[u] EXCEPT !.effic = 0]])
                ELSE World, FALSE)

(* ---- assault --------------------------------------------------------- *)

Neighbors(s) == {Step(s, d) : d \in Directions}

\* The first ship named that is near.
Lander(me, at, spec) ==
    {s \in spec : /\ ship[s].own # 0 /\ (ship[s].own = me \/ IsDeity(me))
                  /\ ship[s].at \in Neighbors(at) \cup {at}}

\* Faulty: the civilians stay aboard, too.
GoAshoreTwice(me, s, at, troops) ==
    LET mil == Most(Least(troops, ship[s].items["mil"]), 0)
    IN  PutSect(PutShip(World, s, [ship[s] EXCEPT !.items = Shift(@, "mil", -mil)]), at,
                [sect[at] EXCEPT !.items = Shift(Shift(@, "mil", mil), "civ", ship[s].items["civ"]),
                                 !.own = me])

\* To nobody's sector, or one's own: the troops asked for, and all civilians.
GoAshore(me, s, at, troops) ==
    LET mil == Most(Least(troops, ship[s].items["mil"]), 0)
        civ == ship[s].items["civ"]
        row == sect[at]
        moved(items, sign) == Shift(Shift(items, "mil", sign * mil), "civ", sign * civ)
        claimed == [row EXCEPT !.items = moved(@, 1), !.own = me,
                               !.old_own = IF row.own = 0 THEN me ELSE @,
                               !.effic = IF row.own = 0 THEN Most(@, 1) ELSE @]
    IN  PutSect(PutShip(World, s, [ship[s] EXCEPT !.items = moved(@, -1)]), at, claimed)

(* Against an owner, at war or not.  Strengths in hundredths of a man.  The *)
(* survivors are in the sector and aboard too.                              *)
StormStr(s, troops) == troops * ship[s].effic
HoldStr(at) == (sect[at].items["mil"] * 100) + (sect[at].items["civ"] * 10) + (sect[at].effic * 50)
Stormed(me, s, at, troops) ==
    LET row == sect[at]
        defLost == Least(row.items["mil"], (StormStr(s, troops) * 8) \div 1000)
        survivors == Most(troops - (HoldStr(at) \div 200), 1)
        aboard(n) == [ship[s] EXCEPT !.items = Shift(@, "mil", -n)]
    IN  IF StormStr(s, troops) > HoldStr(at)
        THEN PutSect(PutShip(World, s, aboard(troops - survivors)), at,
                     [row EXCEPT !.items = Shift(@, "mil", survivors - defLost),
                                 !.own = me, !.old_own = 0, !.loyal = 0])
        ELSE PutShip(World, s, aboard((troops * 8) \div 10))

Assault(me, at, spec, asked) ==
    LET s == Min(Lander(me, at, spec))
        flags == ShipChr[ship[s].type].flags
        aboard == ship[s].items["mil"]
        most == IF "LAND" \in flags THEN aboard ELSE aboard \div 4
        peaceful == sect[at].own \in {0, me}
    IN  /\ sect[at].type \notin {"sea", "sanctuary"}
        /\ Lander(me, at, spec) # {}
        /\ {"LAND", "SEMI"} \cap flags # {}
        /\ IF peaceful THEN aboard # 0 \/ ship[s].items["civ"] # 0 ELSE Least(asked, most) > 0
        /\ Done(IF peaceful THEN GoAshore(me, s, at, asked)
                ELSE Stormed(me, s, at, Least(asked, most)),
                ~peaceful /\ StormStr(s, Least(asked, most)) > HoldStr(at))
=============================================================================
