-------------------------------- MODULE Realm --------------------------------
(***************************************************************************)
(* The commands about one's own sectors: move, explore, enlist, demobilize, *)
(* designate, and build, with its bridges.                                 *)
(***************************************************************************)
EXTENDS Forces

CONSTANTS MaxMove         \* bound on the length of a path that is searched for

\* The sectors a command with a specification goes through, in order.
Own(me, spec) == {s \in spec : sect[s].own # 0 /\ (sect[s].own = me \/ IsDeity(me))}

(* ---- move, explore --------------------------------------------------- *)

(* The cost of entering, in thousandths: mob0 and mob1 of a type are in     *)
(* tenths, and the floats are a little above them.                          *)
Passable(type) == SectChr[type].mob0 >= 0
MCost(row) == LET chr == SectChr[row.type]
                  eff == Most(row.effic, 0)
              IN  Most((chr.mob0 * 100) + ((chr.mob1 - chr.mob0) * eff), 1)

\* One direction: the sectors of owners may be entered, and are claimed if nobody's.
Carry(st, d, me, owners) ==
    LET to == Step(st.at, d)
        row == st.w.sect[to]
    IN  IF \/ st.halt \/ row.type \in {"sea", "mountain"} \/ row.own \notin owners
           \/ ~Passable(row.type) \/ MCost(row) >= st.left
        THEN [st EXCEPT !.halt = TRUE]
        ELSE [w |-> IF row.own = 0 THEN PutSect(st.w, to, [row EXCEPT !.own = me, !.old_own = me])
                    ELSE st.w,
              at |-> to, left |-> st.left - MCost(row), halt |-> FALSE, steps |-> st.steps + 1]

Carried(me, from, route, owners) ==
    FoldLeft(LAMBDA st, d : Carry(st, d, me, owners),
             [w |-> World, at |-> from, left |-> sect[from].mobil * 1000, halt |-> FALSE,
              steps |-> 0], route)

(* The source is put as it was read before the walk, then the destination   *)
(* is read and put.                                                         *)
Transport(me, from, i, amount, route, owners) ==
    LET src == sect[from]
        st == Carried(me, from, route, owners)
        sent == PutSect(st.w, from, [src EXCEPT !.items = Shift(@, i, -amount),
                                                !.mobil = (2 * st.left + 999) \div 2000])
    IN  /\ src.own = me /\ amount > 0 /\ src.items[i] >= amount /\ src.mobil > 0
        /\ st.steps > 0
        /\ Done(PutSect(sent, st.at, [sent.sect[st.at] EXCEPT !.items = Shift(@, i, amount)]), FALSE)

Move(me, from, i, amount, route) ==
    Transport(me, from, i, amount, route, {me})

MoveTo(me, from, i, amount, to) ==
    \E route \in FindPath(from, to, {s \in Sectors : sect[s].own = me
                                                 /\ sect[s].type \notin {"sea", "mountain"}}, MaxMove) :
        Move(me, from, i, amount, route)

Explore(me, from, i, amount, route) ==
    Transport(me, from, i, amount, route, {0, me})

(* ---- enlist, demobilize ---------------------------------------------- *)

EnlistOne(st, s, me, wanted) ==
    LET row == sect[s]
        n == Min({wanted, row.items["civ"] \div 2, 500, Most(999 - row.items["mil"], 0)})
    IN  IF st.total >= 10000 \/ (row.loyal > 70 /\ ~IsDeity(me)) \/ n <= 0 THEN st
        ELSE [w |-> PutSect(st.w, s, [row EXCEPT !.items = Shift(Shift(@, "civ", -n), "mil", n)]),
              total |-> st.total + n]

Enlisted(me, spec, wanted) ==
    FoldLeft(LAMBDA st, s : EnlistOne(st, s, me, wanted), [w |-> World, total |-> 0],
             InRows(Own(me, spec)))

Enlist(me, spec, wanted) ==
    wanted > 0 /\ Done(Enlisted(me, spec, wanted).w, FALSE)

ITEM_MAX == 9999

\* Faulty: asks for each sector whether there is money for it, as if it were the only one.
DemobilizeOneEach(st, s, me, amount) ==
    LET row == sect[s]
        n == Least(amount, row.items["mil"])
    IN  IF row.effic < 60 \/ row.old_own # row.own \/ n <= 0 \/ nat[me].money < 5 * n THEN st
        ELSE [w |-> PutSect(st.w, s, [row EXCEPT !.items = Shift(Shift(@, "mil", -n), "civ", n)]),
              total |-> st.total + n, broke |-> FALSE]

(* Soldiers become civilians, at five dollars each; a sector that cannot be *)
(* paid for ends the command.  A negative amount is what is to be kept.     *)
DemobilizeOne(st, s, me, amount) ==
    LET row == sect[s]
        mil == row.items["mil"]
        n == Least(IF amount < 0 THEN mil - Least(-amount, mil) ELSE Least(amount, mil),
                   ITEM_MAX - row.items["civ"])
    IN  IF st.broke \/ (~IsDeity(me) /\ (row.effic < 60 \/ row.old_own # row.own)) \/ n <= 0 THEN st
        ELSE IF nat[me].money - 5 * (st.total + n) < 0 THEN [st EXCEPT !.broke = TRUE]
        ELSE [w |-> PutSect(st.w, s, [row EXCEPT !.items = Shift(Shift(@, "mil", -n), "civ", n)]),
              total |-> st.total + n, broke |-> FALSE]

Demobilized(me, spec, amount) ==
    FoldLeft(LAMBDA st, s : DemobilizeOne(st, s, me, amount),
             [w |-> World, total |-> 0, broke |-> FALSE], InRows(Own(me, spec)))

Demobilize(me, spec, amount, reserve) ==
    LET st == Demobilized(me, spec, amount)
    IN  Done(PutNat(st.w, me, [nat[me] EXCEPT !.money = @ - 5 * st.total,
                                              !.reserve = IF reserve THEN @ + st.total ELSE @]), FALSE)

(* ---- designate ------------------------------------------------------- *)

Designable(me, s, type) ==
    /\ sect[s].type # type
    /\ type = "harbor" => sect[s].coastal
    /\ ~SectChr[sect[s].type].deity \/ IsDeity(me)

Designate(me, spec, type) ==
    /\ ~SectChr[type].water
    /\ SectChr[type].deity => IsDeity(me)
    /\ Done(PutSects(World, [s \in {t \in Own(me, spec) : Designable(me, t, type)} |->
                                [sect[s] EXCEPT !.effic = 0, !.type = type]]), FALSE)

(* ---- build ----------------------------------------------------------- *)

\* What a unit of so many per cent takes of n, rounded up.
Needed(n, effic) == ((n * effic) + 99) \div 100

(* A yard that has the workers and materials, of a type in types; the       *)
(* deity's need nothing.                                                    *)
Yard(me, s, chr, effic, types) ==
    LET row == sect[s]
    IN  IsDeity(me) \/ (/\ row.type \in types /\ row.effic >= 60
                        /\ row.avail >= Needed(chr.bwork, effic)
                        /\ row.items["lcm"] >= Needed(chr.lcm, effic)
                        /\ row.items["hcm"] >= Needed(chr.hcm, effic))
Paid(me, row, chr, effic) ==
    IF IsDeity(me) THEN row
    ELSE [row EXCEPT !.avail = @ - Needed(chr.bwork, effic),
                     !.items = Shift(Shift(@, "lcm", -Needed(chr.lcm, effic)),
                                     "hcm", -Needed(chr.hcm, effic))]

\* The first yard in order that can; numbers go on from the highest.
Yards(me, spec, chr, effic, types) ==
    InRows({s \in Own(me, spec) : Yard(me, s, chr, effic, types)})
Next1(row) == 1 + Max(DOMAIN row \cup {-1})
Added(row, new) == [u \in DOMAIN row \cup {Next1(row)} |-> IF u \in DOMAIN row THEN row[u] ELSE new]

BuildShip(me, spec, type) ==
    LET chr == ShipChr[type]
        yards == Yards(me, spec, chr, 20, {"harbor"})
        at == Head(yards)
        new == [own |-> me, at |-> at, type |-> type, effic |-> 20, mobil |-> 0, tech |-> Tech[me],
                items |-> Empty]
    IN  /\ yards # <<>>
        /\ Done([PutSect(World, at, Paid(me, sect[at], chr, 20)) EXCEPT !.ship = Added(@, new)],
                IsDeity(me))

BuildPlane(me, spec, type) ==
    LET chr == PlaneChr[type]
        yards == Yards(me, spec, chr, 10, {"airfield"})
        at == Head(yards)
        new == [own |-> me, at |-> at, type |-> type, effic |-> 10, mobil |-> 0, range |-> 255,
                ship |-> None, launched |-> FALSE]
    IN  /\ yards # <<>>
        /\ Done([PutSect(World, at, Paid(me, sect[at], chr, 10)) EXCEPT !.plane = Added(@, new)],
                IsDeity(me))

BuildLand(me, spec, type) ==
    LET chr == LandChr[type]
        yards == Yards(me, spec, chr, 10, DOMAIN SectChr)
        at == Head(yards)
        new == [own |-> me, at |-> at, type |-> type, effic |-> 10, mobil |-> 0, tech |-> Tech[me],
                ship |-> None, items |-> Empty]
    IN  /\ yards # <<>>
        /\ Done([PutSect(World, at, Paid(me, sect[at], chr, 10)) EXCEPT !.land = Added(@, new)],
                IsDeity(me))

(* ---- bridges --------------------------------------------------------- *)

Around(s) == {Step(s, d) : d \in Directions}
HasBridgeSupport(s) == \E t \in Around(s) : /\ sect[t].type \in {"bridge head", "tower"}
                                            /\ sect[t].effic >= 60
NextToLand(s) == \E t \in Around(s) : sect[t].type \notin {"sea", "span", "tower"}

(* Every source of the specification builds in the same direction.  The     *)
(* money is the treasury of the start of the command less one price.        *)
BridgeOne(w, s, d, hcm, type) ==
    LET new == [sect[Step(s, d)] EXCEPT !.type = type, !.effic = 10, !.mobil = 0,
                                        !.own = sect[s].own, !.old_own = sect[s].own]
    IN  PutSect(PutSect(w, Step(s, d), new), s, [sect[s] EXCEPT !.items = Shift(@, "hcm", -hcm)])
Bridged(sources, d, hcm, type) ==
    FoldLeft(LAMBDA w, s : BridgeOne(w, s, d, hcm, type), World, InRows(sources))
Bridge(me, spec, d, hcm, price, type, from, fitting) ==
    LET sources == {s \in Own(me, spec) : /\ sect[s].type \in from \/ IsDeity(me)
                                          /\ sect[s].items["hcm"] >= hcm
                                          /\ sect[Step(s, d)].type = "sea"
                                          /\ Step(s, d) \in fitting \/ IsDeity(me)}
    IN  /\ sources # {} /\ nat[me].money >= price
        /\ Done(PutNat(Bridged(sources, d, hcm, type), me, [nat[me] EXCEPT !.money = @ - price]),
                FALSE)

BuildBridgeSpan(me, spec, d) ==
    /\ Tech[me] >= 10 \/ IsDeity(me)
    /\ Bridge(me, spec, d, 100, 1000, "span", {"bridge head", "tower"},
              {s \in Sectors : HasBridgeSupport(s)})

BuildBridgeTower(me, spec, d) ==
    /\ Tech[me] >= 100 \/ IsDeity(me)
    /\ Bridge(me, spec, d, 300, 3000, "tower", {"span"}, {s \in Sectors : ~NextToLand(s)})
=============================================================================
