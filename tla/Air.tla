-------------------------------- MODULE Air ---------------------------------
(***************************************************************************)
(* The commands about planes: fly, bomb, launch, recon and sweep, with the  *)
(* interceptors that rise.  wingadd and mission set letters and codes that  *)
(* no other command acts upon: sets of planes stand for wings.              *)
(***************************************************************************)
EXTENDS Forces

(* ---- What a plane can do --------------------------------------------- *)

Capable(row) == row.effic >= PLANE_MIN_EFF /\ row.mobil > 0

AsI8(n) == ((n + 128) % 256) - 128
\* The subtraction stays at the ends of a signed byte, which is not at zero.
UseFuel(row, dist) ==
    LET cost == AsI8(Most(PlaneChr[row.type].fuel * dist, 1))
    IN  [row EXCEPT !.mobil = Least(Most(@ - cost, -128), 127)]

BombEff(row) == IF row.effic < PLANE_MIN_EFF THEN 0
                ELSE Most((PlaneChr[row.type].load * row.effic) \div 100, 0)

AirDamage(row, dam) ==
    IF dam <= 0 THEN row ELSE [row EXCEPT !.effic = Damage(@, (100 * dam) \div (dam + 100))]

(* ---- Interception ---------------------------------------------------- *)

(* A flight has a number for each copy of a row in it: a plane's own, and    *)
(* Escort(p) for the copy of a plane in a list of escorts; Of is the plane.  *)
Escort(p) == -2 - p
Of(i) == IF i < 0 THEN -2 - i ELSE i

Interceptors(w, me, at) ==
    {p \in DOMAIN w.plane :
        LET row == w.plane[p]
        IN  /\ row.own \notin {0, me} /\ Capable(row)
            /\ "FIGHTER" \in PlaneChr[row.type].flags
            /\ MapDist(row.at, at) <= row.range}

AirRounds == 3
Att(row) == (PlaneChr[row.type].att * row.effic) \div 100
Def(row) == (PlaneChr[row.type].def * row.effic) \div 100

(* One round: shots[p] is the plane that p hits, or None.  All shots are    *)
(* fired before any damage is taken, and a plane with no strength hits      *)
(* nothing.                                                                 *)
MayHit(fleet, attackers, p, q) ==
    /\ fleet[p].effic >= PLANE_MIN_EFF /\ fleet[q].effic >= PLANE_MIN_EFF
    /\ (p \in attackers) # (q \in attackers)
    /\ (IF p \in attackers THEN Att(fleet[p]) ELSE Def(fleet[p])) > 0
Round(fleet, attackers, shots, luck) ==
    LET hits(q) == {p \in DOMAIN fleet : shots[p] = q /\ MayHit(fleet, attackers, p, q)}
    IN  [q \in DOMAIN fleet |->
            AirDamage(fleet[q], Cardinality(hits(q)) * Draw(20, 50, luck))]

(* What three rounds leave of the planes: those shot down are missing, and  *)
(* their rows are not put.                                                  *)
Dogfight(fleet, attackers, shots, luck) ==
    LET after(f, r) == Round(f, attackers, shots[r], luck)
    IN  after(after(after(fleet, 1), 2), AirRounds)
Up(fleet, planes) == {p \in planes : fleet[p].effic > 0}

\* The shots of a fight: every plane may hit any of the other side, or none.
Shots(attackers, defenders) ==
    [1..AirRounds -> {s \in [attackers \cup defenders -> attackers \cup defenders \cup {None}] :
                        \A p \in DOMAIN s : s[p] # None => (p \in attackers) # (s[p] \in attackers)}]

(* The interceptors are put as the fight has left them; result: the flight. *)
Intercepted(flight, at, me, shots, luck) ==
    LET rising == Interceptors(World, me, at)
        aloft == [i \in flight \cup rising |-> plane[Of(i)]]
        fleet == Dogfight(aloft, flight, shots, luck)
    IN  [w |-> PutPlanes(World, [p \in Up(fleet, rising) |-> fleet[p]]),
         flight |-> IF rising = {} THEN aloft ELSE fleet,
         left |-> IF rising = {} THEN flight ELSE Up(fleet, flight)]

(* ---- Landing --------------------------------------------------------- *)

\* SHIP_AIROPS_EFF
Carriers(me, at) == {s \in DOMAIN ship : /\ ship[s].at = at
                                         /\ ship[s].own = me \/ IsDeity(me)
                                         /\ ship[s].effic >= 50
                                         /\ "CARRIER" \in ShipChr[ship[s].type].flags}
Runway(at) == sect[at].type \in {"airfield", "harbor"}

(* One plane comes down: on the first carrier with room, or on the runway   *)
(* if there is one, or it crashes.  st.manifest is what the command has     *)
(* counted aboard each carrier.                                             *)
Land(st, p, row, at, runway) ==
    LET room == {s \in DOMAIN st.manifest :
                    ShipCanCarry(st.w, ship[s].type, st.manifest[s], p)}
    IN  IF room # {}
        THEN LET s == Min(room)
             IN  [w |-> PutPlane(st.w, p, [row EXCEPT !.ship = s, !.at = at]),
                  manifest |-> [st.manifest EXCEPT ![s] = Append(@, p)]]
        ELSE IF runway
        THEN [st EXCEPT !.w = PutPlane(@, p, [row EXCEPT !.at = at])]
        ELSE [st EXCEPT !.w = PutPlane(@, p, [row EXCEPT !.effic = 0])]

Landings(w, flight, rows_, at, me, runway) ==
    FoldLeft(LAMBDA st, i : Land(st, Of(i), rows_[i], at, runway),
             [w |-> w, manifest |-> [s \in Carriers(me, at) |-> Ascending(PlanesOn(w, s))]], flight)
AllLand(w, flight, rows_, at, me, runway) == Landings(w, flight, rows_, at, me, runway).w

(* ---- fly ------------------------------------------------------------- *)

Mine(me, spec) == {p \in spec : plane[p].own = me}

Fly(me, spec, at) ==
    LET runway == Runway(at) /\ (sect[at].own = me \/ IsDeity(me))
        flying == {p \in Mine(me, spec) :
                    /\ Capable(plane[p])
                    /\ MapDist(plane[p].at, at) <= PlaneChr[plane[p].type].range}
        aloft == [p \in flying |-> UseFuel(plane[p], MapDist(plane[p].at, at))]
    IN  /\ runway \/ Carriers(me, at) # {}
        /\ Mine(me, spec) # {}
        /\ Done(AllLand(World, Ascending(flying), aloft, at, me, runway), FALSE)

(* ---- bomb ------------------------------------------------------------ *)

Bombers(me, spec) == {p \in Mine(me, spec) : Capable(plane[p])}

(* factor: a ship is hit twice as hard as a sector.                         *)
BombDamage(fight, luck, factor) ==
    LET load == SumFunction([p \in fight.left |-> BombEff(fight.flight[p])])
    IN  Least(Most((load * (50 + luck) * factor) \div 100, 1), 100)

Home(w, fight) == PutPlanes(w, [p \in fight.left |-> UseFuel(fight.flight[p], 1)])

BombSect(me, spec, at, shots, luck) ==
    LET fight == Intercepted(Bombers(me, spec), at, me, shots, luck)
    IN  /\ sect[at].type # "sea"
        /\ Done(IF fight.left = {} THEN fight.w
                ELSE Home(PutSect(fight.w, at, Shelled(sect[at], BombDamage(fight, luck, 1))),
                          fight), FALSE)

BombShip(me, spec, t, shots, luck) ==
    LET fight == Intercepted(Bombers(me, spec), ship[t].at, me, shots, luck)
    IN  /\ ship[t].own # 0
        /\ "SUBMARINE" \in ShipChr[ship[t].type].flags =>
              \E p \in Bombers(me, spec) : "ASW" \in PlaneChr[plane[p].type].flags
        /\ Done(IF fight.left = {} THEN fight.w
                ELSE Home(PutShip(fight.w, t, ShipDamage(ship[t], BombDamage(fight, luck, 2))),
                          fight), FALSE)

(* ---- launch ---------------------------------------------------------- *)

InOrbit(row) == /\ "SATELLITE" \in PlaneChr[row.type].flags
                /\ "MISSILE" \notin PlaneChr[row.type].flags
                /\ row.launched

\* A missile is spent whatever it hits; the command keeps the sector.
Strike(st, p) ==
    IF MapDist(plane[p].at, st.at) <= PlaneChr[plane[p].type].range
    THEN [st EXCEPT !.w = PutPlane(@, p, [plane[p] EXCEPT !.effic = 0]),
                    !.target = Shelled(@, Least(2 * plane[p].effic, 100)), !.hit = TRUE]
    ELSE st

(* A satellite explodes, or gets to its place (0) or a sector beside it.     *)
NotAsked == -2
Fails == -1
Orbits == {NotAsked, Fails} \cup 0..6
Orbit(st, p, orbit) ==
    LET row == plane[p]
        dist == MapDist(row.at, st.at)
    IN  IF InOrbit(row) \/ row.effic < 40 \/ dist > row.range \/ orbit = NotAsked THEN st
        ELSE IF orbit = Fails THEN [st EXCEPT !.w = PutPlane(@, p, [row EXCEPT !.effic = 0])]
        ELSE [st EXCEPT !.w = PutPlane(@, p,
                [row EXCEPT !.at = IF orbit = 0 THEN st.at ELSE Step(st.at, orbit),
                            !.launched = TRUE, !.mobil = Most(@ - dist, 0), !.ship = None])]

LaunchOne(st, p, orbit) ==
    IF "MISSILE" \in PlaneChr[plane[p].type].flags THEN Strike(st, p)
    ELSE IF "SATELLITE" \in PlaneChr[plane[p].type].flags THEN Orbit(st, p, orbit) ELSE st
Launched(candidates, at, orbit) ==
    FoldLeft(LAMBDA st, p : LaunchOne(st, p, orbit),
             [w |-> World, target |-> sect[at], at |-> at, hit |-> FALSE], Ascending(candidates))

\* Without the argument about the orbit no satellite starts.
Launch(me, spec, at, orbit) ==
    LET candidates == {p \in Mine(me, spec) : plane[p].effic > 0}
        st == Launched(candidates, at, orbit)
    IN  /\ candidates # {}
        /\ Done(IF st.hit THEN PutSect(st.w, at, st.target) ELSE st.w, FALSE)

(* ---- recon, sweep ---------------------------------------------------- *)

Fighters(spec) == {p \in spec : {"FIGHTER", "ESCORT"} \cap PlaneChr[plane[p].type].flags # {}}

(* Mines go at sea sectors, one for each sweeper with luck (lucky).         *)
Swept(row, sweepers) ==
    IF row.type = "sea" /\ row.mines > 0
    THEN [row EXCEPT !.mines = Most(@ - Cardinality(sweepers), 0)] ELSE row

SweptAll(w, visited, sweepers) ==
    FoldLeft(LAMBDA v, s : PutSect(v, s, Swept(v.sect[s], sweepers)), w, visited)

Gathered(me, spec, from) == {p \in Mine(me, spec) : plane[p].at = from /\ Capable(plane[p])}
ReconFlight(me, spies, escorts, from) ==
    Gathered(me, spies, from) \cup {Escort(p) : p \in Gathered(me, Fighters(escorts), from)}

(* A plane in both lists flies, fights and lands twice, and is as it lands   *)
(* last.  A flight that finds no place to land is not put: the planes are    *)
(* where they were, fuel and damage and all; the interceptors are put.       *)
Recon(me, spies, escorts, from, route, lucky, shots, luck) ==
    LET flight == ReconFlight(me, spies, escorts, from)
        sweepers == {p \in Gathered(me, spies, from) \cap lucky :
                        "SWEEP" \in PlaneChr[plane[p].type].flags}
        visited == [k \in 1..Len(route) + 1 |-> Walk(from, SubSeq(route, 1, k - 1))]
        to == visited[Len(route) + 1]
        fight == Intercepted(flight, to, me, shots, luck)
        swept == SweptAll(fight.w, visited, sweepers)
        runway == Runway(to) /\ sect[to].own = me
        order == Ascending(fight.left \cap Nat) \o Reverse(Ascending(fight.left \ Nat))
        aloft == [i \in fight.left |-> UseFuel(fight.flight[i], Most(Len(route), 1))]
    IN  /\ flight # {}
        /\ Done(IF runway \/ Carriers(me, to) # {}
                THEN AllLand(swept, order, aloft, to, me, runway) ELSE swept, FALSE)
=============================================================================
