------------------------------- MODULE World -------------------------------
(***************************************************************************)
(* The world generator, empire-world: fairland.rs grows a map of           *)
(* continents and islands on a torus of hexes, main.rs retries, and stores *)
(* the sectors and the first two nations.                                  *)
(*                                                                         *)
(* What is rolled is any of the possible outcomes.  The bit sets of the    *)
(* code are sets of directions; positions of odd x + y, which are no       *)
(* sectors, only matter for the lowest elevation (odd).                    *)
(***************************************************************************)
EXTENDS Integers, Sequences, FiniteSets, FiniteSetsExt, SequencesExt

CONSTANTS WorldX, WorldY,
          Arguments,         \* command lines: NC SC NI IS SP PM DI ID, and -i
          NumTries,          \* NUMTRIES
          MaxRaises          \* bound on the iterations of elevate_prep

ASSUME WorldAssumption ==
    /\ WorldX \in Nat \ {0} /\ WorldX % 2 = 0
    /\ WorldY \in Nat \ {0} /\ WorldY % 2 = 0
    /\ WorldX >= 6 /\ WorldY >= 4      \* six different neighbours
    /\ Arguments \subseteq [nc : Nat, sc : Nat, ni : Nat, is : Nat, sp : Int, pm : Int,
                            di : Int, id : Int, distinct : BOOLEAN]
    /\ \A a \in Arguments : 2 * a.nc <= WorldX * WorldY   \* no room: beyond, it may well panic
    /\ NumTries \in Nat \ {0} /\ MaxRaises \in Nat

VARIABLES
    args, try,             \* the command line, the number of the attempt
    phase,
    cap, turns, mc,        \* drift: capitals, turns, recent distances
    own, adjLand, xzone,   \* of each sector: -1 is sea; directions of land; -1 free, -2 contested
    sect,                  \* the sectors of each island in the order they grew
    closest, distance, bfs,\* spheres of influence, or distance to the coast
    isiz, group, turn, secs, done, carry,   \* the loops that grow
    elev, odd, raises,     \* elevations, the least of no sector, iterations so far
    stored, nations        \* the rows written: sectors, << >> if there are none, and countries

drifting == <<cap, turns, mc>>
land == <<own, adjLand, xzone, sect>>
search == <<closest, distance, bfs>>
loops == <<isiz, group, turn, secs, done, carry>>
heights == <<elev, odd, raises>>
vars == <<args, try, phase, drifting, land, search, loops, heights, stored, nations>>

Sea == -1
Contested == -2     \* of xzone; -1 of closest
Far == WorldX * WorldY    \* u32::MAX and i32::MAX, as distances
LandMin == 1
PlatMin == 36
HighMin == 98

(* ---- The map --------------------------------------------------------- *)

Sectors == {s \in (0..WorldX - 1) \X (0..WorldY - 1) : (s[1] + s[2]) % 2 = 0}
Directions == 1..6
DirOff == <<<<1, -1>>, <<2, 0>>, <<1, 1>>, <<-1, 1>>, <<-2, 0>>, <<-1, -1>>>>
DirBack(d) == IF d <= 3 THEN d + 3 ELSE d - 3
Plus(s, dx, dy) == <<(s[1] + dx) % WorldX, (s[2] + dy) % WorldY>>
Step(s, d) == Plus(s, DirOff[d][1], DirOff[d][2])
Around(s) == {Step(s, d) : d \in Directions}

Apart(i, j, size) == LET d == IF i > j THEN i - j ELSE j - i
                     IN  IF d > size \div 2 THEN size - d ELSE d
MapDist(s, t) == LET dx == Apart(s[1], t[1], WorldX)
                     dy == Apart(s[2], t[2], WorldY)
                 IN  IF dx > dy THEN (dx - dy) \div 2 + dy ELSE dy

\* HexagonIter: from the leftmost corner, n steps in each direction.
Steps(n) == Directions \X (0..n - 1)
At(s, n, w) == LET from == DirOff[((w[1] + 3) % 6) + 1]
                   to == DirOff[w[1]]
               IN  Plus(s, n * from[1] + w[2] * to[1], n * from[2] + w[2] * to[2])
Ring(s, n) == {At(s, n, w) : w \in Steps(n)}
Before(s, t) == s[2] < t[2] \/ (s[2] = t[2] /\ s[1] < t[1])    \* order of the offsets
OffsetOrder == {p \in Sectors \X Sectors : Before(p[1], p[2])}
NumberOrder == {p \in Directions \X Directions : p[1] < p[2]}

\* The elements of S in the order that the pairs tell.
InOrder(S, pairs) ==
    [i \in 1..Cardinality(S) |->
        CHOOSE s \in S : Cardinality({t \in S : <<t, s>> \in pairs}) = i - 1]

Continents == 0..args.nc - 1
Islands == 0..args.nc + args.ni - 1
IsCoastal(s) == adjLand[s] # Directions
SectorsOf(c) == ToSet(sect[c])

(* ---- Arguments and attempts ------------------------------------------ *)

ValidateArgs(a) ==
    LET far == MapDist(<<0, 0>>, <<WorldX \div 2, WorldY \div 2>>)
    IN  /\ a.nc >= 1 /\ a.sc >= 2 /\ a.ni % a.nc = 0 /\ a.is >= 1
        /\ a.sp \in 0..100 /\ a.pm \in 0..100
        /\ a.di \in 0..far /\ a.id \in 0..far

\* Fairland::new, and the capitals as drift puts them.
Blank(a) ==
    /\ cap' = [i \in 0..a.nc - 1 |->
                LET y == (2 * i) \div WorldX IN <<((2 * i) % WorldX) + (y % 2), y>>]
    /\ turns' = 0 /\ mc' = [k \in 0..3 |-> k]
    /\ own' = [s \in Sectors |-> Sea]
    /\ adjLand' = [s \in Sectors |-> {}]
    /\ xzone' = [s \in Sectors |-> -1]
    /\ sect' = [c \in 0..a.nc + a.ni - 1 |-> << >>]
    /\ closest' = [s \in Sectors |-> -1]
    /\ distance' = [s \in Sectors |-> Far]
    /\ bfs' = << >>
    /\ isiz' = << >> /\ group' = 0 /\ turn' = 0 /\ secs' = 0 /\ done' = TRUE /\ carry' = 0
    /\ elev' = [s \in Sectors |-> 0] /\ odd' = 0 /\ raises' = 0

Init ==
    /\ args \in Arguments /\ try = 0 /\ phase = "started"
    /\ cap = << >> /\ turns = 0 /\ mc = << >>
    /\ own = << >> /\ adjLand = << >> /\ xzone = << >> /\ sect = << >>
    /\ closest = << >> /\ distance = << >> /\ bfs = << >>
    /\ isiz = << >> /\ group = 0 /\ turn = 0 /\ secs = 0 /\ done = TRUE /\ carry = 0
    /\ elev = << >> /\ odd = 0 /\ raises = 0
    /\ stored = << >> /\ nations = {}

Refuse == /\ phase = "started" /\ ~ValidateArgs(args)
          /\ phase' = "refused"
          /\ UNCHANGED <<args, try, drifting, land, search, loops, heights, stored, nations>>

Start == /\ phase = "started" /\ ValidateArgs(args)
         /\ phase' = "drift" /\ Blank(args) /\ nations' = nations \cup {0}   \* ensure_deity
         /\ UNCHANGED <<args, try, stored>>

\* The next attempt has a world of its own, and another seed.
Retry == /\ phase = "failed"
         /\ IF try + 1 < NumTries
            THEN phase' = "drift" /\ try' = try + 1 /\ Blank(args)
            ELSE phase' = "refused" /\ UNCHANGED <<try, drifting, land, search, loops, heights>>
         /\ UNCHANGED <<args, stored, nations>>

(* ---- Drift ----------------------------------------------------------- *)

Iso(j, s) == LET others == {MapDist(cap[i], s) : i \in Continents \ {j}}
             IN  IF others = {} THEN Far ELSE Min(others)

\* Stable for STABLE_CYCLE turns, or time is up; turns and mc are local to drift.
Settle == /\ phase = "drift" /\ turn = 0
          /\ LET d == Max({Iso(i, cap[i]) : i \in Continents})
                 late == turns > (WorldX + WorldY) \div 2
                 stab == late /\ \A k \in 0..3 : mc[k] = d
             IN  IF stab \/ turns = (WorldX + WorldY) * 2
                 THEN /\ phase' = "continents" /\ turns' = 0 /\ mc' = << >>
                      /\ UNCHANGED turn
                 ELSE /\ mc' = IF late THEN [mc EXCEPT ![turns % 4] = d] ELSE mc
                      /\ turn' = 1
                      /\ UNCHANGED <<phase, turns>>
          /\ UNCHANGED <<args, try, cap, land, search, isiz, group, secs, done, carry,
                         heights, stored, nations>>

\* Faulty: takes the first direction without comparing distances.
DriftCapitalAnyway ==
    /\ phase = "drift" /\ turn \in 1..args.nc
    /\ \E start \in Directions \ {4} : cap' = [cap EXCEPT ![turn - 1] = Step(cap[turn - 1], start)]
    /\ IF turn = args.nc THEN turn' = 0 /\ turns' = turns + 1
                         ELSE turn' = turn + 1 /\ UNCHANGED turns
    /\ UNCHANGED <<args, try, phase, mc, land, search, isiz, group, secs, done, carry,
                   heights, stored, nations>>

\* The first direction, from a rolled one on, that takes capital j no nearer to another.
DriftCapital ==
    /\ phase = "drift" /\ turn \in 1..args.nc
    /\ \E start \in Directions \ {4} :
         LET j == turn - 1
             To(k) == Step(cap[j], ((start + k - 1) % 6) + 1)
             good == {k \in 0..5 : Iso(j, To(k)) >= Iso(j, cap[j])}
         IN  cap' = IF good = {} THEN cap ELSE [cap EXCEPT ![j] = To(Min(good))]
    /\ IF turn = args.nc THEN turn' = 0 /\ turns' = turns + 1
                         ELSE turn' = turn + 1 /\ UNCHANGED turns
    /\ UNCHANGED <<args, try, phase, mc, land, search, isiz, group, secs, done, carry,
                   heights, stored, nations>>

(* ---- Land ------------------------------------------------------------ *)

\* Faulty: whoever comes last has the zone.
ZonedLast(zone, c, s, dist) ==
    [t \in Sectors |-> IF t = s \/ t \in UNION {Ring(s, d) : d \in 1..dist} THEN c ELSE zone[t]]

\* xzone_around_sector
Zoned(zone, c, s, dist) ==
    [t \in Sectors |->
        IF t = s THEN c
        ELSE IF t \notin UNION {Ring(s, d) : d \in 1..dist} THEN zone[t]
        ELSE IF zone[t] \in {-1, c} THEN c ELSE Contested]

\* xzone_init: a zone around every sector of the islands 0..n-1 (that of land is not read).
ZonesAround(n) ==
    LET zones == [t \in Sectors |-> {own[s] : s \in {s \in UNION {SectorsOf(c) : c \in 0..n - 1} :
                                       t = s \/ \E d \in 1..args.id : t \in Ring(s, d)}}]
    IN  [t \in Sectors |-> IF own[t] \in 0..n - 1 THEN own[t]
                           ELSE IF zones[t] = {} THEN -1
                           ELSE IF Cardinality(zones[t]) = 1 THEN Max(zones[t]) ELSE Contested]

CanGrowAt(c, s) ==
    /\ own[s] = Sea
    /\ xzone[s] \in {c, -1}
    /\ c < args.nc \/ closest[s] = c % args.nc

\* adj_land_update
AdjLand(s, isLand) ==
    [t \in Sectors |->
        LET back == {DirBack(d) : d \in {d \in Directions : Step(s, d) = t}}
        IN  IF isLand THEN adjLand[t] \cup back ELSE adjLand[t] \ back]

ZoneDist(c) == IF c < args.nc THEN args.di ELSE IF args.distinct THEN args.id ELSE 0

AddSector(c, s) ==
    /\ xzone' = Zoned(xzone, c, s, ZoneDist(c))
    /\ sect' = [sect EXCEPT ![c] = Append(@, s)]
    /\ own' = [own EXCEPT ![s] = c]
    /\ adjLand' = AdjLand(s, TRUE)

\* grow_one_sector: spikes avoid sectors that land surrounds.
Growable(c) ==
    {t \in UNION {Around(s) : s \in SectorsOf(c)} :
        CanGrowAt(c, t) /\ Cardinality(adjLand[t]) > 0}
Candidates(c, spike) == {t \in Growable(c) : ~spike \/ Cardinality(adjLand[t]) < 6}
Spikes == {spike \in BOOLEAN : IF spike THEN args.sp > 0 ELSE args.sp < 100}

(* ---- Continents ------------------------------------------------------ *)

\* xzone_init(0), then a capital and its twin to the right of it, one continent a step.
PlaceCapital ==
    /\ phase = "continents" /\ secs = 0
    /\ LET c == turn
           first == cap[c]
           second == Plus(first, 2, 0)
       IN  IF ~CanGrowAt(c, first) \/ ~CanGrowAt(c, second)
           THEN phase' = "failed" /\ UNCHANGED <<land, turn, secs>>
           ELSE /\ sect' = [sect EXCEPT ![c] = <<first, second>>]
                /\ own' = [own EXCEPT ![first] = c, ![second] = c]
                /\ xzone' = Zoned(Zoned(xzone, c, first, args.di), c, second, args.di)
                /\ adjLand' = [t \in Sectors |-> adjLand[t]
                                 \cup {d \in Directions : Step(t, d) \in {first, second}}]
                /\ turn' = (c + 1) % args.nc
                /\ secs' = IF c + 1 = args.nc THEN 2 ELSE 0
                /\ UNCHANGED phase
    /\ UNCHANGED <<args, try, drifting, search, isiz, group, done, carry, heights, stored, nations>>

GrowContinent ==
    /\ phase = "continents" /\ secs \in 2..args.sc - 1
    /\ \E spike \in Spikes :
         IF Candidates(turn, spike) = {}
         THEN phase' = "failed" /\ UNCHANGED <<land, turn, secs>>
         ELSE /\ \E t \in Candidates(turn, spike) : AddSector(turn, t)
              /\ turn' = (turn + 1) % args.nc
              /\ secs' = IF turn + 1 = args.nc THEN secs + 1 ELSE secs
              /\ UNCHANGED phase
    /\ UNCHANGED <<args, try, drifting, search, isiz, group, done, carry, heights, stored, nations>>

ContinentsDone ==
    /\ phase = "continents" /\ secs = args.sc /\ turn = 0
    /\ phase' = "sizes"
    /\ UNCHANGED <<args, try, drifting, land, search, loops, heights, stored, nations>>

(* ---- Breadth-first search -------------------------------------------- *)

Coast(cs) == {s \in UNION {SectorsOf(c) : c \in cs} : IsCoastal(s)}
Place(s) == CHOOSE k \in DOMAIN sect[own[s]] : sect[own[s]][k] = s
Sooner(s, t) == own[s] < own[t] \/ (own[s] = own[t] /\ Place(s) < Place(t))

\* bfs_init and bfs_enqueue_island for the first n islands.
SearchFrom(n) ==
    LET coast == Coast(0..n - 1)
    IN  /\ bfs' = InOrder(coast, {p \in coast \X coast : Sooner(p[1], p[2])})
        /\ closest' = [s \in Sectors |-> IF s \in coast THEN own[s] ELSE -1]
        /\ distance' = [s \in Sectors |-> IF s \in coast THEN 0 ELSE Far]

\* The directions in which the search gets nearer from o, and what lies there.
Fresh(o) == {d \in Directions : distance[o] + 1 < distance[Step(o, d)]}
Found(o) == [i \in 1..Cardinality(Fresh(o)) |-> Step(o, InOrder(Fresh(o), NumberOrder)[i])]
FoundAt(o) == {Step(o, d) : d \in Fresh(o)}

\* Faulty: a sector as near to two belongs to the first.
SearchFirstCome ==
    /\ phase \in {"spheres", "borders", "coast"} /\ bfs # << >>
    /\ LET o == Head(bfs)
       IN  /\ bfs' = Tail(bfs) \o Found(o)
           /\ closest' = [t \in Sectors |-> IF t \in FoundAt(o) THEN closest[o] ELSE closest[t]]
           /\ distance' = [t \in Sectors |-> IF t \in FoundAt(o) THEN distance[o] + 1
                                             ELSE distance[t]]
    /\ UNCHANGED <<args, try, phase, drifting, land, loops, heights, stored, nations>>

\* One turn of bfs_run_queue.
Search ==
    /\ phase \in {"spheres", "borders", "coast"} /\ bfs # << >>
    /\ LET o == Head(bfs)
           dist == distance[o] + 1
           Tied(t) == t \in Around(o) /\ distance[t] = dist /\ closest[t] # closest[o]
       IN  /\ bfs' = Tail(bfs) \o Found(o)
           /\ closest' = [t \in Sectors |-> IF t \in FoundAt(o) THEN closest[o]
                                            ELSE IF Tied(t) THEN -1 ELSE closest[t]]
           /\ distance' = [t \in Sectors |-> IF t \in FoundAt(o) THEN dist ELSE distance[t]]
    /\ UNCHANGED <<args, try, phase, drifting, land, loops, heights, stored, nations>>

\* bfs_enqueue_border: the rims of the spheres are as far as islands must be.
Border == {s \in Sectors : /\ distance[s] > args.id + 1 /\ closest[s] # -1
                           /\ \E t \in Around(s) : closest[t] # closest[s]}
SearchFromBorders ==
    /\ phase = "spheres" /\ bfs = << >>
    /\ phase' = "borders"
    /\ bfs' = InOrder(Border, OffsetOrder)
    /\ distance' = [s \in Sectors |-> IF s \in Border THEN args.id + 1 ELSE distance[s]]
    /\ done' = FALSE
    /\ UNCHANGED <<args, try, drifting, land, closest, isiz, group, turn, secs, carry,
                   heights, stored, nations>>

(* ---- Islands --------------------------------------------------------- *)

\* size_islands: n sizes with the average is, in decreasing order.
Sizes(roll) ==
    LET n == args.ni \div args.nc
        size == [i \in 1..n |-> args.is + roll[i] - roll[IF i = 1 THEN n ELSE i - 1]]
        larger == {p \in (1..n) \X (1..n) :
                      size[p[1]] > size[p[2]] \/ (size[p[1]] = size[p[2]] /\ p[1] < p[2])}
    IN  [k \in 1..n |-> size[InOrder(1..n, larger)[k]]]
SizeIslands ==
    /\ phase = "sizes"
    /\ \E roll \in [1..args.ni \div args.nc -> 0..args.is - 1] : isiz' = Sizes(roll)
    /\ IF args.ni = 0 THEN phase' = "coast" /\ SearchFrom(args.nc)
                      ELSE phase' = "spheres" /\ SearchFrom(args.nc)
    /\ secs' = 0 /\ turn' = 0
    /\ UNCHANGED <<args, try, drifting, land, group, done, carry, heights, stored, nations>>

FirstIsland == args.nc + group * args.nc
IslandSize == Min({2 * args.is, carry})

\* done tells whether the zones are still valid: the last group was not cut back.
StartGroup ==
    /\ phase = "borders" /\ bfs = << >>
    /\ IF group = Len(isiz)
       THEN phase' = "coast" /\ SearchFrom(args.nc + args.ni) /\ UNCHANGED <<xzone, done, carry>>
       ELSE /\ phase' = "islands"
            /\ xzone' = IF done THEN xzone ELSE ZonesAround(FirstIsland)
            /\ carry' = carry + isiz[group + 1]
            /\ done' = TRUE
            /\ UNCHANGED search
    /\ UNCHANGED <<args, try, drifting, own, adjLand, sect, isiz, group, turn, secs, heights,
                   stored, nations>>

\* place_island: each place replaces the best so far if the roll is below its
\* weight, and weights may exceed the sum they are rolled against.
Gap(s) == distance[s] - args.id
Places(c) == {s \in Sectors : CanGrowAt(c, s) /\ Gap(s) > 0}
Weight(s) == Gap(s) * Gap(s)
SumUpTo(c, s) == MapThenSumSet(LAMBDA t : Min({Weight(t), (IslandSize + 2) \div 3}),
                               {t \in Places(c) : ~Before(s, t)})
CanBeBest(c, s) == \A t \in Places(c) : Before(s, t) => SumUpTo(c, t) > Weight(t)

PlaceIsland ==
    /\ phase = "islands" /\ secs = 0
    /\ LET c == FirstIsland + turn
       IN  IF Places(c) = {}
           THEN phase' = "failed" /\ UNCHANGED <<land, turn, secs>>
           ELSE /\ \E s \in {s \in Places(c) : CanBeBest(c, s)} : AddSector(c, s)
                /\ turn' = (turn + 1) % args.nc
                /\ secs' = IF turn + 1 = args.nc THEN 1 ELSE 0
                /\ UNCHANGED phase
    /\ UNCHANGED <<args, try, drifting, search, isiz, group, done, carry, heights, stored, nations>>

GrowIsland ==
    /\ phase = "islands" /\ secs >= 1
    /\ turn > 0 \/ (secs < IslandSize /\ done)
    /\ \E spike \in Spikes :
         LET c == FirstIsland + turn
         IN  IF Candidates(c, spike) = {}
             THEN done' = FALSE /\ UNCHANGED land
             ELSE (\E t \in Candidates(c, spike) : AddSector(c, t)) /\ UNCHANGED done
    /\ turn' = (turn + 1) % args.nc
    /\ secs' = IF turn + 1 = args.nc THEN secs + 1 ELSE secs
    /\ UNCHANGED <<args, try, phase, drifting, search, isiz, group, carry, heights, stored, nations>>

\* Faulty: nobody gives anything back.
EndGroupUneven ==
    /\ phase = "islands" /\ turn = 0 /\ secs >= 1 /\ (secs >= IslandSize \/ ~done)
    /\ carry' = carry - (IF done THEN secs ELSE secs - 1)
    /\ phase' = "borders" /\ group' = group + 1 /\ secs' = 0
    /\ UNCHANGED <<args, try, drifting, land, search, isiz, turn, done, heights, stored, nations>>

\* Faulty: what is given back still counts as land of its neighbours.
EndGroupForgetful ==
    /\ phase = "islands" /\ turn = 0 /\ secs >= 1 /\ (secs >= IslandSize \/ ~done)
    /\ LET size == IF done THEN secs ELSE secs - 1
           Cut(c) == c \in FirstIsland..FirstIsland + args.nc - 1 /\ Len(sect[c]) # size
           popped == {Last(sect[c]) : c \in {c \in Islands : Cut(c)}}
       IN  /\ sect' = [c \in Islands |-> IF Cut(c) THEN Front(sect[c]) ELSE sect[c]]
           /\ own' = [s \in Sectors |-> IF s \in popped THEN Sea ELSE own[s]]
           /\ carry' = carry - size
    /\ phase' = "borders" /\ group' = group + 1 /\ secs' = 0
    /\ UNCHANGED <<args, try, drifting, adjLand, xzone, search, isiz, turn, done, heights,
                   stored, nations>>

\* The end of a group: if one could not grow, the others give back their last sector.
EndGroup ==
    /\ phase = "islands" /\ turn = 0 /\ secs >= 1 /\ (secs >= IslandSize \/ ~done)
    /\ LET size == IF done THEN secs ELSE secs - 1
           Cut(c) == c \in FirstIsland..FirstIsland + args.nc - 1 /\ Len(sect[c]) # size
           popped == {Last(sect[c]) : c \in {c \in Islands : Cut(c)}}
       IN  /\ sect' = [c \in Islands |-> IF Cut(c) THEN Front(sect[c]) ELSE sect[c]]
           /\ own' = [s \in Sectors |-> IF s \in popped THEN Sea ELSE own[s]]
           /\ adjLand' = [t \in Sectors |->
                            adjLand[t] \ {d \in Directions : Step(t, d) \in popped}]
           /\ carry' = carry - size
    /\ phase' = "borders" /\ group' = group + 1 /\ secs' = 0
    /\ UNCHANGED <<args, try, drifting, xzone, search, isiz, turn, done, heights, stored, nations>>

(* ---- Elevations ------------------------------------------------------ *)

\* elevate_prep: land is raised and sea is lowered, up to the coast; without a coast,
\* one sector at a time (u32::MAX is -1 as i32).
Radii(s) == IF distance[s] = Far THEN {1}
            ELSE IF own[s] = Sea THEN 1..Max({1, Min({3, distance[s]})})
            ELSE 1..Min({3, distance[s]}) + 1
Raised(s, r) ==
    LET sign == IF own[s] = Sea THEN -1 ELSE 1
        Hits(t, d) == Cardinality({w \in Steps(d) : At(s, d, w) = t})
        Delta(t) == (IF t = s THEN r * r ELSE 0)
                    + SumFunctionOnSet([d \in 1..r - 1 |-> Hits(t, d) * (r * r - d * d)], 1..r - 1)
    IN  [t \in Sectors |-> elev[t] + sign * Delta(t)]
Raise ==
    /\ phase = "coast" /\ bfs = << >> /\ raises < MaxRaises
    /\ \/ (\E s \in Sectors : \E r \in Radii(s) : elev' = Raised(s, r)) /\ UNCHANGED odd
       \/ odd' = odd - 1 /\ UNCHANGED elev
    /\ raises' = raises + 1
    /\ UNCHANGED <<args, try, phase, drifting, land, search, loops, stored, nations>>

\* elevate_land: by rank, from LANDMIN to below HIGHMIN, and on to 127 for mountains.
Plateau(c) == IF c < args.nc THEN 2 ELSE 0
Mountains(size) == (args.pm * size) \div 100
LandHeight(s) ==
    LET c == own[s]
        slopes == {sect[c][k] : k \in Plateau(c) + 1..Len(sect[c])}
        Lower(t) == elev[t] < elev[s] \/ (elev[t] = elev[s] /\ Before(t, s))
        rank == Cardinality({t \in slopes : Lower(t)})
        non_mount == Max({0, Cardinality(slopes) - Mountains(Len(sect[c]))})
        max_nm == Max({1, Mountains(Max({args.sc, args.is * 2}))})
        k == rank - non_mount + 1
    IN  IF s \notin slopes THEN PlatMin
        ELSE IF rank < non_mount
        THEN (3 * non_mount + 2 * rank * (HighMin - LandMin - 1)) \div (2 * non_mount)
        ELSE ((2 * HighMin + 1) * max_nm + 2 * k * (127 - HighMin)) \div (2 * max_nm)

\* elevate_sea: the deepest, which may be no sector, becomes -127.
SeaHeight(e) ==
    LET min == Min({odd} \cup {elev[t] : t \in Sectors})
    IN  IF e < 0 THEN -1 - ((126 * (-e)) \div (-min)) ELSE e

Height(s) == IF own[s] = Sea THEN SeaHeight(elev[s]) ELSE LandHeight(s)

(* ---- Resources and rows ---------------------------------------------- *)

\* Truncating division, as Rust divides integers.
Quotient(a, b) == IF a < 0 THEN -((-a) \div b) ELSE a \div b

IronConf == <<<<-127, 0>>, <<21, 0>>, <<85, 100>>, <<97, 100>>, <<98, 0>>, <<127, 0>>>>
GoldConf == <<<<-127, 0>>, <<35, 0>>, <<97, 80>>, <<98, 80>>, <<127, 85>>>>
FertConf == <<<<-127, 100>>, <<-59, 100>>, <<0, 41>>, <<1, 100>>, <<10, 100>>, <<56, 0>>, <<127, 0>>>>
OilConf == <<<<-127, 100>>, <<-49, 100>>, <<0, 2>>, <<1, 100>>, <<6, 100>>, <<34, 0>>, <<127, 0>>>>
UranConf == <<<<-127, 0>>, <<55, 0>>, <<90, 100>>, <<97, 100>>, <<98, 0>>, <<127, 0>>>>

ElevToResource(e, conf) ==
    LET below == Cardinality({k \in DOMAIN conf : conf[k][1] < e})
        i == Min({Max({below, 1}), Len(conf) - 1})
        v == conf[i][2] + Quotient((e - conf[i][1]) * (conf[i + 1][2] - conf[i][2]),
                                   conf[i + 1][1] - conf[i][1])
    IN  Max({0, Min({100, v})})

ElevToSctType(e) == IF e < LandMin THEN "sea" ELSE IF e < HighMin THEN "wilderness" ELSE "mountain"

BuildSector(s) ==
    LET e == Height(s)
    IN  [type |-> ElevToSctType(e), elev |-> e,
         coastal |-> ElevToSctType(e) # "sea" /\ IsCoastal(s),
         dterr |-> (own[s] + 1) % 256,
         min |-> ElevToResource(e, IronConf), gmin |-> ElevToResource(e, GoldConf),
         fertil |-> ElevToResource(e, FertConf), oil |-> ElevToResource(e, OilConf),
         uran |-> ElevToResource(e, UranConf)]

\* build_sectors, put_many and ensure_visitor.
Write ==
    /\ phase = "coast" /\ bfs = << >> /\ stored = << >>
    /\ stored' = [s \in Sectors |-> BuildSector(s)]
    /\ nations' = nations \cup {(args.nc + 1) % 256}
    /\ phase' = "written"
    /\ UNCHANGED <<args, try, drifting, land, search, loops, heights>>

Next == \/ Refuse \/ Start \/ Retry
        \/ Settle \/ DriftCapital
        \/ PlaceCapital \/ GrowContinent \/ ContinentsDone
        \/ Search \/ SearchFromBorders \/ SizeIslands
        \/ StartGroup \/ PlaceIsland \/ GrowIsland \/ EndGroup
        \/ Raise \/ Write

Spec == Init /\ [][Next]_vars /\ WF_vars(Next)

(* ---- Properties ------------------------------------------------------ *)

IsLand(s) == own[s] # Sea
Growing == {"continents", "islands", "written"}       \* the map has just changed, or is final
Grown == Growing \cup {"sizes", "spheres", "borders", "coast"}

\* The incremental state agrees with the map through growth and cutting back:
\* the bits of adjacent land, the owners and the lists of sectors; and the ring
\* buffer of the search is never full.
TypeOK ==
    /\ phase \in Grown \cup {"started", "refused", "drift", "failed"}
    /\ try \in 0..NumTries - 1
    /\ phase \in Grown => Len(bfs) <= WorldX * WorldY
    /\ phase \in Growing =>
         /\ \A s \in Sectors : adjLand[s] = {d \in Directions : IsLand(Step(s, d))}
         /\ \A s \in Sectors : IsLand(s) => own[s] \in Islands /\ s \in SectorsOf(own[s])
         /\ \A c \in Islands : /\ \A s \in SectorsOf(c) : own[s] = c
                               /\ Cardinality(SectorsOf(c)) = Len(sect[c])
         /\ \A s \in Sectors : distance[s] \in 0..Far /\ closest[s] \in -1..args.nc + args.ni - 1

\* The distances of the command line are kept, however the zones of several
\* islands overlap, are cut back and computed anew (xzone, can_grow_at).
ContinentsApart ==
    phase \in Growing =>
      \A s, t \in Sectors :
        LET a == own[s]
            b == own[t]
        IN  /\ a \in Continents /\ b \in Continents \ {a} => MapDist(s, t) > args.di
            /\ a \in Continents /\ b >= args.nc => MapDist(s, t) > args.id
            /\ a >= args.nc /\ b > a /\ args.distinct => MapDist(s, t) > args.id

\* All continents get the size asked for, the islands of a group are of one
\* size, and none of the sectors promised is lost but those still carried.
EqualShares ==
    /\ phase \in Grown \ {"continents"} => \A c \in Continents : Len(sect[c]) = args.sc
    /\ phase \in {"borders", "coast", "written"} =>
         LET First(i) == args.nc + i * args.nc
         IN  /\ \A i \in 0..group - 1 : \A j \in 0..args.nc - 1 :
                  Len(sect[First(i) + j]) = Len(sect[First(i)]) /\ Len(sect[First(i)]) >= 1
             /\ carry >= 0
             /\ carry = SumFunctionOnSet([i \in 0..group - 1 |-> isiz[i + 1] - Len(sect[First(i)])],
                                         0..group - 1)

\* The search finds for each sector the nearest coast, and the continent it
\* belongs to, or that several are as near (bfs_run_queue).
Nearest(s, cs) == IF Coast(cs) = {} THEN Far ELSE Min({MapDist(s, t) : t \in Coast(cs)})
SpheresExact ==
    /\ phase = "spheres" /\ bfs = << >> =>
         \A s \in Sectors :
           LET near == {c \in Continents : Coast({c}) # {} /\ Nearest(s, {c}) = distance[s]}
           IN  /\ distance[s] = Nearest(s, Continents)
               /\ closest[s] = IF Cardinality(near) = 1 THEN Min(near) ELSE -1
    /\ phase = "coast" /\ bfs = << >> =>
         \A s \in Sectors : distance[s] = Nearest(s, Islands)

\* No sector of an island lies where a continent it does not belong to is nearer
\* than all others.  (Where two are as near, the second search, from the borders,
\* may give the place to a third.)
ShoreDist(s, c) == Min({MapDist(s, t) : t \in SectorsOf(c)})
IslandsNearOwn ==
    phase \in Growing \ {"continents"} =>
      \A s \in Sectors : own[s] >= args.nc =>
        \A c \in Continents \ {own[s] % args.nc} :
          \E b \in Continents \ {c} : ShoreDist(s, b) <= ShoreDist(s, c)

\* The rows written: the coast is where it was grown, no sector of the sea is
\* raised to land by its neighbours (print_map has an arm for "sea sector elevated
\* by prep spillover", which is never taken), no continent has better land than
\* another, and all have the mountains asked for, but none on the two sectors of
\* the capital (elevate_prep, elevate_land, build_sectors): with a high share of
\* mountains fewer than main.rs has announced ("each continent will have {} mountains").
MountainsOf(c) == Cardinality({s \in SectorsOf(c) : stored[s].type = "mountain"})
FairStart ==
    stored # << >> =>
      LET Row(s) == stored[s]
          Share(c) == [k \in 1..Len(sect[c]) |-> [Row(sect[c][k]) EXCEPT !.coastal = FALSE, !.dterr = 0]]
      IN  /\ \A s \in Sectors : Row(s).type = "sea" <=> ~IsLand(s)
          /\ \A s \in Sectors : Row(s).elev \in -127..127
          /\ \A b, c \in Continents : \A row \in ToSet(Share(c)) :
                 Cardinality({k \in DOMAIN Share(c) : Share(c)[k] = row})
                 = Cardinality({k \in DOMAIN Share(b) : Share(b)[k] = row})
          /\ \A c \in Continents : MountainsOf(c) = Min({Mountains(args.sc), args.sc - Plateau(c)})

\* Both: islands keep their distances and belong to the nearest continent.
IslandsPlaced == ContinentsApart /\ IslandsNearOwn

\* Both: nobody gets more land, or better, than another.
FairShares == EqualShares /\ FairStart

\* Drifting never brings the two capitals that are nearest closer together.
NearestCapitals == Min({Iso(i, cap[i]) : i \in Continents})
DriftSpreads == [][phase = "drift" => NearestCapitals' >= NearestCapitals]_vars
=============================================================================
