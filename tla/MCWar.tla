-------------------------------- MODULE MCWar --------------------------------
(* A world of six sectors for TLC, with a scene for each kind of command:   *)
(* a port, a sea battle off a fort, a flight and its interceptor, a landing, *)
(* a rocket site, a bridge.                                                 *)
EXTENDS War

AllItems == Special
OneTech == [n \in Nations |-> 100]
Stance == [n \in Nations |-> [m \in Nations |-> CASE n = 1 /\ m = 2 -> AtWar
                                                  [] n = 2 /\ m = 1 -> Hostile
                                                  [] OTHER -> Neutral]]

Ground == [mob0 |-> 4, mob1 |-> 2, water |-> FALSE, deity |-> FALSE]
SectTable ==
    [sea |-> [mob0 |-> -10, mob1 |-> -10, water |-> TRUE, deity |-> TRUE],
     mountain |-> [mob0 |-> 24, mob1 |-> 12, water |-> FALSE, deity |-> TRUE],
     plains |-> [Ground EXCEPT !.mob1 = 4],
     harbor |-> Ground, airfield |-> Ground, fortress |-> Ground, span |-> Ground,
     tower |-> Ground] @@ ("bridge head" :> Ground)

Hull == [lcm |-> 30, hcm |-> 30, bwork |-> 100, armor |-> 45, frnge |-> 6, glim |-> 3,
         nchoppers |-> 0, nxlight |-> 0, nplanes |-> 0, flags |-> {},
         cap |-> [i \in AllItems |-> CASE i = "mil" -> 3 [] i = "shell" -> 4 [] i = "gun" -> 4
                                       [] OTHER -> 0]]
ShipTable ==
    [destroyer |-> Hull,
     sub |-> [Hull EXCEPT !.armor = 25, !.frnge = 3, !.flags = {"SUBMARINE", "TORP"}],
     carrier |-> [Hull EXCEPT !.lcm = 50, !.hcm = 60, !.armor = 60, !.frnge = 2, !.glim = 2,
                              !.nchoppers = 1, !.nxlight = 1, !.nplanes = 1, !.flags = {"CARRIER"}],
     landing |-> [Hull EXCEPT !.armor = 20, !.frnge = 0, !.glim = 0, !.flags = {"LAND"},
                              !.nxlight = 1, !.cap["mil"] = 4, !.cap["civ"] = 2]]

Wing == [lcm |-> 8, hcm |-> 2, bwork |-> 20, att |-> 4, def |-> 4, load |-> 1, range |-> 8,
         fuel |-> 1, flags |-> {"LIGHT", "FIGHTER", "TACTICAL"}]
PlaneTable ==
    [fighter |-> Wing,
     naval |-> [Wing EXCEPT !.att = 1, !.load = 3, !.range = 28, !.fuel = 2,
                            !.flags = {"LIGHT", "ASW", "SWEEP"}],
     helo |-> [Wing EXCEPT !.att = 0, !.def = 2, !.flags = {"HELO", "ASW", "SWEEP"}],
     missile |-> [Wing EXCEPT !.att = 0, !.def = 0, !.range = 1, !.fuel = 0,
                              !.flags = {"MISSILE", "LIGHT"}],
     landsat |-> [Wing EXCEPT !.att = 0, !.def = 0, !.range = 41, !.fuel = 9,
                              !.flags = {"SATELLITE"}]]

LandTable ==
    [infantry |-> [lcm |-> 10, hcm |-> 5, bwork |-> 40, att |-> 10, def |-> 15, dam |-> 0,
                   ammo |-> 0, frg |-> 0, flags |-> {}],
     artillery |-> [lcm |-> 20, hcm |-> 10, bwork |-> 60, att |-> 1, def |-> 4, dam |-> 5,
                    ammo |-> 2, frg |-> 8, flags |-> {}]]

Hold(mil, shell, gun) == [i \in AllItems |-> CASE i = "mil" -> mil [] i = "shell" -> shell
                                                [] i = "gun" -> gun [] OTHER -> 0]
Sector(own, type, effic, stock) ==
    [own |-> own, old_own |-> own, type |-> type, effic |-> effic, mobil |-> 1, avail |-> 25,
     coastal |-> TRUE, items |-> stock, loyal |-> 0, che |-> 0, che_target |-> 0, mines |-> 0]
Sea == [Sector(0, "sea", 0, Hold(0, 0, 0)) EXCEPT !.mines = 1]
Coast ==
    (<<0, 0>> :> [Sector(1, "harbor", 60, Hold(3, 3, 1)) EXCEPT !.items["civ"] = 4, !.items["lcm"] = 9,
                                                                 !.items["hcm"] = 9])
    @@ (<<2, 0>> :> [Sector(1, "airfield", 60, Hold(1, 0, 0)) EXCEPT !.items["lcm"] = 2,
                                                                      !.items["hcm"] = 1])
    @@ (<<4, 0>> :> [Sector(2, "fortress", 60, Hold(6, 2, 1)) EXCEPT !.items["civ"] = 5])
    @@ (<<1, 1>> :> Sea) @@ (<<3, 1>> :> Sea) @@ (<<5, 1>> :> Sector(0, "plains", 0, Hold(0, 0, 0)))
Crossing ==
    [s \in Sectors |->
        CASE s = <<0, 0>> -> [Sector(1, "bridge head", 60, Hold(0, 0, 0)) EXCEPT !.items["hcm"] = 100]
          [] s = <<2, 0>> -> [Sector(1, "span", 60, Hold(0, 0, 0)) EXCEPT !.items["hcm"] = 300]
          [] OTHER -> Sea]

Ship(own, at, type, stock) == [own |-> own, at |-> at, type |-> type, effic |-> 80, mobil |-> 2,
                               tech |-> 100, items |-> stock]
Plane(own, at, type) == [own |-> own, at |-> at, type |-> type, effic |-> 80, mobil |-> 3,
                         range |-> 8, ship |-> None, launched |-> FALSE]
Unit(own, at, type, stock) == [own |-> own, at |-> at, type |-> type, effic |-> 60, mobil |-> 1,
                               tech |-> 100, ship |-> None, items |-> stock]
Treasury == [n \in Nations |-> [money |-> 17, reserve |-> 0]]
Peace == [ship |-> <<>>, plane |-> <<>>, land |-> <<>>, sect |-> Coast, nat |-> Treasury]

Port == [Peace EXCEPT
    !.ship = <<Ship(1, <<0, 0>>, "carrier", Hold(1, 3, 1)), Ship(1, <<0, 0>>, "landing", Hold(1, 2, 0))>>,
    !.plane = <<Plane(1, <<0, 0>>, "helo"), [Plane(1, <<0, 0>>, "helo") EXCEPT !.ship = 1],
                [Plane(1, <<0, 0>>, "fighter") EXCEPT !.ship = 1]>>]
Battle == [Peace EXCEPT
    !.ship = <<Ship(1, <<1, 1>>, "destroyer", Hold(2, 2, 1)), Ship(2, <<1, 1>>, "sub", Hold(1, 4, 1))>>,
    !.land = <<Unit(2, <<4, 0>>, "artillery", Hold(1, 1, 1))>>]
Flight == [Peace EXCEPT
    !.ship = <<Ship(1, <<1, 1>>, "carrier", Hold(1, 1, 1)), Ship(2, <<3, 1>>, "sub", Hold(1, 3, 1))>>,
    !.plane = <<Plane(1, <<2, 0>>, "naval"), [Plane(2, <<4, 0>>, "fighter") EXCEPT !.range = 1]>>]
Landing == [Peace EXCEPT
    !.ship = <<[Ship(1, <<3, 1>>, "landing", Hold(4, 0, 0)) EXCEPT !.items["civ"] = 2]>>,
    !.land = <<Unit(1, <<2, 0>>, "infantry", Hold(0, 0, 0)), Unit(2, <<4, 0>>, "infantry", Hold(0, 0, 0))>>]
Rockets == [Peace EXCEPT
    !.plane = <<Plane(1, <<2, 0>>, "missile"), Plane(1, <<2, 0>>, "landsat")>>]
Bridges == [Peace EXCEPT !.sect = Crossing, !.nat[1].money = 4000]

Scenes == {Port, Battle, Flight, Landing, Rockets, Bridges}
SomeAmounts == {-1, 3}
SomeWays == {<<2>>, <<3, 2>>}
=============================================================================
