----------------------------- MODULE MCEconomy -----------------------------
(* Two nations, a coast and a front for TLC: one nation has a harbor where  *)
(* a ship and a land unit share workers and materials, a mine or a bank,    *)
(* and a ship at sea; the other an enlistment center and a conquered       *)
(* airfield.                                                               *)
EXTENDS Economy

AllItems == {"civil", "milit", "uw", "food", "bar", "lcm", "hcm", "oil", "dust"}
AllDeposits == {"fertil", "oil", "gold"}
AllTypes == {"sea", "harbor", "goldmine", "enlist", "airfield", "oilfield", "agri", "bank"}
AllProducts == {"dust", "oil", "food", "bars"}

Land == [water |-> FALSE, sanct |-> FALSE, deity |-> FALSE, enlist |-> FALSE, bank |-> FALSE,
         yard |-> {}, hq |-> FALSE, maxpop |-> 30, maint |-> 0, bwork |-> 100, cost |-> 100,
         product |-> "none", peff |-> 0]
TypeTable ==
    [sea |-> [Land EXCEPT !.water = TRUE, !.deity = TRUE, !.maxpop = 0, !.cost = 0],
     harbor |-> [Land EXCEPT !.yard = {"ship"}, !.maint = 6000],
     goldmine |-> [Land EXCEPT !.product = "dust", !.peff = 100],
     enlist |-> [Land EXCEPT !.enlist = TRUE],
     airfield |-> [Land EXCEPT !.yard = {"plane"}],
     oilfield |-> [Land EXCEPT !.product = "oil", !.peff = 100],
     agri |-> [Land EXCEPT !.product = "food", !.peff = 900],
     bank |-> [Land EXCEPT !.bank = TRUE, !.product = "bars", !.peff = 100]]

None == [i \in AllItems |-> 0]
No == [item |-> "dust", amount |-> 0]
Raw == [inputs |-> <<No, No, No>>, output |-> "level", bwork |-> 1, cost |-> 0, resource |-> "none",
        nrdep |-> 0, needs |-> "none", min |-> 0, lag |-> 0]
ProductTable ==
    [dust |-> [Raw EXCEPT !.output = "dust", !.resource = "gold", !.nrdep = 20],
     oil |-> [Raw EXCEPT !.output = "oil", !.resource = "oil", !.nrdep = 10, !.needs = "tech",
                         !.lag = 1],
     food |-> [Raw EXCEPT !.output = "food", !.resource = "fertil", !.needs = "tech", !.lag = 1],
     bars |-> [Raw EXCEPT !.inputs[1] = [item |-> "dust", amount |-> 5], !.output = "bar",
                         !.bwork = 2, !.cost = 10]]

Room == [None EXCEPT !["oil"] = 1, !["food"] = 2]
Unbuilt == [bwork |-> 60, lcm |-> 6, hcm |-> 3, cost |-> 600, drills |-> FALSE, fishes |-> FALSE,
            room |-> None]
KindTable == <<"ship", "ship", "land", "plane">>
UnitTable == <<[Unbuilt EXCEPT !.drills = TRUE, !.fishes = TRUE, !.room = Room],
               [Unbuilt EXCEPT !.lcm = 20, !.hcm = 0],
               [Unbuilt EXCEPT !.bwork = 50, !.lcm = 0, !.hcm = 15],
               [Unbuilt EXCEPT !.bwork = 100, !.hcm = 0]>>
Growing == [ship |-> 100, plane |-> 100, land |-> 100]
MilRate == -500
ReserveRate == -50
AllLevels == {[n \in Nations |-> [l \in Levels |-> 1]]}

Place(own, type, effic, avail) ==
    [own |-> own, oldOwn |-> own, type |-> type, newType |-> type, effic |-> effic,
     avail |-> avail, work |-> 100, loyal |-> 0, off |-> FALSE, items |-> None,
     deposit |-> [d \in AllDeposits |-> 5]]
Map(avail, food, industry) ==
    <<Place(0, "sea", 0, 0),
      [Place(1, "harbor", 60, avail) EXCEPT
            !.items = [None EXCEPT !["civil"] = 20, !["food"] = food, !["lcm"] = 4, !["hcm"] = 2]],
      [Place(1, industry, 70, 2) EXCEPT !.off = food = 0 /\ industry = "bank",
            !.items = [None EXCEPT !["civil"] = 7, !["uw"] = 3, !["food"] = 1,
                                   !["dust"] = 8, !["bar"] = 2]],
      [Place(2, "enlist", 100, 0) EXCEPT
            !.items = [None EXCEPT !["civil"] = 9, !["milit"] = 1, !["food"] = 1]],
      [Place(2, "airfield", 90, 7) EXCEPT !.oldOwn = 1, !.loyal = 1,
            !.items = [None EXCEPT !["civil"] = 1, !["lcm"] = 1, !["hcm"] = 1]]>>
Fleet == [own |-> 1, at |-> 1, effic |-> 100, off |-> FALSE,
          items |-> [None EXCEPT !["civil"] = 5]]
Forces == <<Fleet, [Fleet EXCEPT !.at = 2, !.effic = 20],
            [Fleet EXCEPT !.at = 2, !.effic = 40, !.items = None],
            [Fleet EXCEPT !.own = 2, !.at = 5, !.effic = 10, !.items = None]>>
Treasuries(a, b) ==
    <<[money |-> a, reserve |-> 50, level |-> [l \in Levels |-> 1]],
      [money |-> b, reserve |-> 0, level |-> [l \in Levels |-> 0]]>>
\* Hungry or fed; about to run out of money, rich, in debt, or switched off.
Beginnings ==
    {[sect |-> Map(20, b[1], b[2]), unit |-> Forces, nat |-> Treasuries(b[3], b[4])] :
        b \in {<<0, "goldmine", 95, 20>>, <<1, "bank", 4000, 20>>,
               <<0, "goldmine", -10, 2>>, <<0, "bank", 300, 20>>}}
=============================================================================
