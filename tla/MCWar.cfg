SPECIFICATION Spec
CONSTANTS
    WorldX = 6
    WorldY = 2
    Nations = {0, 1, 2}
    Players = {1, 2}
    Tech <- OneTech
    Relation <- Stance
    Items <- AllItems
    SectChr <- SectTable
    ShipChr <- ShipTable
    PlaneChr <- PlaneTable
    LandChr <- LandTable
    Luck = {0, 99}
    MaxCommands = 2
    MaxRoute = 2
    MaxMarch = 2
    MaxMove = 2
    Starts <- Scenes
    Goods = {"mil", "shell"}
    Amounts <- SomeAmounts
    Types = {"airfield", "bridge head"}
    Ways <- SomeWays
    Stances = {0, 3}
INVARIANTS
    RowsInRange
    NothingOverloaded
    NoneAdrift
PROPERTIES
    NothingFromNothing
    NoFreeShot
