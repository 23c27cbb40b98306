CONSTANTS
    Players = {p1, p2}
    NoLot = NoLot
    MaxUid = 2
    Amounts = {1, 3}
    Prices = {1, 3}
    MaxItem = 3
    StartMoney = 3
    StartStock = 2
    MaxSales = 2
    MaxDays = 1
    MaxFaults = 2
SPECIFICATION Spec
SYMMETRY PlayerSymmetry
INVARIANTS
    WithinBounds
    Accounted
PROPERTIES
    BoughtLotFinal
