CONSTANTS
    NNations = 2
    NSectors = 5
    NUnits = 4
    Playing = {1, 2}
    Items <- AllItems
    Deposits <- AllDeposits
    Types <- AllTypes
    TypeChr <- TypeTable
    Products <- AllProducts
    ProductChr <- ProductTable
    Coastal = {2}
    Kind <- KindTable
    UnitChr <- UnitTable
    OilField = "oilfield"
    Agri = "agri"
    Dollar = 100
    Etu = 60
    ItemMax = 30
    CivTax = 50
    UwTax = 10
    MilPay <- MilRate
    BankInterest = 1500
    ReservePay <- ReserveRate
    CivBirths = 300
    UwBirths = 150
    Eats = 30
    BabyEats = 6
    WorkBump = 30
    GrowCap <- Growing
    LevelChoices <- AllLevels
    Starts <- Beginnings
    MaxCarried = 1
    MaxOrders = 1
    MaxUpdates = 1
SPECIFICATION Spec
CHECK_DEADLOCK FALSE
INVARIANTS
    TreasuryAccounted
    OnceOnCredit
    NothingOverdrawn
    SettledSectors
