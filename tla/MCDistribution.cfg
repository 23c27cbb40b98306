\* East is direction 2, west is direction 5.
CONSTANTS
    NSectors = 3
    NItems = 2
    Ownerships <- Owners
    Land <- AllLand
    Neighbour <- Row
    Directions = {2, 5}
    Weight <- Weights
    Pack <- Packs
    DeliverBonus = 1
    DistBonus = 2
    ItemMax = 3
    MoveCost <- Costs
    MaxPathCost = 4
    MobGain = 1
    MobMax = 2
    Thresholds <- Orders
    StartStock <- Stocks
    StartThreshold <- Levels
    StartCentre <- Centres
    StartMobil = 2
    MaxOrders = 2
    MaxUpdates = 2
SPECIFICATION DistributionSpec
INVARIANTS
    StockInRange
    GoodsConserved
PROPERTIES
    ThresholdsRespected
    PassComplete
CHECK_DEADLOCK FALSE
