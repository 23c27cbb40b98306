CONSTANTS
    WorldX = 6
    WorldY = 4
    Arguments <- Lines
    NumTries = 2
    MaxRaises = 1
SPECIFICATION Spec
INVARIANTS
    TypeOK
    IslandsPlaced
    FairShares
    SpheresExact
PROPERTIES
    DriftSpreads
CHECK_DEADLOCK FALSE
