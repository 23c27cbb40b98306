CONSTANTS
    Sessions = {s1, s2}
    Market = market
    Updater = updater
    NRows = 2
    AllowForce = TRUE
    DbErrors = TRUE
    MaxTicks = 2
    MaxWrites = 1
    MaxCrashes = 1
SPECIFICATION FairSpec
INVARIANTS
    TornUpdateIsPrefix
    OneUpdateAfterDisable
    ForceNotLost
PROPERTIES
    SerializesUpdates
    LockIsGranted
