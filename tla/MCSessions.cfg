CONSTANTS
    Conns = {x1, x2, x3}
    Countries = {c1}
    None = None
    MaxKills = 2
    MaxInitFails = 1
SPECIFICATION FairSpec
INVARIANTS
    RegistryAccounts
    OneLateCommand
    LoginRecordCurrent
PROPERTIES
    KilledSessionEnds
