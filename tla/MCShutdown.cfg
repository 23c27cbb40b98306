\* The server stops when a timer ends it.
CONSTANTS
    Deities = {d1, d2}
    None = None
    MaxTimers = 4
SPECIFICATION ShutdownSpec
INVARIANTS
    PendingCanBeAborted
PROPERTIES
    OnlyLatestExpires
CHECK_DEADLOCK FALSE
