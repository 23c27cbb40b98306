CONSTANTS
    Files <- SomeFiles
    Nows = {4, 5}
    UpdateMax = 4
    Counts = {0, 1, 2}
    DayLen = 3
    Unclear <- Clock
    Horizon = 90
SPECIFICATION ScheduleFairSpec
INVARIANTS
    EarliestWritten
PROPERTIES
    ReadToTheEnd
\* The reader returns.
CHECK_DEADLOCK FALSE
