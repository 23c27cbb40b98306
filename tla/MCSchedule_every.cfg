CONSTANTS
    Files <- PeriodicFiles
    Nows = {4, 5}
    UpdateMax = 4
    Counts = {0, 1, 2}
    DayLen = 3
    Unclear <- Clock
    Horizon = 90
SPECIFICATION ScheduleSpec
PROPERTIES
    StopsWhenFull
\* The reader returns.
CHECK_DEADLOCK FALSE
