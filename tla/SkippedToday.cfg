SPECIFICATION ThreadSpec
CONSTANTS
    a = a
    Pieces <- MCPieces
    Names <- MCNames
    Times <- MCMoreTimes
    CalendarTimes <- MCMoreTimes
    Misread <- MCMisread
    Instants <- MCInstants
    MaxId = 2
    ReadFaults = FALSE
    WriteFaults = FALSE
    DiskFaults = FALSE
    Period = 2
    MaxClock = 5
    DayLength = 2
INVARIANTS
    SkippedWasToday
CHECK_DEADLOCK FALSE
