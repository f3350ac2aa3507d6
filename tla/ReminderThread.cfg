SPECIFICATION ThreadSpec
CONSTANTS
    a = a
    Pieces <- MCPieces
    Names <- MCNames
    Times <- MCTimes
    CalendarTimes <- MCTimes
    Misread <- MCMisread
    Instants <- MCInstants
    MaxId = 2
    ReadFaults = FALSE
    WriteFaults = FALSE
    DiskFaults = FALSE
    Period = 2
    MaxClock = 5
    DayLength = 2
INVARIANTS
    ThreadTypeOK
    MarkedOnce
    WindowNotMissed
PROPERTIES
    ChecksAtomic
    ClosingEnds
    MarkedIsShown
CHECK_DEADLOCK FALSE
