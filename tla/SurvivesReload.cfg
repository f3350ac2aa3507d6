SPECIFICATION Spec
CONSTANTS
    a = a
    b = b
    Pieces <- MCPieces
    Names <- MCNames
    Times <- MCTimes
    CalendarTimes <- MCCalendarTimes
    Misread <- MCMisread
    Instants <- MCInstants
    MaxId = 2
    ReadFaults = FALSE
    WriteFaults = FALSE
    DiskFaults = FALSE
INVARIANTS
    SurvivesReload
