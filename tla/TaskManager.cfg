SPECIFICATION Spec
CONSTANTS
    a = a
    b = b
    Pieces <- MCPieces
    Names <- MCNames
    Times <- MCTwoTimes
    CalendarTimes <- MCOneCalendarTime
    Misread <- MCMisread
    Instants <- MCInstants
    MaxId = 3
    ReadFaults = TRUE
    WriteFaults = TRUE
    DiskFaults = TRUE
INVARIANTS
    TypeOK
    IdsDistinct
    CounterAhead
    ListSorted
    FileIsPrefix
    Durable
PROPERTIES
    AddedIsFresh
    Implements
