SPECIFICATION WindowSpec
CONSTANTS
    a = a
    b = b
    Pieces <- MCPieces
    Names <- MCNames
    Times <- MCTimes
    CalendarTimes <- MCCalendarTimes
    Misread <- MCMisread
    Instants = {}
    MaxId = 3
    ReadFaults = FALSE
    WriteFaults = TRUE
    DiskFaults = FALSE
    Dates <- MCDates
    DateOf <- MCDateOf
    AllDates = AllDates
    SpinBoxes <- MCSpinBoxes
    Typings <- MCTypings
    FiveBefore <- MCFiveBefore
INVARIANTS
    ViewCurrent
    ClashOnlyByEdit
PROPERTIES
    ActsOnSelected
    UntouchedEditKeeps
