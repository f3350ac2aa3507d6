SPECIFICATION Spec
CHECK_DEADLOCK FALSE
CONSTANTS
    word = word
    Words <- MCWords
    Numbers <- MCNumbers
    Names <- MCNames
    Moments <- MCMoments
INVARIANTS
    TornIsSkippedOrWhole
    ThrowsOnlyOnWords
