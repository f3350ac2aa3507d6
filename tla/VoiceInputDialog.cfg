SPECIFICATION Spec
CONSTANTS
    MaxTalks = 3
INVARIANTS
    DialogTypeOK
    OneRecording
    ConfirmIsLatest
    CategoryIsLatest
    NeverLate
    OnlyUpsetDisables
PROPERTIES
    AcceptedKept
    ClosedEnds
