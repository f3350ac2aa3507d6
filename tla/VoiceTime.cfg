SPECIFICATION Spec
CONSTANTS
    Todays <- MCTodays
    Sentences <- MCSentences
    Minutes <- MCMinutes
    Corrections <- MCCorrections
INVARIANTS
    RemindFirst
    FiveMinutes
    DateHeard
