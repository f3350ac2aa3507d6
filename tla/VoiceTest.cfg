SPECIFICATION Spec
CONSTANT MaxForks = 4
INVARIANT TerminalMode
PROPERTY TranscriptIsLatest
