SPECIFICATION Spec
CONSTANTS
    Connections = 3
    Versions = 3
    WriteSlots = 1
    MayRelease = TRUE
    Alignments = {TRUE, FALSE}
    Prompt = TRUE
VIEW View
INVARIANTS TypeOK SingleWriter LatestValue AnswerAwaited
CHECK_DEADLOCK FALSE
