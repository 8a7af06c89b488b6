SPECIFICATION FairSpec
CONSTANTS
    Connections = 2
    Versions = 2
    WriteSlots = 1
    MayRelease = TRUE
    Alignments = {TRUE}
    Prompt = TRUE
PROPERTY AcquireAnswered
CHECK_DEADLOCK FALSE
