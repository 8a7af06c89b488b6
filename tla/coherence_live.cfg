SPECIFICATION FairSpec
CONSTANTS
    Connections = 2
    Versions = 2
    WriteSlots = 1
    MayRelease = FALSE
    Alignments = {TRUE}
    Prompt = TRUE
PROPERTY AcquireAnswered
CHECK_DEADLOCK FALSE
