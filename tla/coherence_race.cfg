SPECIFICATION Spec
CONSTANTS
    Connections = 2
    Versions = 2
    WriteSlots = 1
    MayRelease = FALSE
    Alignments = {TRUE}
    Prompt = FALSE
INVARIANT SingleWriter
CHECK_DEADLOCK FALSE
