SPECIFICATION FairSpec
CONSTANTS
    Threads = {"operation", "main"}
    Lifetimes = 2
    MaxTx = 3
    MaxRx = 3
    WireCap = 1
    Commands = 3
    Patient = TRUE
INVARIANTS TypeOK ExpectHolds SlotAgreement ReleasedIdle
PROPERTIES OpenOnce QuitEnds
CHECK_DEADLOCK FALSE
