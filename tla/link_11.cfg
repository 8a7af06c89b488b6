SPECIFICATION Spec
CONSTANTS
    CompatMode = FALSE
    SeqMod = 6
    Window = 2
    ResendSlots = 1
    ResendSlip = 1
    WireCap = 2
    OpCap = 1
    MaxUp = 7
    MaxDown = 1
VIEW SafetyView
INVARIANTS TypeOK ExpectHolds UpRecoverable
PROPERTIES UpReliable
CHECK_DEADLOCK FALSE
