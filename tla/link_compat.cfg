SPECIFICATION Spec
CONSTANTS
    CompatMode = TRUE
    SeqMod = 6
    Window = 1
    ResendSlots = 2
    ResendSlip = 1
    WireCap = 1
    OpCap = 1
    MaxUp = 4
    MaxDown = 7
VIEW SafetyView
INVARIANTS DownRecoverable ResendArmed
PROPERTIES DownReliable
CHECK_DEADLOCK FALSE
