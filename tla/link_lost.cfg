SPECIFICATION FairSpec
CONSTANTS
    CompatMode = FALSE
    SeqMod = 4
    Window = 1
    ResendSlots = 1
    ResendSlip = 0
    WireCap = 1
    OpCap = 1
    MaxUp = 2
    MaxDown = 2
PROPERTY DownDelivered
CHECK_DEADLOCK FALSE
