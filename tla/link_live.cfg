SPECIFICATION FairSpec
CONSTANTS
    CompatMode = TRUE
    SeqMod = 4
    Window = 2
    ResendSlots = 1
    ResendSlip = 1
    WireCap = 1
    OpCap = 1
    MaxUp = 2
    MaxDown = 2
PROPERTIES UpDelivered DownDelivered
CHECK_DEADLOCK FALSE
