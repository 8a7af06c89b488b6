SPECIFICATION FairSpec
CONSTANTS
    DefaultCredits = 3
    StartCredits = 8
    HostCredits = 16
    CounterMax = 12
    Threads = 1
    Ops = {"WritePartial", "AcquireBlock"}
    Answers = {"ProbeAckData"}
    WriteLens = {8}
    LineLens = {1}
    Machines = 1
    OutCap = 1
    WireCap = 1
    MaxBegun = 2
INVARIANTS TypeOK NoUnderflow CreditsConserved SendCreditsComeBack AnswerHasCredits
PROPERTY OperationCompletes
CHECK_DEADLOCK FALSE
