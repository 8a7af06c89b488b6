SPECIFICATION FairSpec
CONSTANTS
    FlitsPerBeat = 2
    MaxBeats = 4
    MaskFlits = 4
    Outstanding = 2
    Depth = 2
    Words = 16
    Values = 8
    Programs <- MixedPrograms
INVARIANTS TypeOK ReadsFresh WritesKept BurstsWellFormed
PROPERTIES AtomicsApplied RequestsAnswered
CHECK_DEADLOCK FALSE
