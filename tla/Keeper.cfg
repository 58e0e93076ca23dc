CONSTANTS
    ModeMinDwell = 1
    QuietAToB = 2
    QuietBToC = 1
    StaleHoldoff = 1
    MaxTtl = 8
    BackoffAfter = 2
    ResyncAt = 2
    ResyncEvery = 4
    None = None
    MaxNonce = 2
    MaxSent = 5
    MaxFaults = 1
SPECIFICATION FairSpec
INVARIANTS SingleWriter
PROPERTIES OrderedWithoutGaps NoFlapping KeepsPublishing StaleEndsInModeC
CHECK_DEADLOCK FALSE
