CONSTANTS
    ModeMinDwell = 1
    QuietAToB = 3
    QuietBToC = 2
    StaleHoldoff = 1
    MaxTtl = 8
    BackoffAfter = 2
    ResyncAt = 2
    ResyncEvery = 4
    None = None
    MaxNonce = 2
    MaxSent = 3
    MaxFaults = 1
SPECIFICATION Spec
PROPERTY NonceHasNoGaps
CHECK_DEADLOCK FALSE
