CONSTANTS
    MaxU64 = 1000000000
    PRICE_SCALE = 100
    BPS_DENOMINATOR = 10000
    MAX_SPREAD_BPS = 1000
    MAX_DEPTH_BPS = 500
    MAX_SKEW_OFFSET_BPS = 500
    Workers = {w1}
    Users = {u}
    Nonces = {n1}
    None = None
    FairValues = {999, 1049}
    Ttls = {0}
    SpreadBps = 21
    Inputs <- Buying
    QuoteValidWindowSlots = 1
    MmMaxDriftBps = 500
    MaxEntries = 1
    CacheTtl = 0
    SlotLag = 1
    MaxRollback = 1
    MaxSlot = 3
    MaxFaults = 0
SPECIFICATION Spec
SYMMETRY Symmetry
INVARIANTS FillsAreRecent PricedAsFlatCurve
CHECK_DEADLOCK FALSE
