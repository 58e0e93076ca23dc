CONSTANTS
    MaxU64 = 1000000000
    PRICE_SCALE = 100
    BPS_DENOMINATOR = 10000
    MAX_SPREAD_BPS = 1000
    MAX_DEPTH_BPS = 500
    MAX_SKEW_OFFSET_BPS = 500
    Workers = {w1, w2}
    Users = {u}
    Nonces = {n1, n2}
    None = None
    FairValues = {1}
    Ttls = {0}
    SpreadBps = 21
    Inputs <- BothSides
    QuoteValidWindowSlots = 1
    MmMaxDriftBps = 500
    MaxEntries = 1
    CacheTtl = 0
    SlotLag = 0
    MaxRollback = 1
    MaxSlot = 1
    MaxFaults = 1
SPECIFICATION Spec
SYMMETRY Symmetry
INVARIANTS FilledOnce SpentQuotesAreGone
PROPERTIES QuotesSurviveFailure
CHECK_DEADLOCK FALSE
