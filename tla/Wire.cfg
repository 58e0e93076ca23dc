CONSTANTS
    k1 = k1  k2 = k2
    Keys = {k1, k2}
    ZeroKey = ZeroKey
    BaseMint = BaseMint
    QuoteMint = QuoteMint
    MintOrder <- MintsInOrder
    NoAccount = NoAccount
    Garbage = Garbage
    Prices <- OfferedPrices
    Quotes <- SignedQuotes
    Amounts = {0, 40}
    CurvePrice = 45
    MaxU64 = 100000
    PRICE_SCALE = 10
    BPS_DENOMINATOR = 100
    MAX_SPREAD_BPS = 10
    MAX_DEPTH_BPS = 20
    MAX_SKEW_OFFSET_BPS = 15
    MAX_TTL_SLOTS = 1
    SAFETY_BUFFER_SLOTS = 0
    FirstSlot = 300
    LastSlot = 301
    MaxNonce = 1
    MaxCalls = 4
SPECIFICATION Spec
VIEW Effect
INVARIANTS AccountsIntact
PROPERTIES CallsKeepTheirPromise
CHECK_DEADLOCK FALSE
