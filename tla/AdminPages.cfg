CONSTANTS
    a = a  b = b  zero = zero
    None = None
    ZeroKey = zero
    FirstAdmin = a
    Vault = Vault
    ThisPool = ThisPool
    NoPool = NoPool
    MaxU64 = 12
    PRICE_SCALE = 2
    BPS_DENOMINATOR = 10
    MAX_SPREAD_BPS = 4
    MAX_DEPTH_BPS = 2
    MAX_SKEW_OFFSET_BPS = 2
    MAX_TTL_SLOTS = 2
    SAFETY_BUFFER_SLOTS = 2
    MaxSlot = 0
    MaxNonce = 0
    MaxRollback = 0
    Keys = {a, b, zero}
    NewKeys = {a, b}
    Quotes = {}
    ParamInputs <- OnePrice
    TtlInputs = {1}
    Amounts = {1}
    MinOutputs = {0}
    Endowment <- AdminHasOne
    MaxPolls = 2
    MaxActs = 3
    MaxFaults = 1
SPECIFICATION PagesSpec
INVARIANTS NothingLocked
PROPERTIES DoesWhatItSaid SuccessUnlessOvertaken ViewConverges
CHECK_DEADLOCK FALSE
