CONSTANTS
    a = a  b = b  c = c  u = u  zero = zero
    ZeroKey = zero
    Vault = Vault
    ThisPool = ThisPool
    NoPool = NoPool
    MaxU64 = 12
    PRICE_SCALE = 2
    BPS_DENOMINATOR = 10
    MAX_SPREAD_BPS = 4
    MAX_DEPTH_BPS = 2
    MAX_SKEW_OFFSET_BPS = 2
    MAX_TTL_SLOTS = 2
    SAFETY_BUFFER_SLOTS = 1
    MaxSlot = 4
    MaxNonce = 1
    MaxRollback = 1
    Keys <- TradingKeys
    NewKeys = {a}
    Quotes <- TradingQuotes
    ParamInputs <- TradingParams
    TtlInputs = {1}
    Amounts = {1, 2}
    MinOutputs = {0, 2}
    Endowment <- TradingEndowment
SPECIFICATION Spec
INVARIANTS FilledAtMostOnce NonceExclusive MarkersAreFills
PROPERTIES ImplementsSettlement KillSwitch
CHECK_DEADLOCK FALSE
