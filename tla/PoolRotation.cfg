CONSTANTS
    a = a  b = b  c = c  u = u  zero = zero
    ZeroKey = zero
    Vault = Vault
    ThisPool = ThisPool
    NoPool = NoPool
    MaxU64 = 12
    PRICE_SCALE = 2
    BPS_DENOMINATOR = 10
    MAX_SPREAD_BPS = 4
    MAX_DEPTH_BPS = 2
    MAX_SKEW_OFFSET_BPS = 2
    MAX_TTL_SLOTS = 2
    SAFETY_BUFFER_SLOTS = 2
    MaxSlot = 2
    MaxNonce = 2
    MaxRollback = 1
    Keys <- RotationKeys
    NewKeys = {a, b, c, zero}
    Quotes = {}
    ParamInputs <- RotationParams
    TtlInputs = {1, 3}
    Amounts = {0}
    MinOutputs = {0}
    Endowment <- RotationEndowment
SPECIFICATION Spec
INVARIANTS TypeOK
PROPERTIES OracleMonotone StaleOnlyAfterReturn
CHECK_DEADLOCK FALSE
