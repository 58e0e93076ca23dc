CONSTANTS
    MaxU64 = 100000
    PRICE_SCALE = 100
    BPS_DENOMINATOR = 10000
    MAX_SPREAD_BPS = 1000
    MAX_DEPTH_BPS = 500
    MAX_SKEW_OFFSET_BPS = 500
    Wallet = 40
    ParamChoices <- MCParamChoices
    VaultChoices <- MCVaultChoices
    InputAmounts <- MCInputs
SPECIFICATION TradesSpec
CHECK_DEADLOCK FALSE
INVARIANTS SpreadOrdered DepthMonotone SdkWithinOneUnit
PROPERTIES NoValueLeak LossBounded InventoryPushesBack
