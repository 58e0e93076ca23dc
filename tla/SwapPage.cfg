CONSTANTS
    MaxU64 = 1000000000
    PRICE_SCALE = 1000
    BPS_DENOMINATOR = 10000
    MAX_SPREAD_BPS = 1000
    MAX_DEPTH_BPS = 500
    MAX_SKEW_OFFSET_BPS = 500
    None = None
    Clients = {unknown}
    ThisClient = unknown
    quoteLimit = 1
    defaultLimit = 2
    WINDOW = 1
    Updates <- MCUpdates
    VaultChoices <- MCVaultChoices
    Initial <- MCInitial
    InitialVaults <- MCInitialVaults
    VaultFaults <- MCVaultFaults
    Forms <- MCForms
    QuoteValidWindowSlots = 2
    MmMaxDriftBps = 50
    SlotLag = 1
    RoundingBps = 20
    MaxSlot = 2
    MaxClicks = 1
    MaxPolls = 2
    MaxServed = 1
SPECIFICATION Spec
INVARIANTS TradesAsClicked WindowRespected
PROPERTIES NoFailureWithoutCause
CHECK_DEADLOCK FALSE
