CONSTANTS
    MaxStaleness = 1
    RpcDelay = 0
    BlockhashLife = 1
    MaxTtl = 1
    MaxRollback = 1
    Ttls = {1}
    None = None
    Requests = {1, 2}
    MaxWire = 2
    MaxInflight = 1
SPECIFICATION FairSpec
INVARIANTS CurvePriceAge
PROPERTIES StreamInOrder FeedRecovers
