CONSTANTS
    Wallets = {alice, bob}
    None = None
    ChallengeExp = 2
    SessionExp = 2
    RpcTimeout = 1
    MaxTime = 5
    MaxFaults = 1
    MaxActs = 2
SPECIFICATION Spec
INVARIANTS SessionIsRecent RotatedOutIsLockedOut
PROPERTIES SignedInArrives
CHECK_DEADLOCK FALSE
