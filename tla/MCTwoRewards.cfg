CONSTANTS
    node = node
    voter = voter
    BadBytes = BadBytes
    ZeroHash = ZeroHash
    Garbage = Garbage
    TooLarge = TooLarge
    Keys = {node, voter}
    RewardCoins = 2
    U32 = 64
    PgIntMax = 31
    Values = {1, 2, 33}
    VoteTypes = {0, 1, 32}
    Durations = {0, 32}
    MaxTxs = 2
SPECIFICATION Spec
CHECK_DEADLOCK FALSE
INVARIANTS
    OneRewardPerBlock
