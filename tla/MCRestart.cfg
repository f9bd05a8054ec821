CONSTANTS
    v1 = v1
    v2 = v2
    alice = alice
    bob = bob
    BadBytes = BadBytes
    ZeroHash = ZeroHash
    Garbage = Garbage
    TooLarge = TooLarge
    thisValidator = v1
    RewardCoins = 2
    Durations = {1}
    VoteTypes = {1}
    Electorates <- MCElectorates
    Keys = {v1, v2, alice, bob}
    Users = {alice}
    Payees = {alice}
    Validators = {v1, v2}
    Amounts = {0, 1}
    U32 = 64
    PgIntMax = 31
    MaxBlocks = 3
    MaxBlockTxs = 2
    MaxSent = 4
    MaxPending = 2
    MaxRestarts = 1
    MaxResets = 1
    MaxTmRestarts = 1
SPECIFICATION FairSpec
CHECK_DEADLOCK FALSE
INVARIANTS
    TypeOK
    HaltsOnlyIfUnstorable
    StoredChainIsDecided
    OneRewardPerBlock
    WalletTxsAreAccepted
PROPERTIES
    DecidedIsCommitted
