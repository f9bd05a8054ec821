CONSTANTS
    v1 = v1
    v2 = v2
    alice = alice
    bob = bob
    BadBytes = BadBytes
    ZeroHash = ZeroHash
    Garbage = Garbage
    TooLarge = TooLarge
    thisValidator = v1
    RewardCoins = 2
    Durations = {2}
    VoteTypes = {1}
    Electorates <- MCElectorates
    Keys = {v1, v2, alice, bob}
    Users = {v1, alice}
    Payees = {bob, v2}
    Validators = {v1}
    Amounts = {1}
    U32 = 64
    PgIntMax = 31
    MaxBlocks = 4
    MaxBlockTxs = 2
    MaxSent = 6
    MaxPending = 0
    MaxRestarts = 0
    MaxResets = 0
    MaxTmRestarts = 0
SPECIFICATION Spec
CHECK_DEADLOCK FALSE
INVARIANTS
    BooksBalance
    WalletTxsAreAccepted
    ResultIsCovered
    InputsAreLegitimate
    HistoryIsComplete
