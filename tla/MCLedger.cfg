CONSTANTS
    v1 = v1
    v2 = v2
    alice = alice
    bob = bob
    BadBytes = BadBytes
    ZeroHash = ZeroHash
    Garbage = Garbage
    TooLarge = TooLarge
    thisValidator = v1
    RewardCoins = 2
    Durations = {1}
    VoteTypes = {1}
    Electorates <- MCElectorates
    Keys = {v1, alice, bob}
    Users = {alice}
    Payees = {alice, bob}
    Validators = {v1}
    Amounts = {1, 3, 4}
    U32 = 8
    PgIntMax = 3
    MaxBlocks = 4
    MaxBlockTxs = 2
    MaxSent = 4
    MaxPending = 2
    MaxRestarts = 0
    MaxResets = 0
    MaxTmRestarts = 1
SPECIFICATION Spec
CHECK_DEADLOCK FALSE
INVARIANTS
    NoCrossBlockDoubleSpend
    MarksMatchInputs
    BooksBalance
    PendingIsValid
    HaltsOnlyIfUnstorable
    ChainReadsBack
PROPERTIES
    SpentStaysSpent
    ImplementsLedger
