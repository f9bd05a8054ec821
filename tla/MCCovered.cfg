CONSTANTS
    v1 = v1
    v2 = v2
    alice = alice
    bob = bob
    BadBytes = BadBytes
    ZeroHash = ZeroHash
    Garbage = Garbage
    TooLarge = TooLarge
    thisValidator = v1
    RewardCoins = 2
    Durations = {1}
    VoteTypes = {1}
    Electorates <- MCLargeElectorates
    Keys = {v1, alice, bob}
    Users = {v1}
    Payees = {}
    Validators = {v1}
    Amounts = {3}
    U32 = 8
    PgIntMax = 3
    MaxBlocks = 4
    MaxBlockTxs = 2
    MaxSent = 4
    MaxPending = 0
    MaxRestarts = 0
    MaxResets = 0
    MaxTmRestarts = 0
SPECIFICATION Spec
CHECK_DEADLOCK FALSE
INVARIANTS
    OutputsAreCovered
