CONSTANTS
    v1 = v1
    v2 = v2
    v3 = v3
    Nil = Nil
    Hosts <- TwoHosts
    MaxBlocks = 3
    Followed = {v1}
    MaxFollowed = 1
    MaxOutages = 2
    MaxRestarts = 2
    MaxLost = 1
SPECIFICATION FairSpec
CHECK_DEADLOCK FALSE
INVARIANTS
    PaidOnce
    OwnHostKeepsReward
    SurvivesOutages
PROPERTIES
    BroadcastEnds
