CONSTANTS
    h1 = h1
    h2 = h2
    h3 = h3
    Nil = Nil
    Hosts <- ThreeHosts
    Votings = {"voting", "unknown"}
    Stored = {"voting"}
    MaxCommands = 1
    MaxForms = 2
    MaxRetries = 3
    MaxOutages = 2
    MaxLost = 1
SPECIFICATION Spec
CHECK_DEADLOCK FALSE
INVARIANTS
    OneTxPerChoice
    FaucetPaysOnce
    TxIsAsChosen
    StopsForAReason
    OutageCostsOneRetry
