SPECIFICATION ReadsSpec
CONSTANTS
    MaxUint = 100000
    LtvBps = 3
    Bps = 4
    Unit = 10
    Floor = 12
    Small = 5
    Large = 150
    Safe = 15
    Unsafe = 11
    ListLimit = 1
    MaxReceipts = 2
    MaxMoves = 1
    Thrown = Thrown
    Wallets <- MCWallets
    Environments <- MCEnvironments
    Positions <- MCPositions
    LatencyBuckets <- MCBuckets
    Seconds <- MCSeconds
INVARIANTS
    AnswersAreTrue
    ProjectionsDecide
    CollectionsAreTrue
CHECK_DEADLOCK FALSE
