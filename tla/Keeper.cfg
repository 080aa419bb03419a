SPECIFICATION FairSpec
CONSTANTS
    MaxUint = 64
    LtvBps = 3
    Bps = 4
    Unit = 10
    Floor = 14
    Target = 15
    Positions <- MCPositions
    Moves <- MCMoves
    Nothing = Nothing
    MaxNonce = 2
    MaxMoves = 2
    MaxFaults = 1
    MaxRestarts = 1
    MaxPending = 2
INVARIANTS
    ProposalsAreExact
PROPERTIES
    LateRepaysKeepTheFloor
    Restored
CHECK_DEADLOCK FALSE
