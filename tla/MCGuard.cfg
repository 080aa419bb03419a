SPECIFICATION Spec
CONSTANTS
    MaxUint = 12
    LtvBps = 3
    Bps = 4
    Unit = 3
    Accounts <- MCAccounts
    Contracts <- MCContracts
    Admin = "agent"
    PoolOwner = "bot"
    Programs <- MCPrograms
    Seeds <- MCSeeds
    Wei <- MCWei
    MaxEth = 1
INVARIANTS
    OneGuardedCall
    CommittedMovesRespectBounds
PROPERTIES
    ImplementsAtomicGuard
