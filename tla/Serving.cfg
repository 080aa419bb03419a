SPECIFICATION FairServing
CONSTANTS
    Callers = {"post", "script"}
    FailureThreshold = 2
    SuccessThreshold = 2
    Cooldown = 2
    Signals = {"SIGINT", "SIGTERM"}
    MaxAttempts = 2
    Polls = 1
    Digits <- MCDigits
    SafeDigits <- MCSafeDigits
    Kind <- MCKind
    Environments <- MCEnvironments
    Healthy <- MCHealthy
    Faults <- MCFaults
    Cause <- MCCause
INVARIANTS
    GuardIsQuoted
PROPERTIES
    OpensOnConsecutiveFaults
    ClosesOnConsecutiveSuccesses
    LateFaultsKeepCooldown
    ServesAgain
    ShutdownDrains
CHECK_DEADLOCK FALSE
