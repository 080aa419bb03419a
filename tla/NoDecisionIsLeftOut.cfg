SPECIFICATION ConsumerSpec
CONSTANTS
    MaxRecords = 3
    BatchSize = 2
    MaxAttempts = 2
    MaxRestarts = 1
INVARIANT NoDecisionIsLeftOut
CHECK_DEADLOCK FALSE
