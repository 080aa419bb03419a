SPECIFICATION FairConsumerSpec
CONSTANTS
    MaxRecords = 3
    BatchSize = 2
    MaxAttempts = 2
    MaxRestarts = 1
INVARIANTS
    ArrivalOrder
    DecisionsAreNotDeadLettered
PROPERTIES
    PartitionMoves
    QuietBatchesAreSealed
CHECK_DEADLOCK FALSE
