SPECIFICATION Spec
CONSTANTS
    Requests <- MCRequests
    Intent <- MCIntent
    Key <- MCKey
    Policy <- MCPolicy
    Durable = TRUE
    NoReceipt = "none"
INVARIANTS
    SentWasAuthorized
    SentOnce
    SentWasRecorded
PROPERTY ResolvedOnce
CHECK_DEADLOCK FALSE
