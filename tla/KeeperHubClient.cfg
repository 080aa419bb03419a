SPECIFICATION FairSpec
CONSTANTS
    Sends <- MCSends
    Target <- MCTarget
    Key <- MCKey
    Body <- MCBody
    MaxAttempts = 2
    NoSend = "none"
INVARIANTS
    AtMostOnce
    AcceptedIsOwn
    OneSendPerTarget
PROPERTY NoWedge
CHECK_DEADLOCK FALSE
