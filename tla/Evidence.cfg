SPECIFICATION EvidenceSpec
CONSTANTS
    MaxEdits = 1
    Submitted <- MCIntents
    Decisions <- MCDecisions
    Values <- MCValues
INVARIANTS
    DigestIsTheEvidence
PROPERTIES
    ReceiptNamesItsCalls
    VerifiersAgree
CHECK_DEADLOCK FALSE
