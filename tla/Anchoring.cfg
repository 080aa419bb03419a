SPECIFICATION Spec
CONSTANTS
    Accounts <- MCAccounts
    ZeroAddress = "zero"
    Wallet = "wallet"
    BatchIds = {1, 2}
    Roots <- MCRoots
    NoRoot = NoRoot
    PolicyHashes <- MCPolicies
    NoPolicy = "none"
    MaxBlock = 2
    d1 = d1 d2 = d2 d3 = d3 d4 = d4 d5 = d5
    Receipts <- MCReceipts
    Digest <- MCDigest
    DigestRank <- MCDigestRank
    Intent <- MCIntent
    PolicyHash <- MCPolicyHash
    Hour <- MCHour
    MaxFaults = 1
INVARIANTS
    MarksVerify
    OnlyOwnReceiptsVerify
PROPERTY Permanent
CHECK_DEADLOCK FALSE
