SPECIFICATION WalletsSpec
CONSTANTS
    p1 = p1
    p2 = p2
    k1 = k1
    k2 = k2
    whale = whale
    bot = bot
    pool = pool
    Tokens <- MCTokens
    Accounts <- MCAccounts
    Holders <- MCHolders
    History <- MCHistory
    Pace <- MCPace
    MinTrades = 2
    BuyerLimit = 2
    MinProfit = 100
    Prices = {0, 1}
    Procs <- MCProcs
    SignatureLimit = 4
    AuditLimit = 2
    Outages = TRUE
    Failures = TRUE
    MaxStarts = 3
    MaxRows = 1
CHECK_DEADLOCK FALSE
INVARIANTS WalletsTypeOK EvidenceHasItsWallet AnalyzedTargetHasRows RugsReturnedLittle
SYMMETRY ProcSymmetry
