SPECIFICATION ServicesSpec
CONSTANTS
    Slots = {1, 2}
    Tickets = {1, 2}
    MaxBridgeRestarts = 1
    Screens = {1, 2}
    Coins = {c1}
    SweepFee = 1
    ResourceFee = 1
    LingerXlm = 2
    MaxXlm = 4
    MaxTopUps = 1
    Accounts = {a1, a2}
    MaxReads = 2
    MaxStops = 1
    Scans = {1, 2}
    MaxTransfers = 2
    HorizonDepth = 1
    EventsReach = 2
    EventsMinReach = 1
    MaxEntries = 2
    ApiCalls = {1, 2}
    Ceremonies = {1, 2}
    ApiWallets = {w1, w2}
    MaxApiTokens = 2
    MaxFetches = 2
    MaxToggles = 1
    MaxVisits = 2
    MaxCreates = 1
    MaxDraftCalls = 2
    ProposalIds = {1, 2}
    MaxProposalCalls = 2
    MaxVersions = 2
    SendTokens = {"xlm", "eurc"}
    FeeToken = "xlm"
    Funds <- MCFunds
    UnitsPerUsd <- MCUnitsPerUsd
    Fees = {0, 1, 2}
    Typed = {1}
    Payees = {"payee"}
    MaxBook = 1
    MaxLate = 0
    MaxBegun = 2
INVARIANTS ServicesTypeOK BridgeTellsTheOutcome AnswersFindTheirPlace SignedIsShown CredentialsKeepTheirHost ChallengeUsedOnce InvitesAreAccepted MaxLeavesTheFee
PROPERTIES ReserveKept HistoryKept ServicesAnswer
CHECK_DEADLOCK FALSE
