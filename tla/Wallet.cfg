SPECIFICATION UseSpec
CONSTANTS
    c1 = c1  c2 = c2  g1 = g1  A1 = A1  A2 = A2  A3 = A3  W1 = W1  W2 = W2  k1 = k1
    m1 = m1  other = other  b1 = b1
    Tasks = {1, 2}
    MaxAccounts = 4
    MaxSeq = 2
    Creds = {c1, c2}
    Seeds = {g1}
    Contracts = {A1, A2, A3, W1, W2}
    Wallets = {W1, W2}
    Tokens = {k1}
    ListedFirst = {W2}
    JoinedAs = {m1}
    None = None
    FactoryOf <- MCFactoryOf
    Hinted <- MCHinted
    MembersOf <- MCMembersOf
    WalletOf <- MCWalletOf
    Scenes <- MCScenes
    Amounts = {1, 2}
    MaxQuotes = 2
    MaxAsks = 3
    Providers = {"soroswap"}
    TokenOrder <- MCTokenOrder
    BySymbol <- MCBySymbol
    HeldOn <- MCHeldOn
    PooledOn = {"xlm", "usdc"}
    ListItems <- MCListItems
    Preferred <- MCPreferred
    FeePayerOn = {"mainnet"}
    MaxOut = 3
    KeptOf4 = 3
    MaxPriceMoves = 2
    MaxSwitches = 1
    ReviewWallets = {"pk", "seed"}
    KeyWallets = {"seed"}
    ReviewNets = {"testnet", "mainnet"}
    Catalog = {"sac"}
    Routers = {"router"}
    Callees = {"sac", "router"}
    Calls <- MCCalls
    FeeTerms <- MCFeeTerms
    FeeAssets = {"xlm"}
    Shapes <- MCShapes
    Backups = {b1}
    MaxJobs = 2
    ConfirmTries = 2
    MaxJobStops = 1
    ViewWallets = {1, 2}
    SeedWallets = {1}
    MaxGets = 2
    MaxOrders = 1
    MaxViewStops = 1
    PageLoads = {1}
    PageWallets = {1, 2}
    SeedPages = {1}
    Queries <- MCQueries
    Stashes <- MCStashes
    MaxPageMoves = 2
    PageKeys = {1, 2}
    Frames <- MCFrames
    CallShapes <- MCCallShapes
    MaxCalls = 2
    MaxChanges = 2
    Passkeys <- MCPasskeys
    ByteBase = 4
    ScalarLen = 2
    CurveOrder = 13
    RawSignatures <- MCRawSignatures
    PromptBegins <- MCPromptBegins
    MaxPrompts = 1
    Sealings <- MCSealings
    LocalTxs <- MCLocalTxs
    EntryNets = {"testnet", "mainnet"}
    VerifierOn = {"testnet"}
    CheckNeeds = 2
    MaxCallDepth = 3
    ToolNets = {"testnet", "mainnet"}
    Runs = {1, 2}
    MaxToolChanges = 2
    MaxToolStops = 1
    IconAsks = {1, 2}
    ListTtl = 2
    MaxListTime = 2
    MaxListMoves = 1
    MaxListStops = 1
    Codes = {"xlm", "usdc"}
    Priced = {"xlm", "usdc"}
    PriceAsks = {1, 2}
    StalePrices = 2
    MaxMinutes = 2
    MaxPriceStops = 1
INVARIANTS UseTypeOK RowsAreConsistent SecretsFollowAccounts NamesNotReused UseIsAsShown SignaturesAreTheirOwn
PROPERTIES LogoutLeavesNothing RemovedStaysRemoved InvitesWait FundedAddressKept
CHECK_DEADLOCK FALSE
