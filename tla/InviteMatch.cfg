SPECIFICATION SyncSpec
CONSTANTS
    c1 = c1  c2 = c2  g1 = g1  A1 = A1  A2 = A2  A3 = A3  W1 = W1  W2 = W2  k1 = k1
    m1 = m1  other = other
    Tasks = {1, 2}
    MaxAccounts = 4
    MaxSeq = 2
    Creds = {c1, c2}
    Seeds = {g1}
    Contracts = {A1, A2, A3, W1, W2}
    Wallets = {W1, W2}
    Tokens = {k1}
    ListedFirst = {W2}
    JoinedAs = {c1}
    None = None
    FactoryOf <- MCFactoryOf
    Hinted <- MCHinted
    MembersOf <- MCMembersOf
    WalletOf <- MCWalletOf
    Scenes <- MCScenes
INVARIANTS ImportsAreMine
CHECK_DEADLOCK FALSE
