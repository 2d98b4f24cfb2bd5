SPECIFICATION FairSpec
CONSTANTS
    MaxId = 2
    TTL = 0
    o1 = o1
    c1 = c1
    c2 = c2
    c3 = c3
    Origins = {o1}
    NoOrigin = NoOrigin
    Windows = {}
    NoWindow = NoWindow
    Tasks = {t1}
    MaxBusy = 1
    Calls = {c1, c2}
    CallOrigin <- OneOrigin
    CallOps <- ConnectThenSign
    Ops <- SettleOps
    Toolbar = Toolbar
    NoClient = NoClient
    MaxRestarts = 1
    Impatient = {}
INVARIANTS SysTypeOK OnlyTheUserRejects
PROPERTY CallsSettle
CHECK_DEADLOCK FALSE
