SPECIFICATION SysSpec
CONSTANTS
    MaxId = 1
    TTL = 0
    o1 = o1
    c1 = c1
    c2 = c2
    c3 = c3
    Origins = {o1}
    NoOrigin = NoOrigin
    Windows = {}
    NoWindow = NoWindow
    Tasks = {t1, t2}
    MaxBusy = 1
    Calls = {c1, c3}
    CallOrigin <- OneOrigin
    CallOps <- ConnectAndLeave
    Ops <- UserOps
    Toolbar = Toolbar
    NoClient = NoClient
    MaxRestarts = 0
    Impatient = {}
PROPERTY DisconnectRevokes
CHECK_DEADLOCK FALSE
