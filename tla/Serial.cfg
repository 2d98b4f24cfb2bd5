SPECIFICATION Spec
CONSTANTS
    MaxId = 2
    TTL = 0
    Origins = {o1, o2}
    NoOrigin = NoOrigin
    Windows = {}
    NoWindow = NoWindow
    Tasks = {t1, t2}
    MaxBusy = 1
    Ops <- SerialOps
SYMMETRY OriginSymmetry
PROPERTIES LifecycleSpec DisconnectCloses DisconnectIsLocal
CHECK_DEADLOCK FALSE
