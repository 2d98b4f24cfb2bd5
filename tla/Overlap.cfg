SPECIFICATION Spec
CONSTANTS
    MaxId = 2
    TTL = 0
    Origins = {o1}
    NoOrigin = NoOrigin
    Windows = {}
    NoWindow = NoWindow
    Tasks = {t1, t2}
    MaxBusy = 2
    Ops <- OverlapOps
SYMMETRY SlotSymmetry
INVARIANTS TypeOK GrantNeedsApproval InflightCanSettle AnswersAreEarned
CHECK_DEADLOCK FALSE
