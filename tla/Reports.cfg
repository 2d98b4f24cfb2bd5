SPECIFICATION FairSpec
CONSTANTS
    s1 = s1
    w1 = w1
    ks = ks
    kw = kw
    Drafts = {w1}
    Swaps = {w1}
    NoDraft = NoDraft
    Surfaces = {"popup", "sidepanel"}
    Keys = {ks, kw}
    KeyOf <- OneKey
    Fees = {0}
    Calls = {c1, c2}
    NoCall = NoCall
    Seeded = {w1}
    MaxBuilds = 2
    MaxEntries = 1
    BuildTTL = 0
    OutcomeTTL = 0
    MaxTries = 2
    Happens = {"SW_RESTART", "RULES_LOST"}
INVARIANTS RefusalIsEarned OneRunPerKey ReportsAreTrue
PROPERTIES CallsEnd
CHECK_DEADLOCK FALSE
