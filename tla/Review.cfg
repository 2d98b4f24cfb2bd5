SPECIFICATION Spec
CONSTANTS
    s1 = s1
    w1 = w1
    ks = ks
    kw = kw
    Drafts = {s1}
    Swaps = {}
    NoDraft = NoDraft
    Surfaces = {"popup", "sidepanel"}
    Keys = {ks, kw}
    KeyOf <- OneKey
    Fees = {0, 1}
    Calls = {c1, c2}
    NoCall = NoCall
    Seeded = {}
    MaxBuilds = 2
    MaxEntries = 1
    BuildTTL = 0
    OutcomeTTL = 0
    MaxTries = 1
    Happens = {"TICK", "CLOSE"}
SYMMETRY CallSymmetry
INVARIANTS TypeOK SignedOnce SignedAsReviewed
CHECK_DEADLOCK FALSE
