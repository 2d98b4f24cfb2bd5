SPECIFICATION Spec
CONSTANTS
    s1 = s1
    w1 = w1
    ks = ks
    kw = kw
    Drafts = {s1}
    Swaps = {}
    NoDraft = NoDraft
    Surfaces = {"popup"}
    Keys = {ks, kw}
    KeyOf <- OneKey
    Fees = {0, 1}
    Calls = {c1}
    NoCall = NoCall
    Seeded = {}
    MaxBuilds = 2
    MaxEntries = 1
    BuildTTL = 0
    OutcomeTTL = 0
    MaxTries = 1
    Happens = {"RULES_LOST"}
SYMMETRY CallSymmetry
INVARIANT MissingRulesReviewAgain
CHECK_DEADLOCK FALSE
