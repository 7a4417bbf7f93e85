SPECIFICATION MCSpec
CONSTANTS
    Apps = {a1, a2}
    Ops = {b1, b2, q1}
    MaxGen = 3
    Requests = {a1, a2}
    Pipelines = {p1}
    Columns = {c1}
    Tokens = {t1}
    NoToken = none
    MaxRuns = 3
    MaxEdits = 0
    Provider = "foundry"
    Saves = {a1, a2}
    Tests = {b1, b2}
    Browses = {}
    Creates = {q1}
    Identities = {"A", "B"}
    MaxRev = 2
    Keys = 2
    MaxWraps = 2
    a1 = a1
    a2 = a2
    b1 = b1
    b2 = b2
    p1 = p1
    q1 = q1
    c1 = c1
    t1 = t1
    none = none
SYMMETRY Symmetry
INVARIANTS
    
    
    VaultSafe
    RuntimeSafe
PROPERTIES
    
    DrainedForGood
\* Every bounded budget may be used up.
CHECK_DEADLOCK FALSE
