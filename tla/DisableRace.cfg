SPECIFICATION Spec
CONSTANTS
    Logins = {l1, l2}
    SessionIds = {s1}
    Requests = {r1}
    ResetIds = {}
    Ops = {"view"}
    AdminOps = {"toggle"}
    TrustedHeader = FALSE
    Limit = 2
    Legacy = FALSE
    Prompt = FALSE
    MaxVersion = 3
    MaxGen = 1
    MaxWrong = 0
SYMMETRY Symmetry
CHECK_DEADLOCK FALSE
INVARIANTS
    NoSurvivor
