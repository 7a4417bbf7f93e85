SPECIFICATION MCSpec
CONSTANTS
    Owners = {o1}
    owner = o1
    Manual = {}
    Threads = {m1}
    Runs = {c1}
    OwnerOf <- RunOwner
    Pollers = {p1, p2}
    NoPoller = none
    MaxAttempts = 2
    MaxGen = 2
    MaxCrashes = 1
    Overrun = TRUE
SYMMETRY Symmetry
INVARIANTS
    ComputeFenced
    StartFenced
PROPERTY
    NothingRevived
\* An attempt that is resolved leaves nothing to do.
CHECK_DEADLOCK FALSE
