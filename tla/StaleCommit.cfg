\* A stale transition committed after recovery.
CONSTANTS
    Workers = {w1, w2}
    Owner = owner
    MaxClaims = 3
    MaxAsks = 0
SPECIFICATION Spec
SYMMETRY Symmetry
PROPERTY UncertainStays
CHECK_DEADLOCK FALSE
