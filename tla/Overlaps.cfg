SPECIFICATION MCSpec
CONSTANTS
    Workers = {x1, x2}
    Owner = owner
    MaxClaims = 3
    MaxAsks = 2
    r = r
    p = p
SYMMETRY Symmetry
INVARIANT
    EventsNumbered
PROPERTIES
    StaleCommitsHarmless
    
\* A run that has ended leaves nothing to do.
CHECK_DEADLOCK FALSE
