\* Two runs publish to one table and two processes recover them, while the owner is
\* disabled and enabled and the connection is rotated or deleted.
CONSTANTS
    Runs = {r1, r2}
    Procs = {p1, p2}
    NoProc = none
    Overrun = FALSE
    Disturb = TRUE
SPECIFICATION Spec
SYMMETRY Symmetry
INVARIANT PublicationSafe
 
\* A run that has ended leaves nothing to do.
CHECK_DEADLOCK FALSE
