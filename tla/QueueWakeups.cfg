\* Two processes, one run and one compute attempt.  Delays of one and two
\* ticks make every order of lease expiry, retry, timer and commit happen.
CONSTANTS
    Procs = {p1, p2}
    NoProc = none
    NoItem = noitem
    Runs = {r1}
    Attempts = {a1}
    Lease = 2
    Poll = 2
    Retry = 1
    MaxRetries = 1
    MaxChanges = 1
    MaxFaults = 1
SPECIFICATION Spec
SYMMETRY Symmetry
INVARIANTS
    TypeOK
    NoMissedWakeup
    QuietWhenIdle
