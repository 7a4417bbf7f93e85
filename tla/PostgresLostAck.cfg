\* A PostgreSQL route whose COMMIT acknowledgement is lost.
CONSTANTS
    Runs = {r1}
    Procs = {p1}
    Writer = "postgres"
    MaxFaults = 0
SPECIFICATION Spec
INVARIANT SafeOutcome
CHECK_DEADLOCK FALSE
