\* One run, two processes, a Databricks destination; two faults reach a run
\* that is claimed twice, a worker that outlives its lease, a crash in every
\* step and the recovery after it.
CONSTANTS
    Runs = {r1}
    Procs = {p1, p2}
    Writer = "databricks"
    MaxFaults = 2
SPECIFICATION FairSpec
INVARIANTS
    TypeOK
    SingleWriter
    SafeOutcome
    SuccessPublished
    
PROPERTIES
    
    
    KeepsContract
    RunsSettle
\* A run that has ended and been purged leaves nothing to do.
CHECK_DEADLOCK FALSE
