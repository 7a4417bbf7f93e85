----------------------------- MODULE MCOverlaps -----------------------------
(***************************************************************************)
(* Overlaps that the main instance of TransferWorker does not have:        *)
(* transactions of two workers and the owner that are open together        *)
(* (LeaseRace), two runs of one pipeline on one process (retries, reviews, *)
(* the janitor), and a route without a publication ledger. A behaviour is  *)
(* one part, chosen by Init; LeaseRace stays in its initial state while    *)
(* another part is at work.                                                *)
(***************************************************************************)
EXTENDS LeaseRace, TLC

CONSTANTS
    r,  \* the run of the route without a ledger
    p   \* the process that executes two runs

VARIABLES
    part,  \* the part at work
    run, proc, stopping, tokens, prepared, inflight, published, ownerActive, faults

MCVars == <<part, vars, run, proc, stopping, tokens, prepared, inflight, published, ownerActive,
            faults>>

Retry == INSTANCE TransferWorker
    WITH Runs <- Workers, Procs <- {p}, Writer <- "databricks", MaxFaults <- 1,
         nextToken <- tokens

Foundry == INSTANCE TransferWorker
    WITH Runs <- {r}, Procs <- Workers, Writer <- "foundry", MaxFaults <- 2, nextToken <- tokens

\* No worker is at work.
Off(v) == v = "off"

MCInit ==
    /\ Init
    /\ \/ /\ part = "race"
          /\ Off(run) /\ Off(proc) /\ Off(stopping) /\ Off(tokens) /\ Off(prepared)
          /\ Off(inflight) /\ Off(published) /\ Off(ownerActive) /\ Off(faults)
       \/ part = "retry" /\ Retry!Init
       \/ part = "foundry" /\ Foundry!Init

MCNext ==
    \/ /\ part = "race" /\ Next
       /\ UNCHANGED <<part, run, proc, stopping, tokens, prepared, inflight, published,
                      ownerActive, faults>>
    \/ part = "retry" /\ Retry!Next /\ UNCHANGED <<part, vars>>
    \/ part = "foundry" /\ Foundry!Next /\ UNCHANGED <<part, vars>>

MCSpec == MCInit /\ [][MCNext]_MCVars

\* The two workers are alike, and so are the runs or the processes of a part.
Symmetry == Permutations(Workers)

-----------------------------------------------------------------------------
\* A run is admitted only when every earlier run of the pipeline that may have
\* changed the destination succeeded or was reviewed, even after the janitor has
\* deleted rows (enqueue_run, safety_candidate); without a ledger too, one lease
\* prepares the destination of a run, and success is recorded only for the
\* publication made under it (execute_transfer, finish_success).
OverlapsSafe ==
    [][/\ part = "retry" => Retry!RetryOnlyAfterReview
       /\ part = "foundry" => (Foundry!SingleWriter /\ Foundry!SuccessPublished)']_MCVars
=============================================================================
