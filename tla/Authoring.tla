----------------------------- MODULE Authoring ------------------------------
(***************************************************************************)
(* What prepares a run, side by side: the process-wide runtime whose       *)
(* leases every operation needs (RuntimeLifetime), the start of runs       *)
(* (RunStart) and the credential vault of one provider (CredentialVault).  *)
(* Each has variables of its own.                                          *)
(***************************************************************************)
EXTENDS RuntimeLifetime, Integers

CONSTANTS
    \* RunStart
    Requests, Pipelines, Columns, Tokens, NoToken, MaxRuns, MaxEdits,
    \* CredentialVault
    Provider, Saves, Tests, Browses, Creates, Identities, MaxRev, Keys, MaxWraps

\* A request is not the mark of an unlocked row, and the bounds are numbers.
ASSUME StartAssumption == "free" \notin Requests /\ MaxRuns \in Nat /\ MaxEdits \in Nat

\* There is a master key.
ASSUME VaultAssumption ==
    Keys \in Nat \ {0} /\ MaxWraps \in Nat /\ MaxRev \in Nat

VARIABLES
    definition, world, edits, runs, req, lock,                                \* RunStart
    row, rev, active, wraps, wrapped, cache, save, test, browse, create       \* CredentialVault

startVars == <<definition, world, edits, runs, req, lock>>
vaultVars == <<row, rev, active, wraps, wrapped, cache, save, test, browse, create>>

Start == INSTANCE RunStart
Vault == INSTANCE CredentialVault

\* One kept run per idempotency token, one retry of a reviewed uncertain run, and
\* every run executes a definition that passed the preflight of its request, however
\* start requests and saves overlap (_start_pipeline_run, enqueue_run).
StartsSafe == Start!Safety

\* No master key protects more bundles than configured, and a dataset is registered
\* for the credentials that created it (_reserve_master_key_use, create_dataset).
VaultSafe == Vault!Safety

\* A check that outlived a replacement leaves no trace on the new bundle, a save that
\* returns has stored what was submitted, another identity ends the consent to start
\* compute (store_provider_credentials, record_check).
VaultStepsSafe == [][Vault!StepsSafe]_vaultVars
=============================================================================
