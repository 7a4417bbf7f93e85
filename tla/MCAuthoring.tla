----------------------------- MODULE MCAuthoring ----------------------------
(***************************************************************************)
(* Small instances of what prepares a run: the runtime, the start of runs  *)
(* and the vault of a Foundry bundle, as Authoring has them; the pipeline  *)
(* editor (review decisions, direction swap, reopening); the start of runs *)
(* of two pipelines that are saved meanwhile; and the vault of a           *)
(* Databricks bundle. A behaviour is one part, chosen by Init; the         *)
(* components of Authoring stay in their initial state while another part  *)
(* is at work.                                                             *)
(***************************************************************************)
EXTENDS Authoring, TLC

CONSTANTS a1, a2, b1, b2, p1, q1, c1, t1, none

VARIABLES
    part,  \* the part at work
    catalog, connected, version, branch, pinned, keyed, changes, sends, form, upload, panel,
    submit, saved,                                             \* the editor
    definition2, world2, edits2, runs2, req2, lock2,           \* the two pipelines
    row2, rev2, active2, wraps2, wrapped2, cache2, save2, test2, browse2, create2,
    sound2                                                     \* StepsSafe of each step so far

editorVars == <<catalog, connected, version, branch, pinned, keyed, changes, sends, form,
                upload, panel, submit, saved>>
startVars2 == <<definition2, world2, edits2, runs2, req2, lock2>>
vaultVars2 == <<row2, rev2, active2, wraps2, wrapped2, cache2, save2, test2, browse2, create2,
                sound2>>
MCVars == <<part, vars, startVars, vaultVars, editorVars, startVars2, vaultVars2>>

Decisions == INSTANCE PipelineEditor
    WITH Objects <- {1}, Parquet <- {1}, Remotes <- <<"databricks">>, Csv <- TRUE,
         Requests <- {a1, a2}, req <- submit, Modes <- {"replace"}, MaxUploads <- 2, MaxSends <- 2,
         MaxChanges <- 1

Swap == INSTANCE PipelineEditor
    WITH Objects <- {1, 2}, Parquet <- {1}, Remotes <- <<"foundry", "postgres">>, Csv <- FALSE,
         Requests <- {q1}, req <- submit, Modes <- {"replace"}, MaxUploads <- 0, MaxSends <- 1, MaxChanges <- 1

Reopen == INSTANCE PipelineEditor
    WITH Objects <- {1, 2}, Parquet <- {1}, Remotes <- <<"databricks", "foundry", "postgres">>,
         Csv <- FALSE, Requests <- {q1}, req <- submit, Modes <- {"append", "upsert", "replace", "create"},
         MaxUploads <- 0, MaxSends <- 2, MaxChanges <- 0

Snapshot == INSTANCE RunStart
    WITH definition <- definition2, world <- world2, edits <- edits2, runs <- runs2,
         req <- req2, lock <- lock2, Requests <- {a1, a2}, Pipelines <- {b1, b2},
         MaxRuns <- 1, MaxEdits <- 1

Consent == INSTANCE CredentialVault
    WITH row <- row2, rev <- rev2, active <- active2, wraps <- wraps2, wrapped <- wrapped2,
         cache <- cache2, save <- save2, test <- test2, browse <- browse2, create <- create2,
         Provider <- "databricks", Saves <- {q1}, Tests <- {t1}, Browses <- {p1},
         Creates <- {}, MaxRev <- 3, Keys <- 1, MaxWraps <- 3

\* A variable of a part that is not at work.
Off(v) == v = "off"
NoEditor ==
    /\ Off(catalog) /\ Off(connected) /\ Off(version) /\ Off(branch) /\ Off(pinned)
    /\ Off(keyed) /\ Off(changes) /\ Off(sends) /\ Off(form) /\ Off(upload) /\ Off(panel)
    /\ Off(submit) /\ Off(saved)
NoSnapshot ==
    Off(definition2) /\ Off(world2) /\ Off(edits2) /\ Off(runs2) /\ Off(req2) /\ Off(lock2)
NoConsent ==
    /\ Off(row2) /\ Off(rev2) /\ Off(active2) /\ Off(wraps2) /\ Off(wrapped2) /\ Off(cache2)
    /\ Off(save2) /\ Off(test2) /\ Off(browse2) /\ Off(create2) /\ Off(sound2)

MCInit ==
    /\ Init /\ Start!Init /\ Vault!Init
    /\ \/ part \in {"runtime", "start", "vault"} /\ NoEditor /\ NoSnapshot /\ NoConsent
       \/ part = "decisions" /\ Decisions!Init /\ NoSnapshot /\ NoConsent
       \/ part = "swap" /\ Swap!Init /\ NoSnapshot /\ NoConsent
       \/ part = "reopen" /\ Reopen!Init /\ NoSnapshot /\ NoConsent
       \/ part = "snapshot" /\ Snapshot!Init /\ NoEditor /\ NoConsent
       \/ part = "consent" /\ Consent!Init /\ sound2 = TRUE /\ NoEditor /\ NoSnapshot

MCNext ==
    \/ /\ part = "runtime" /\ Next
       /\ UNCHANGED <<part, startVars, vaultVars, editorVars, startVars2, vaultVars2>>
    \/ /\ part = "start" /\ Start!Next
       /\ UNCHANGED <<part, vars, vaultVars, editorVars, startVars2, vaultVars2>>
    \/ /\ part = "vault" /\ Vault!Next
       /\ UNCHANGED <<part, vars, startVars, editorVars, startVars2, vaultVars2>>
    \/ /\ \/ part = "decisions" /\ Decisions!Next
          \/ part = "swap" /\ Swap!Next
          \/ part = "reopen" /\ Reopen!Next
       /\ UNCHANGED <<part, vars, startVars, vaultVars, startVars2, vaultVars2>>
    \/ /\ part = "snapshot" /\ Snapshot!Next
       /\ UNCHANGED <<part, vars, startVars, vaultVars, editorVars, vaultVars2>>
    \/ /\ part = "consent" /\ Consent!Next /\ sound2' = (sound2 /\ Consent!StepsSafe)
       /\ UNCHANGED <<part, vars, startVars, vaultVars, editorVars, startVars2>>

MCSpec == MCInit /\ [][MCNext]_MCVars

\* Each part has at most two pairs of things that are alike: a1 and a2 are its
\* requests, saves or applications, b1 and b2 its pipelines, checks or operations.
Symmetry == Permutations({a1, a2}) \cup Permutations({b1, b2})

-----------------------------------------------------------------------------
\* However previews, uploads, answers of other tabs and changes of the source
\* overlap, a saved decision was made on the source that is saved; a swap exchanges
\* exactly the endpoints that were asked for; a saved pipeline reopens as itself.
\* A pipeline that is saved while it is started runs what its request checked
\* (_start_pipeline_run), and a Databricks bundle with another identity ends the
\* consent to start compute (store_provider_credentials).
EditorSafe ==
    /\ part = "decisions" => Decisions!TypeOK /\ Decisions!DecisionsBound
    /\ part = "swap" => Swap!SwapKeepsEndpoints
    /\ part = "reopen" => Reopen!SavedReopens
    /\ part = "snapshot" => Snapshot!Safety
    /\ part = "consent" => Consent!Safety /\ sound2
=============================================================================
