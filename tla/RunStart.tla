------------------------------ MODULE RunStart ------------------------------
(***************************************************************************)
(* Starting runs: overlapping start requests of one owner (run, run again, *)
(* save and run, browser retries with an idempotency token), from reading  *)
(* the saved definition over the read-only preflight to the row in         *)
(* pipeline_runs, while definitions are saved again, the providers change, *)
(* workers end runs, the owner cancels and reviews, and the janitor purges.*)
(*                                                                         *)
(* A definition is a source, the columns its guardrail decisions remove    *)
(* and nothing else.  Runs are numbered in the order of their insertion,   *)
(* which is the order of created_at within a pipeline because the pipeline *)
(* row is locked.  What a worker does with a run is one step: how it ends. *)
(***************************************************************************)
EXTENDS Naturals, Sequences

CONSTANTS
    Requests,    \* start requests in progress at one time
    Pipelines,   \* saved pipelines of the owner
    Columns,     \* source columns
    Tokens,      \* idempotency tokens the browser sends
    NoToken,     \* the form without a token
    MaxRuns,     \* rows of pipeline_runs
    MaxEdits     \* saves and changes at the providers

VARIABLES
    definition, \* pipeline_definitions: the saved content of each pipeline
    world,      \* the live source's columns and the destination's
    edits,
    runs,       \* pipeline_runs in the order of insertion
    req,        \* the requests
    lock        \* who holds the FOR UPDATE lock of each pipeline row

vars == <<definition, world, edits, runs, req, lock>>

Definitions == [source : {"table", "csv"}, remove : SUBSET Columns]
Terminal == {"succeeded", "blocked", "failed", "cancelled", "uncertain"}
Run == [pipe : Pipelines, snap : Definitions, status : Terminal \cup {"queued", "active"},
        attempt : Nat, parent : 0..MaxRuns, token : Tokens \cup {NoToken},
        reviewed : BOOLEAN, gone : BOOLEAN, window : SUBSET Definitions, passed : BOOLEAN]

Idle == [at |-> "idle"]
Free == "free"

TypeOK ==
    /\ definition \in [Pipelines -> Definitions]
    /\ world \in [cols : SUBSET Columns, accepts : SUBSET Columns]
    /\ edits \in 0..MaxEdits
    /\ runs \in Seq(Run) /\ Len(runs) <= MaxRuns
    /\ \A q \in Requests :
          req[q].at \in {"idle", "saved", "preflight", "enqueue", "parent", "insert"}
    /\ \A p \in Pipelines :
          lock[p] # Free => /\ lock[p] \in Requests
                            /\ req[lock[p]].at \in {"parent", "insert"}
                            /\ req[lock[p]].pipe = p

Init ==
    /\ definition \in [Pipelines -> {[source |-> "table", remove |-> {}]}]
    /\ world = [cols |-> Columns, accepts |-> Columns]
    /\ edits = 0
    /\ runs = <<>>
    /\ req = [q \in Requests |-> Idle]
    /\ lock = [p \in Pipelines |-> Free]

Kept == {i \in DOMAIN runs : ~runs[i].gone}
Of(p) == {i \in Kept : runs[i].pipe = p}

-----------------------------------------------------------------------------
(* Saving, and the world outside.                                          *)

\* Every request in progress for p has lived through one more definition.
Witness(rs, p, d) ==
    [q \in Requests |-> IF rs[q].at \notin {"idle", "saved"} /\ rs[q].pipe = p
                          THEN [rs[q] EXCEPT !.window = @ \cup {d}] ELSE rs[q]]

Save(p, d) ==
    /\ edits < MaxEdits
    /\ edits' = edits + 1
    /\ definition' = [definition EXCEPT ![p] = d]
    /\ req' = Witness(req, p, d)
    /\ UNCHANGED <<world, runs, lock>>

\* pipeline_save with save_and_run: the save has committed in its own
\* session, and the same request goes on to start the pipeline.
SaveAndRun(q, p, d) ==
    /\ req[q].at = "idle"
    /\ edits < MaxEdits
    /\ edits' = edits + 1
    /\ definition' = [definition EXCEPT ![p] = d]
    /\ req' = [Witness(req, p, d) EXCEPT ![q] = [at |-> "saved", pipe |-> p]]
    /\ UNCHANGED <<world, runs, lock>>

WorldChanges ==
    /\ edits < MaxEdits
    /\ edits' = edits + 1
    /\ \E c, a \in SUBSET Columns : world' = [cols |-> c, accepts |-> a]
    /\ UNCHANGED <<definition, runs, req, lock>>

-----------------------------------------------------------------------------
(* The request.                                                            *)

\* snapshot_from_definition
snapshot(p) == definition[p]

Preflighting(p, t) ==
    [at |-> "preflight", pipe |-> p, token |-> t, snap |-> snapshot(p),
     window |-> {definition[p]}, passed |-> FALSE, candidates |-> {}, parent |-> 0]

\* pipeline_run_start up to the await of the preflight.
Start(q, p, t) ==
    /\ req[q].at = "idle"
    /\ req' = [req EXCEPT ![q] = Preflighting(p, t)]
    /\ UNCHANGED <<definition, world, edits, runs, lock>>

StartSaved(q) ==
    /\ req[q].at = "saved"
    /\ req' = [req EXCEPT ![q] = Preflighting(req[q].pipe, NoToken)]
    /\ UNCHANGED <<definition, world, edits, runs, lock>>

\* _csv_source_schema_before_run: the columns found when the file was uploaded;
\* an upload is never changed.
csv_source_schema == Columns

\* The source schema the preflight sees: the inspected upload, or live metadata.
source_schema(d) == IF d.source = "csv" THEN csv_source_schema ELSE world.cols

\* _project_guardrail_schema
projected(d) == source_schema(d) \ d.remove

\* _read_only_pipeline_preflight: a source with columns, a projection that
\* leaves some, and a destination that takes them.
preflight_ok(d) ==
    /\ source_schema(d) # {}
    /\ projected(d) # {}
    /\ projected(d) \subseteq world.accepts

PreflightPasses(q) ==
    /\ req[q].at = "preflight"
    /\ preflight_ok(req[q].snap)
    /\ req' = [req EXCEPT ![q].at = "enqueue", ![q].passed = TRUE]
    /\ UNCHANGED <<definition, world, edits, runs, lock>>

PreflightRefuses(q) ==
    /\ req[q].at = "preflight"
    /\ ~preflight_ok(req[q].snap)
    /\ req' = [req EXCEPT ![q] = Idle]
    /\ UNCHANGED <<definition, world, edits, runs, lock>>

\* _run_requires_reconciliation_review, _reconciliation_reviewed
requires_review(i) == runs[i].status = "uncertain"
unresolved(p) == {i \in Of(p) : requires_review(i) /\ ~runs[i].reviewed}
reviewed(p) == {i \in Of(p) : requires_review(i) /\ runs[i].reviewed}

\* enqueue_run locks the pipeline row and reads the runs that could be unsafe.
EnqueueCheck(q) ==
    LET p == req[q].pipe IN
    /\ req[q].at = "enqueue"
    /\ lock[p] = Free
    /\ unresolved(p) = {}
    /\ lock' = [lock EXCEPT ![p] = q]
    /\ req' = [req EXCEPT ![q].at = "parent", ![q].candidates = reviewed(p)]
    /\ UNCHANGED <<definition, world, edits, runs>>

EnqueueRefused(q) ==
    LET p == req[q].pipe IN
    /\ req[q].at = "enqueue"
    /\ lock[p] = Free
    /\ unresolved(p) # {}
    /\ req' = [req EXCEPT ![q] = Idle]
    /\ UNCHANGED <<definition, world, edits, runs, lock>>

\* The latest run of the pipeline, as a set of at most one.
latest(p) == {i \in Of(p) : \A j \in Of(p) : j <= i}

\* The next statement reads the latest run: it is the parent if it is one of
\* the reviewed candidates.
EnqueueParent(q) ==
    LET retried == latest(req[q].pipe) \cap req[q].candidates IN
    /\ req[q].at = "parent"
    /\ \E i \in IF retried = {} THEN {0} ELSE retried :
          req' = [req EXCEPT ![q].at = "insert", ![q].parent = i]
    /\ UNCHANGED <<definition, world, edits, runs, lock>>

\* Runs of this owner with the token: the unique index spans all pipelines.
taken(t) == {i \in Kept : t # NoToken /\ runs[i].token = t}

release(q) == [p \in Pipelines |-> IF lock[p] = q THEN Free ELSE lock[p]]

new_run(r) ==
    [pipe |-> r.pipe, snap |-> r.snap, status |-> "queued",
     attempt |-> IF r.parent = 0 THEN 1 ELSE runs[r.parent].attempt + 1,
     parent |-> r.parent, token |-> r.token, reviewed |-> FALSE, gone |-> FALSE,
     window |-> r.window, passed |-> r.passed]

wrong_plain_insert(q) ==
    /\ req[q].at = "insert"
    /\ Len(runs) < MaxRuns
    /\ runs' = Append(runs, new_run(req[q]))
    /\ req' = [req EXCEPT ![q] = Idle]
    /\ lock' = release(q)
    /\ UNCHANGED <<definition, world, edits>>

\* INSERT ... ON CONFLICT DO NOTHING, the first event and COMMIT.  A parent
\* purged meanwhile is refused by its foreign key.
EnqueueInsert(q) ==
    /\ req[q].at = "insert"
    /\ taken(req[q].token) = {}
    /\ req[q].parent = 0 \/ req[q].parent \in Kept
    /\ Len(runs) < MaxRuns
    /\ runs' = Append(runs, new_run(req[q]))
    /\ req' = [req EXCEPT ![q] = Idle]
    /\ lock' = release(q)
    /\ UNCHANGED <<definition, world, edits>>

\* The token is taken: the request is answered with the run that has it.
EnqueueExisting(q) ==
    /\ req[q].at = "insert"
    /\ \/ taken(req[q].token) # {}
       \/ req[q].parent # 0 /\ req[q].parent \notin Kept
       \/ Len(runs) = MaxRuns  \* bound: no room for another row
    /\ req' = [req EXCEPT ![q] = Idle]
    /\ lock' = release(q)
    /\ UNCHANGED <<definition, world, edits, runs>>

-----------------------------------------------------------------------------
(* Runs that exist.                                                        *)

SetRun(i, r) ==
    /\ runs' = [runs EXCEPT ![i] = r]
    /\ UNCHANGED <<definition, world, edits, req, lock>>

Claim(i) ==
    /\ i \in Kept /\ runs[i].status = "queued"
    /\ SetRun(i, [runs[i] EXCEPT !.status = "active"])

End(i, s) ==
    /\ i \in Kept /\ runs[i].status = "active"
    /\ SetRun(i, [runs[i] EXCEPT !.status = s])

\* request_cancel of a queued run; of an active one the worker decides (End).
Cancel(i) ==
    /\ i \in Kept /\ runs[i].status = "queued"
    /\ SetRun(i, [runs[i] EXCEPT !.status = "cancelled"])

\* record_reconciliation_review
Reconcile(i) ==
    /\ i \in Kept /\ requires_review(i) /\ ~runs[i].reviewed
    /\ SetRun(i, [runs[i] EXCEPT !.reviewed = TRUE])

\* The janitor: a terminal run past retention, unless a review is owed; the
\* foreign key of its children becomes NULL.
Purge(i) ==
    /\ i \in Kept /\ runs[i].status \in Terminal
    /\ requires_review(i) => runs[i].reviewed
    /\ runs' = [j \in DOMAIN runs |->
                   IF j = i THEN [runs[j] EXCEPT !.gone = TRUE]
                   ELSE IF runs[j].parent = i THEN [runs[j] EXCEPT !.parent = 0] ELSE runs[j]]
    /\ UNCHANGED <<definition, world, edits, req, lock>>

Next ==
    \/ \E p \in Pipelines, d \in Definitions : Save(p, d)
    \/ WorldChanges
    \/ \E q \in Requests :
          \/ \E p \in Pipelines :
                \/ \E t \in Tokens \cup {NoToken} : Start(q, p, t)
                \/ \E d \in Definitions : SaveAndRun(q, p, d)
          \/ StartSaved(q)
          \/ PreflightPasses(q) \/ PreflightRefuses(q)
          \/ EnqueueCheck(q) \/ EnqueueRefused(q) \/ EnqueueParent(q)
          \/ EnqueueInsert(q) \/ EnqueueExisting(q)
    \/ \E i \in 1..MaxRuns :
          \/ Claim(i) \/ Cancel(i) \/ Reconcile(i) \/ Purge(i)
          \/ \E s \in {"succeeded", "failed", "uncertain"} : End(i, s)

Spec == Init /\ [][Next]_vars

-----------------------------------------------------------------------------
(* Properties.                                                             *)

\* However requests with one idempotency token overlap, with one another or
\* with requests for other pipelines, at most one kept run carries it
\* (enqueue_run's insert against the owner-scoped unique index).
OneRunPerToken ==
    \A i, j \in Kept : runs[i].token # NoToken /\ runs[i].token = runs[j].token => i = j

\* A run linked to a parent is the next attempt of an uncertain run of its
\* own pipeline that was reviewed, and the only one: no two requests that
\* overlap retry the same run (the lock of the pipeline row in enqueue_run).
RetryLineage ==
    \A i \in Kept : runs[i].parent # 0 =>
        LET parent == runs[runs[i].parent] IN
        /\ parent.pipe = runs[i].pipe /\ parent.status = "uncertain" /\ parent.reviewed
        /\ runs[i].attempt = parent.attempt + 1
        /\ \A j \in Kept \ {i} : runs[j].parent # runs[i].parent

\* What a run executes passed the preflight of the request that queued it and
\* was the saved definition at some moment of that request, whatever was
\* saved while the request waited (_start_pipeline_run).
RunsWhatWasChecked ==
    \A i \in DOMAIN runs : runs[i].passed /\ runs[i].snap \in runs[i].window

Safety == TypeOK /\ OneRunPerToken /\ RetryLineage /\ RunsWhatWasChecked
=============================================================================
