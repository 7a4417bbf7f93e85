---------------------- MODULE DatabricksPublication ----------------------
(***************************************************************************)
(* The durable publication ledger of the Databricks writer                 *)
(* (app/services/databricks_publication.py) together with the writer that  *)
(* reports to it and the recovery that finishes what a writer left behind. *)
(* All runs of Runs publish to one and the same table, whose fence is the  *)
(* unique column active_target_key.                                        *)
(***************************************************************************)
EXTENDS Naturals, FiniteSets

CONSTANTS
    Runs,       \* runs that publish to the table
    Procs,      \* processes that execute publication recovery
    NoProc,     \* an empty recovery_token
    Overrun,    \* may a lease run out while its worker is still working?
    Disturb     \* may the owner be disabled or the connection be rotated?

VARIABLES
    run,        \* the run's lease: queued, live, expired (token kept), ended
    work,       \* where the worker of the run is inside the writer
    rec,        \* the databricks_publications row of the run
    staged,     \* does the private staging table exist?
    effect,     \* the publish statement: none, sent, applied, rejected
    rcv,        \* what each recovery process is doing
    owner,      \* is the connection owner active?
    creds       \* the saved connection: current, rotated, missing

vars == <<run, work, rec, staged, effect, rcv, owner, creds>>

States == {"absent", "preparing", "staging", "publishing", "committed", "uncertain",
           "cleanup_pending", "cleanup_required", "complete", "unchanged"}

Absent == [state |-> "absent", key |-> FALSE, submitted |-> FALSE,
           confirmed |-> FALSE, token |-> NoProc, lease |-> "none"]

\* recovery_expires_at: absent, in the future, or passed.
Record == [state : States, key : BOOLEAN, submitted : BOOLEAN, confirmed : BOOLEAN,
           token : Procs \cup {NoProc}, lease : {"none", "live", "due"}]

Steps == {"idle", "prepare", "create", "create_failed", "ready", "load", "batch",
          "verify", "submit", "execute", "answer", "unsure", "commit", "drop",
          "confirm", "confirm_pending", "abort", "aborted", "abort_failed",
          "resubmit", "end", "gone"}

NoOperation == [pc |-> "idle", run |-> NoProc, state |-> "absent"]

TypeOK ==
    /\ run \in [Runs -> {"queued", "live", "expired", "ended"}]
    /\ work \in [Runs -> Steps]
    /\ rec \in [Runs -> Record]
    /\ staged \in [Runs -> BOOLEAN]
    /\ effect \in [Runs -> {"none", "sent", "applied", "rejected"}]
    /\ rcv \in [Procs -> [pc : {"idle", "load", "ask", "found", "unknown",
                                "cleanup", "finish", "failed"},
                          run : Runs \cup {NoProc}, state : States]]
    /\ owner \in BOOLEAN
    /\ creds \in {"current", "rotated", "missing"}

Init ==
    /\ run = [r \in Runs |-> "queued"]
    /\ work = [r \in Runs |-> "idle"]
    /\ rec = [r \in Runs |-> Absent]
    /\ staged = [r \in Runs |-> FALSE]
    /\ effect = [r \in Runs |-> "none"]
    /\ rcv = [p \in Procs |-> NoOperation]
    /\ owner = TRUE
    /\ creds = "current"

-----------------------------------------------------------------------------
(* record_publication_event                                                *)

\* _require_run_lease compares the token and not the expiry.
require_run_lease(r) == run[r] \in {"live", "expired"}

\* The row after an accepted event.
published(row, event) ==
    CASE event = "prepare_started" -> [Absent EXCEPT !.state = "preparing", !.key = TRUE]
      [] event = "staging_ready" -> [row EXCEPT !.state = "staging"]
      [] event = "batch_written" -> row
      [] event = "publish_submitted" -> [row EXCEPT !.state = "publishing", !.submitted = TRUE]
      [] event = "committed" ->
            [row EXCEPT !.state = "committed", !.key = FALSE, !.confirmed = TRUE]
      [] event = "publish_uncertain" -> [row EXCEPT !.state = "uncertain", !.key = TRUE]
      [] event = "cleanup_pending" ->
            [row EXCEPT !.state = "cleanup_pending", !.key = row.key \/ ~row.confirmed]
      [] event = "cleanup_confirmed" ->
            [row EXCEPT !.state = IF row.confirmed THEN "complete" ELSE "unchanged",
                        !.key = FALSE, !.token = NoProc, !.lease = "none"]
      [] event = "abort_confirmed" -> [row EXCEPT !.state = "unchanged", !.key = FALSE]
      [] event = "abort_uncertain" ->
            [row EXCEPT !.state = IF row.submitted THEN "uncertain" ELSE "cleanup_pending",
                        !.key = TRUE]

\* The unique index on active_target_key.
fence_open(r, row) == row.key => \A q \in Runs \ {r} : ~rec[q].key

\* An event is refused when the token is gone, the row is missing (or, for the
\* first event, present), the fence is taken, or an abort follows a submission.
accepted(r, event) ==
    /\ require_run_lease(r)
    /\ (event = "prepare_started") <=> (rec[r].state = "absent")
    /\ event = "abort_confirmed" => ~rec[r].submitted
    /\ fence_open(r, published(rec[r], event))

\* The worker at step `from` reports an event and goes on at `ok` or, when the
\* event is refused, the commit fails or its answer is lost, at `bad`.
Report(r, from, event, ok, bad) ==
    /\ work[r] = from
    /\ \/ /\ accepted(r, event)
          /\ rec' = [rec EXCEPT ![r] = published(@, event)]
          /\ \E next \in {ok, bad} : work' = [work EXCEPT ![r] = next]
       \/ /\ rec' = rec
          /\ work' = [work EXCEPT ![r] = bad]
    /\ UNCHANGED <<run, staged, effect, rcv, owner, creds>>

-----------------------------------------------------------------------------
(* The writer, driven by the transfer engine                               *)

Goto(r, step) == work' = [work EXCEPT ![r] = step]

\* A worker claims the run and reaches prepare_destination.
Start(r) ==
    /\ run[r] = "queued"
    /\ run' = [run EXCEPT ![r] = "live"]
    /\ Goto(r, "prepare")
    /\ UNCHANGED <<rec, staged, effect, rcv, owner, creds>>

prepare_started(r) == Report(r, "prepare", "prepare_started", "create", "end")

\* _validate_target and CREATE TABLE. Every statement first checks that the
\* connection was not rotated. A failed CREATE may have been executed.
CreateStaging(r) ==
    /\ work[r] = "create"
    /\ \/ creds = "current" /\ staged' = [staged EXCEPT ![r] = TRUE] /\ Goto(r, "ready")
       \/ staged' = staged /\ Goto(r, "end")
       \/ \E b \in BOOLEAN : staged' = [staged EXCEPT ![r] = b] /\ Goto(r, "create_failed")
    /\ UNCHANGED <<run, rec, effect, rcv, owner, creds>>

create_failed(r) == Report(r, "create_failed", "abort_uncertain", "end", "end")
staging_ready(r) == Report(r, "ready", "staging_ready", "load", "end")

\* INSERT INTO the staging table.
write_batch(r) ==
    /\ work[r] = "load"
    /\ \/ staged[r] /\ creds = "current" /\ Goto(r, "batch")
       \/ Goto(r, "abort")
    /\ UNCHANGED <<run, rec, staged, effect, rcv, owner, creds>>

batch_written(r) == Report(r, "batch", "batch_written", "verify", "abort")

\* The engine's checks before finalize: lease, cancellation, verification.
Checkpoint(r) ==
    /\ work[r] = "verify"
    /\ \/ run[r] = "live" /\ Goto(r, "submit")
       \/ Goto(r, "abort")
    /\ UNCHANGED <<run, rec, staged, effect, rcv, owner, creds>>

\* finalize: validation, opening the cursor and the event, all before anything
\* is sent; until then publish_submitted is false and abort() drops the staging.
publish_submitted(r) == Report(r, "submit", "publish_submitted", "execute", "abort")

Execute(r) ==
    /\ work[r] = "execute"
    /\ effect' = [effect EXCEPT ![r] = "sent"]
    /\ Goto(r, "answer")
    /\ UNCHANGED <<run, rec, staged, rcv, owner, creds>>

\* Databricks applies or rejects the statement, which reads the staging table.
Land(r) ==
    /\ effect[r] = "sent"
    /\ \E e \in {"rejected"} \cup (IF staged[r] THEN {"applied"} ELSE {}) :
          effect' = [effect EXCEPT ![r] = e]
    /\ UNCHANGED <<run, work, rec, staged, rcv, owner, creds>>

Answer(r) ==
    /\ work[r] = "answer"
    /\ \/ effect[r] = "applied" /\ Goto(r, "commit")
       \/ Goto(r, "unsure")
    /\ UNCHANGED <<run, rec, staged, effect, rcv, owner, creds>>

publish_uncertain(r) == Report(r, "unsure", "publish_uncertain", "resubmit", "resubmit")
committed(r) == Report(r, "commit", "committed", "drop", "resubmit")

\* DROP TABLE IF EXISTS, executed or not when it fails.
Drop(r, from, ok, bad) ==
    /\ work[r] = from
    /\ \/ creds = "current" /\ staged' = [staged EXCEPT ![r] = FALSE] /\ Goto(r, ok)
       \/ \E b \in {staged[r], FALSE} : staged' = [staged EXCEPT ![r] = b] /\ Goto(r, bad)
    /\ UNCHANGED <<run, rec, effect, rcv, owner, creds>>

drop_after_commit(r) == Drop(r, "drop", "confirm", "confirm_pending")
cleanup_confirmed(r) == Report(r, "confirm", "cleanup_confirmed", "end", "end")
cleanup_pending(r) == Report(r, "confirm_pending", "cleanup_pending", "end", "end")

\* abort() before the submission, and after it.
abort_drop(r) == Drop(r, "abort", "aborted", "abort_failed")
abort_confirmed(r) == Report(r, "aborted", "abort_confirmed", "end", "end")
abort_uncertain(r) == Report(r, "abort_failed", "abort_uncertain", "end", "end")
abort_submitted(r) == Report(r, "resubmit", "publish_uncertain", "end", "end")

\* The engine or process_one ends the run, unless the lease ran out.
EndRun(r) ==
    /\ work[r] = "end"
    /\ Goto(r, "gone")
    /\ run' = [run EXCEPT ![r] = IF @ = "live" THEN "ended" ELSE @]
    /\ UNCHANGED <<rec, staged, effect, rcv, owner, creds>>

Writer(r) ==
    \/ prepare_started(r) \/ CreateStaging(r) \/ create_failed(r) \/ staging_ready(r)
    \/ write_batch(r) \/ batch_written(r) \/ Checkpoint(r) \/ publish_submitted(r)
    \/ Execute(r) \/ Answer(r) \/ publish_uncertain(r) \/ committed(r)
    \/ drop_after_commit(r) \/ cleanup_confirmed(r) \/ cleanup_pending(r)
    \/ abort_drop(r) \/ abort_confirmed(r) \/ abort_uncertain(r) \/ abort_submitted(r)
    \/ EndRun(r)

Crash(r) ==
    /\ work[r] \notin {"idle", "gone"}
    /\ Goto(r, "gone")
    /\ UNCHANGED <<run, rec, staged, effect, rcv, owner, creds>>

LeaseExpires(r) ==
    /\ run[r] = "live"
    /\ Overrun \/ work[r] = "gone"
    /\ run' = [run EXCEPT ![r] = "expired"]
    /\ UNCHANGED <<work, rec, staged, effect, rcv, owner, creds>>

\* claim_run finds the expired run; its destination was started, so it ends.
TakeOver(r) ==
    /\ run[r] = "expired"
    /\ run' = [run EXCEPT ![r] = "ended"]
    /\ UNCHANGED <<work, rec, staged, effect, rcv, owner, creds>>

-----------------------------------------------------------------------------
(* process_pending_publication_recovery                                    *)

wrong_recoverable == {"preparing", "staging", "cleanup_pending", "publishing", "uncertain"}

recoverable == {"preparing", "staging", "committed", "cleanup_pending", "publishing", "uncertain"}

\* The recovery lease is free, and the run has ended or its lease has run out.
candidate(r) ==
    /\ rec[r].state \in recoverable
    /\ rec[r].lease # "live"
    /\ run[r] \in {"expired", "ended"}

claim_recovery(p, r) ==
    /\ rcv[p].pc = "idle"
    /\ candidate(r)
    /\ rec' = [rec EXCEPT ![r].token = p, ![r].lease = "live"]
    /\ rcv' = [rcv EXCEPT ![p] = [pc |-> "load", run |-> r, state |-> "absent"]]
    /\ UNCHANGED <<run, work, staged, effect, owner, creds>>

mine(p) == rec[rcv[p].run].token = p

defer_recovery(row, state) == [row EXCEPT !.state = state, !.token = NoProc, !.lease = "live"]

Idle(p) == rcv' = [rcv EXCEPT ![p] = NoOperation]

\* Every later session first compares the token; without it recovery returns.
LostRecovery(p) ==
    /\ rcv[p].pc \in {"load", "found", "unknown", "finish", "failed"}
    /\ ~mine(p)
    /\ Idle(p)
    /\ UNCHANGED <<run, work, rec, staged, effect, owner, creds>>

\* credentials_unavailable and credentials_stale
blocked_state(row) == IF row.confirmed THEN "cleanup_pending" ELSE "cleanup_required"

\* The owner is inactive, the credentials are unavailable or were rotated.
CannotRecover(p) ==
    /\ rcv[p].pc = "load" /\ mine(p)
    /\ ~owner \/ creds # "current"
    /\ rec' = [rec EXCEPT ![rcv[p].run] =
                  defer_recovery(@, IF ~owner THEN @.state ELSE blocked_state(@))]
    /\ Idle(p)
    /\ UNCHANGED <<run, work, staged, effect, owner, creds>>

\* A submitted publication is reconciled before its staging may be dropped.
first_step(state) == IF state \in {"publishing", "uncertain"} THEN "ask" ELSE "cleanup"

\* The operation is copied out of the row; the session ends.
LoadOperation(p) ==
    LET row == rec[rcv[p].run] IN
    /\ rcv[p].pc = "load" /\ mine(p)
    /\ owner /\ creds = "current"
    /\ rcv' = [rcv EXCEPT ![p].pc = first_step(row.state), ![p].state = row.state]
    /\ UNCHANGED <<run, work, rec, staged, effect, owner, creds>>

\* reconcile_publication: "committed" only for the exact marker of this run in
\* the query history or the table history; "unknown", or an error, at any time.
Confirm(p) ==
    /\ rcv[p].pc = "ask"
    /\ effect[rcv[p].run] = "applied"
    /\ rcv' = [rcv EXCEPT ![p].pc = "found"]
    /\ UNCHANGED <<run, work, rec, staged, effect, owner, creds>>

CannotConfirm(p) ==
    /\ rcv[p].pc = "ask"
    /\ \E pc \in {"unknown", "failed"} : rcv' = [rcv EXCEPT ![p].pc = pc]
    /\ UNCHANGED <<run, work, rec, staged, effect, owner, creds>>

RecordCommitted(p) ==
    /\ rcv[p].pc = "found" /\ mine(p)
    /\ rec' = [rec EXCEPT ![rcv[p].run].state = "cleanup_pending",
                          ![rcv[p].run].key = FALSE, ![rcv[p].run].confirmed = TRUE]
    /\ rcv' = [rcv EXCEPT ![p].pc = "cleanup", ![p].state = "cleanup_pending"]
    /\ UNCHANGED <<run, work, staged, effect, owner, creds>>

wrong_DeferRecovery(p) ==
    /\ rcv[p].pc \in {"unknown", "failed"}
    /\ rec' = [rec EXCEPT ![rcv[p].run] =
                  defer_recovery(@, IF rcv[p].state \in {"publishing", "uncertain"}
                                    THEN "uncertain" ELSE "cleanup_pending")]
    /\ Idle(p)
    /\ UNCHANGED <<run, work, staged, effect, owner, creds>>

\* No marker was found, or the provider failed.
DeferRecovery(p) ==
    /\ rcv[p].pc \in {"unknown", "failed"} /\ mine(p)
    /\ rec' = [rec EXCEPT ![rcv[p].run] =
                  defer_recovery(@, IF rcv[p].state \in {"publishing", "uncertain"}
                                    THEN "uncertain" ELSE "cleanup_pending")]
    /\ Idle(p)
    /\ UNCHANGED <<run, work, staged, effect, owner, creds>>

cleanup_staging(p) ==
    /\ rcv[p].pc = "cleanup"
    /\ staged' = [staged EXCEPT ![rcv[p].run] = FALSE]
    /\ rcv' = [rcv EXCEPT ![p].pc = "finish"]
    /\ UNCHANGED <<run, work, rec, effect, owner, creds>>

cleanup_fails(p) ==
    /\ rcv[p].pc = "cleanup"
    /\ \E b \in {staged[rcv[p].run], FALSE} : staged' = [staged EXCEPT ![rcv[p].run] = b]
    /\ rcv' = [rcv EXCEPT ![p].pc = "failed"]
    /\ UNCHANGED <<run, work, rec, effect, owner, creds>>

wrong_finished(row) == [row EXCEPT !.state = "complete", !.key = FALSE,
                                   !.token = NoProc, !.lease = "none"]

finished(row) == [row EXCEPT !.state = IF row.confirmed THEN "complete" ELSE "unchanged",
                             !.key = FALSE, !.token = NoProc, !.lease = "none"]

FinishRecovery(p) ==
    /\ rcv[p].pc = "finish" /\ mine(p)
    /\ rec' = [rec EXCEPT ![rcv[p].run] = finished(@)]
    /\ Idle(p)
    /\ UNCHANGED <<run, work, staged, effect, owner, creds>>

CrashRecovery(p) ==
    /\ rcv[p].pc # "idle"
    /\ Idle(p)
    /\ UNCHANGED <<run, work, rec, staged, effect, owner, creds>>

\* recovery_expires_at passes.
RecoveryDue(r) ==
    /\ rec[r].lease = "live"
    /\ rec' = [rec EXCEPT ![r].lease = "due"]
    /\ UNCHANGED <<run, work, staged, effect, rcv, owner, creds>>

Recovery(p) ==
    \/ \E r \in Runs : claim_recovery(p, r)
    \/ LostRecovery(p) \/ CannotRecover(p) \/ LoadOperation(p)
    \/ Confirm(p) \/ CannotConfirm(p) \/ RecordCommitted(p) \/ DeferRecovery(p)
    \/ cleanup_staging(p) \/ cleanup_fails(p) \/ FinishRecovery(p)

SetOwner ==
    /\ Disturb /\ owner' = ~owner
    /\ UNCHANGED <<run, work, rec, staged, effect, rcv, creds>>

Rotate ==
    /\ Disturb /\ creds = "current"
    /\ creds' \in {"rotated", "missing"}
    /\ UNCHANGED <<run, work, rec, staged, effect, rcv, owner>>

Next ==
    \/ \E r \in Runs : \/ Start(r) \/ Writer(r) \/ Crash(r) \/ Land(r) \/ LeaseExpires(r)
                       \/ TakeOver(r) \/ RecoveryDue(r)
    \/ \E p \in Procs : Recovery(p) \/ CrashRecovery(p)
    \/ SetOwner \/ Rotate

Spec == Init /\ [][Next]_vars

-----------------------------------------------------------------------------
(* Properties                                                              *)

Resolved == {"complete", "unchanged"}

\* The ledger never claims more than happened: "complete" (shown as "Destination
\* committed") only for a statement that was applied, "unchanged" only when no
\* statement was applied or is still under way.
LedgerTrue ==
    \A r \in Runs : /\ rec[r].state \in {"committed", "complete"} => effect[r] = "applied"
                    /\ rec[r].state = "unchanged" => effect[r] \in {"none", "rejected"}

\* The target fence: two statements for the table are never under way together,
\* and no run sends one while the outcome of another is open.
OnePublisher ==
    \A q, r \in Runs : q # r /\ work[r] = "execute" => effect[q] # "sent"
                       /\ ~(rec[q].submitted /\ ~rec[q].confirmed /\ rec[q].state \notin Resolved)

\* Recovery never removes a staging table that a submitted statement may still read.
StagingKept ==
    \A r \in Runs : work[r] \in {"execute", "answer"} \/ effect[r] = "sent" => staged[r]

\* A resolved record stays as it is.
ResolvedStays == \A r \in Runs : rec[r].state \in Resolved => rec'[r] = rec[r]

\* Neither a late event of the worker nor a slower recovery process reopens a
\* resolved record (record_publication_event, claim_recovery).
NothingReopened == [][ResolvedStays]_vars

\* The ledger never claims more than happened, no two statements for the table are
\* under way together, and recovery never drops a staging table that a submitted
\* statement may read (record_publication_event, the target fence, cleanup_staging).
PublicationSafe == TypeOK /\ LedgerTrue /\ OnePublisher /\ StagingKept

\* The outcome of the publication of a run that ended can be known: its statement
\* was never submitted, or was applied.
Knowable(r) == /\ run[r] = "ended" /\ rec[r].state # "absent"
               /\ rec[r].submitted => effect[r] = "applied"
=============================================================================
