---------------------------- MODULE PipelineRuns ----------------------------
(***************************************************************************)
(* The operations of app/services/pipeline_runs.py on one row of           *)
(* pipeline_runs, as functions from the row read under the transaction to  *)
(* the row it commits.  The state machine that calls them is TransferWorker*)
(*                                                                         *)
(* A row keeps what the operations branch on or promise something about:   *)
(*   status, stage     the lifecycle columns;                              *)
(*   token             lease_token, NoToken for NULL;                      *)
(*   lease             lease_expires_at: NULL, in the future, in the past; *)
(*   cancel            cancel_requested_at is set;                         *)
(*   wait              next_attempt_at is in the future;                   *)
(*   loaded            loaded_rows > 0;                                    *)
(*   impact            data_impact, "none" for NULL;                       *)
(*   recon, reviewed   reconciliation_required, reconciliation_reviewed_at;*)
(*   retryable         the retry flag offered to the owner;                *)
(*   gone              the janitor deleted the row (its last content stays *)
(*                     visible to the properties, never to the code).      *)
(* Event rows, counters other than loaded_rows > 0, manifests, messages    *)
(* and the diagnostic log are left out.                                    *)
(***************************************************************************)
EXTENDS PipelineState

\* TransferErrorCode, with every known code that no operation singles out
\* folded into "provider".
Codes == {"provider", "compute_not_ready", "run_timeout", "partial_write",
          "publish_uncertain", "verification_failed", "worker_lost",
          "internal_error"}

Impacts == {"none", "unchanged", "rolled_back", "uncertain", "changed", "verified"}

Row == [status    : ACTIVE_STATUSES \cup TERMINAL_STATUSES \cup {"absent"},
        stage     : Stages,
        token     : Nat,
        lease     : {"none", "live", "expired"},
        cancel    : BOOLEAN,
        wait      : BOOLEAN,
        loaded    : BOOLEAN,
        impact    : Impacts,
        recon     : BOOLEAN,
        reviewed  : BOOLEAN,
        retryable : BOOLEAN,
        gone      : BOOLEAN]

NewRow == [status |-> "queued", stage |-> STAGE_FOR_STATUS["queued"],
           token |-> NoToken, lease |-> "none", cancel |-> FALSE, wait |-> FALSE,
           loaded |-> FALSE, impact |-> "none", recon |-> FALSE,
           reviewed |-> FALSE, retryable |-> FALSE, gone |-> FALSE]

AbsentRow == [NewRow EXCEPT !.status = "absent"]

present(row) == row.status # "absent" /\ ~row.gone

(***************************************************************************)
(* Names that start with "wrong_" are deliberately faulty variants of the  *)
(* definition that follows.  The specification does not use them; each     *)
(* shows that some property notices the fault.                             *)
(***************************************************************************)
(***************************************************************************)
(* _refresh_and_require_lease: the token of the refreshed row is the       *)
(* caller's and the lease has not run out.                                 *)
(***************************************************************************)
refresh_and_require_lease(row, token) ==
    present(row) /\ row.token = token /\ row.lease # "expired"

wrong_claimable(row) == present(row) /\ row.status = "queued" /\ ~row.wait

\* Which rows claim_run's query may return (the owner's status is joined in
\* by the caller).
claimable(row) ==
    /\ present(row)
    /\ \/ row.status = "queued" /\ ~row.wait
       \/ row.status \in WORKER_OWNED_STATUSES /\ row.lease = "expired"

wrong_destination_started(row) == row.stage = "verify"

\* The stages at which claim_run takes destination work to have begun.
destination_started(row) == row.stage \in {"transfer", "verify"}

\* Reconciliation columns as every terminal operation writes them.
conclude(row, impact, recon) ==
    [row EXCEPT !.impact = impact, !.recon = recon, !.reviewed = FALSE]

cancel_before_destination_work(row) ==
    [conclude(set_status(row, "cancelled", row.token), "unchanged", FALSE)
        EXCEPT !.retryable = FALSE]

request_cancel_row(row) ==
    LET flagged == [row EXCEPT !.cancel = TRUE]
    IN  IF row.status = "queued" THEN cancel_before_destination_work(flagged)
        ELSE flagged

\* claim_run on an expired lease before destination work: back to the queue.
requeue(row) ==
    [row EXCEPT !.status = "queued", !.stage = STAGE_FOR_STATUS["queued"],
                !.token = NoToken, !.lease = "none"]

\* claim_run's last part: a fresh lease, next_attempt_at cleared, validating.
take_lease(row, token) ==
    [set_status(row, "validating", token) EXCEPT !.lease = "live", !.wait = FALSE]

wrong_defer_status(row) ==
    [row EXCEPT !.status = "waiting_for_compute", !.stage = "waiting_for_compute",
                !.token = NoToken, !.lease = "none", !.wait = TRUE]

wrong_defer_row(row) ==
    [row EXCEPT !.status = "queued", !.stage = "waiting_for_compute",
                !.token = NoToken, !.wait = TRUE]

\* defer_run_for_databricks_compute, the branch that puts the run back.
defer_row(row) ==
    [row EXCEPT !.status = "queued", !.stage = "waiting_for_compute",
                !.token = NoToken, !.lease = "none", !.wait = TRUE]

\* block_run and block_compute_readiness.
block_row(row) ==
    [conclude(set_status(row, "blocked", row.token), "unchanged", FALSE)
        EXCEPT !.retryable = FALSE]

\* complete_run: "verified" when the counts are exact, "changed" otherwise.
complete_row(row, impact) ==
    conclude(set_status(row, "succeeded", row.token), impact, FALSE)

wrong_RECONCILIATION_CODES == {"partial_write", "verification_failed", "worker_lost"}

RECONCILIATION_CODES ==
    {"partial_write", "publish_uncertain", "verification_failed", "worker_lost"}

failure_requires_reconciliation(row, code) ==
    \/ code \in RECONCILIATION_CODES
    \/ /\ code \in {"run_timeout", "internal_error"}
       /\ row.loaded \/ row.stage \in {"transfer", "verify"}

(***************************************************************************)
(* fail_run.  A rollback the connector confirmed (data_impact ==           *)
(* ROLLED_BACK) overrides the code: the run is an ordinary failure.        *)
(***************************************************************************)
fail_row(row, code, retryable, rolledBack, needs) ==
    LET recon  == ~rolledBack /\ (needs \/ failure_requires_reconciliation(row, code))
        status == IF recon THEN "failed_needs_reconciliation" ELSE "failed"
        impact == IF rolledBack THEN "rolled_back"
                  ELSE IF recon THEN "uncertain" ELSE "unchanged"
    IN  [conclude(set_status(row, status, row.token), impact, recon)
            EXCEPT !.retryable = retryable /\ ~recon]

\* cancel_claimed_run when the caller passes no data_impact.
default_cancel_impact(row) == IF row.loaded THEN "uncertain" ELSE "unchanged"

cancel_claimed_row(row, impact) ==
    LET recon  == impact = "uncertain"
        status == IF recon THEN "failed_needs_reconciliation" ELSE "cancelled"
    IN  conclude(set_status(row, status, row.token), impact, recon)

(***************************************************************************)
(* _run_requires_reconciliation_review and _reconciliation_reviewed.  The  *)
(* facts copied into verification_json repeat impact and recon, and every  *)
(* operation above writes them, so the legacy branch for rows without      *)
(* facts is not reachable.                                                 *)
(***************************************************************************)
requires_review(row) ==
    row.status = "failed_needs_reconciliation" \/ row.recon \/ row.impact = "uncertain"

wrong_safety_candidate(row) == present(row) /\ row.status \in {"failed", "cancelled"}

\* The runs enqueue_run looks at before it admits another one.
safety_candidate(row) ==
    present(row) /\ row.status \in {"failed", "failed_needs_reconciliation", "cancelled"}

unresolved(row) == requires_review(row) /\ ~row.reviewed
==============================================================================
