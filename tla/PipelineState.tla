---------------------------- MODULE PipelineState ----------------------------
(***************************************************************************)
(* The lifecycle policy of a pipeline run: app/services/pipeline_state.py. *)
(* A run row carries a status, a stage and a lease; the policy says which  *)
(* statuses a worker owns, which are final, which status may follow which  *)
(* and what entering a status does to the lease columns.                   *)
(***************************************************************************)
EXTENDS Naturals

(***************************************************************************)
(* lease_token is a fresh UUID per claim.  The model numbers the claims    *)
(* from 1; NULL is 0.                                                      *)
(***************************************************************************)
NoToken == 0

WORKER_OWNED_STATUSES == {"validating", "extracting", "loading", "verifying"}

ACTIVE_STATUSES == WORKER_OWNED_STATUSES \cup {"queued"}

TERMINAL_STATUSES ==
    {"blocked", "succeeded", "failed", "cancelled", "failed_needs_reconciliation"}

ALLOWED_TRANSITIONS ==
    [queued     |-> {"validating", "cancelled"},
     validating |-> {"extracting", "blocked", "failed",
                     "failed_needs_reconciliation", "cancelled"},
     extracting |-> {"loading", "blocked", "failed",
                     "failed_needs_reconciliation", "cancelled"},
     loading    |-> {"verifying", "failed",
                     "failed_needs_reconciliation", "cancelled"},
     verifying  |-> {"succeeded", "failed",
                     "failed_needs_reconciliation", "cancelled"}]

STAGE_FOR_STATUS ==
    [queued                      |-> "queued",
     validating                  |-> "authenticate",
     extracting                  |-> "inspect",
     loading                     |-> "transfer",
     verifying                   |-> "verify",
     blocked                     |-> "guardrails",
     succeeded                   |-> "verify",
     failed                      |-> "failed",
     cancelled                   |-> "cancelled",
     failed_needs_reconciliation |-> "reconcile"]

\* "waiting_for_compute" is the one stage that no status maps to: a queued run
\* that was deferred until its Databricks compute is ready.
Stages == {STAGE_FOR_STATUS[s] : s \in ACTIVE_STATUSES \cup TERMINAL_STATUSES}
             \cup {"waiting_for_compute"}

\* ALLOWED_TRANSITIONS.get(status, frozenset()): a final status allows nothing.
may_transition(row, status) ==
    row.status \in ACTIVE_STATUSES /\ status \in ALLOWED_TRANSITIONS[row.status]

\* A faulty variant of set_status, which forgets to release the lease token.
wrong_set_status(row, status, token) ==
    [row EXCEPT
        !.status = status,
        !.stage  = STAGE_FOR_STATUS[status],
        !.token  = IF token # NoToken THEN token ELSE row.token]

(***************************************************************************)
(* set_status: a final status releases the lease (worker_id, lease_token,  *)
(* lease_expires_at); any other status installs the token it is given.     *)
(***************************************************************************)
set_status(row, status, token) ==
    [row EXCEPT
        !.status = status,
        !.stage  = STAGE_FOR_STATUS[status],
        !.token  = IF status \in TERMINAL_STATUSES THEN NoToken
                   ELSE IF token # NoToken THEN token ELSE row.token,
        !.lease  = IF status \in TERMINAL_STATUSES THEN "none" ELSE row.lease]
==============================================================================
