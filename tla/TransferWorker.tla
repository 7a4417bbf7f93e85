--------------------------- MODULE TransferWorker ---------------------------
(***************************************************************************)
(* Pipeline runs executed by the app processes: claim_run and the other    *)
(* operations of services/pipeline_runs.py, process_one and the LeaseKeeper*)
(* of worker.py, execute_transfer of services/transfer_engine.py, and the  *)
(* destination writer they drive, for the runs of one pipeline.            *)
(*                                                                         *)
(* Each process executes one run at a time.  A step of a process is one    *)
(* database transaction or one remote call, together with the in-memory    *)
(* checks that precede it; between two steps anything else may happen: the *)
(* owner cancels, another process claims, the lease runs out, the process  *)
(* dies.  The transactions of pipeline_runs are atomic here; LeaseRace     *)
(* splits them.                                                            *)
(***************************************************************************)
EXTENDS PipelineRuns

CONSTANTS Runs,       \* run ids of one pipeline of one owner
          Procs,      \* app processes, each with one execution slot
          Writer,     \* which DestinationWriter the route uses
          MaxFaults   \* bound: crashes, stalls, shutdowns, deferrals, owner changes

ASSUME WriterAssumption == Writer \in {"postgres", "foundry", "databricks"}
ASSUME FaultsAssumption == MaxFaults \in Nat
ASSUME NoRunAssumption == "no run" \notin Runs

VARIABLES run,        \* the pipeline_runs table
          proc,       \* what each process holds in memory
          stopping,   \* processes whose stop_event is set
          nextToken,  \* the next lease token new_id() returns
          prepared,   \* per run: leases under which the destination was prepared
          inflight,   \* per run: publications submitted to the provider, outcome open
          published,  \* per run: publications that took effect at the destination
          ownerActive,\* users.status = "active"
          faults      \* faults that have happened

vars == <<run, proc, stopping, nextToken, prepared, inflight, published,
          ownerActive, faults>>

destination == <<prepared, inflight, published>>

(***************************************************************************)
(* pc names the next step of process_one / execute_transfer:               *)
(*   idle, down    no run; the process is not running                      *)
(*   claimed       owner check, credentials, first checkpoint, heartbeat   *)
(*   inspect       connection tests and schema inspection                  *)
(*   scan          the complete source is read, scanned and spooled        *)
(*   ready         upsert validation, last checkpoint before the load      *)
(*   prepare       prepare_destination                                     *)
(*   batch         the write_batch loop                                    *)
(*   verify        checkpoint before finalize                              *)
(*   publish       finalize, up to the provider's commit call              *)
(*   submitted     the commit call is out, its answer is awaited           *)
(*   record        reconcile the result and record it                      *)
(*   abort         the except clause of execute_transfer                   *)
(*   report        the except clauses of process_one                       *)
(* sess is the writer's load session; committed is destination_committed;  *)
(* exc, retry, rolled are the exception being handled ("none", "conflict"  *)
(* for RunConflictError, or a code), its retryable flag and whether its    *)
(* data_impact is ROLLED_BACK.                                             *)
(***************************************************************************)
Idle == [pc |-> "idle", run |-> "no run", token |-> NoToken, lost |-> FALSE,
         sess |-> "none", committed |-> FALSE, exc |-> "none",
         retry |-> FALSE, rolled |-> FALSE]

Down == [Idle EXCEPT !.pc = "down"]

EarlyPcs   == {"claimed", "inspect", "scan", "ready"}
LoadPcs    == {"prepare", "batch", "verify", "publish", "submitted", "record"}
HandlerPcs == {"abort", "report"}
BusyPcs    == EarlyPcs \cup LoadPcs \cup HandlerPcs

Proc == [pc        : BusyPcs \cup {"idle", "down"},
         run       : Runs \cup {"no run"},
         token     : Nat,
         lost      : BOOLEAN,
         sess      : {"none", "open", "submitted", "closed"},
         committed : BOOLEAN,
         exc       : Codes \cup {"none", "conflict"},
         retry     : BOOLEAN,
         rolled    : BOOLEAN]

Init == /\ run = [r \in Runs |-> AbsentRow]
        /\ proc = [p \in Procs |-> Idle]
        /\ stopping = {}
        /\ nextToken = 1
        /\ prepared = [r \in Runs |-> {}]
        /\ inflight = [r \in Runs |-> {}]
        /\ published = [r \in Runs |-> {}]
        /\ ownerActive = TRUE
        /\ faults = 0

RowOf(p) == run[proc[p].run]

HasLease(p) == refresh_and_require_lease(RowOf(p), proc[p].token)

wrong_CancelSeen(p) == p \in stopping

\* cancel_requested() as process_one builds it: the owner's flag or shutdown.
CancelSeen(p) == RowOf(p).cancel \/ p \in stopping

Fault == faults < MaxFaults /\ faults' = faults + 1

SetRow(r, row) == run' = [run EXCEPT ![r] = row]

Goto(p, pc) == proc' = [proc EXCEPT ![p].pc = pc]

Finish(p) == proc' = [proc EXCEPT ![p] = Idle]

Raise(p, code, retry) ==
    proc' = [proc EXCEPT ![p].pc = "abort", ![p].exc = code, ![p].retry = retry]

------------------------------------------------------------------------------
(* The owner, the operator, the janitor.                                    *)

\* enqueue_run: refused while any run of the pipeline is uncertain and
\* unreviewed.  A run that is still active does not stand in the way.
enqueue_run(r) ==
    /\ run[r].status = "absent"
    /\ \A q \in Runs : ~(safety_candidate(run[q]) /\ unresolved(run[q]))
    /\ SetRow(r, NewRow)
    /\ UNCHANGED <<proc, stopping, nextToken, destination, ownerActive, faults>>

request_cancel(r) ==
    /\ present(run[r])
    /\ run[r].status \notin TERMINAL_STATUSES
    /\ SetRow(r, request_cancel_row(run[r]))
    /\ UNCHANGED <<proc, stopping, nextToken, destination, ownerActive, faults>>

record_reconciliation_review(r) ==
    /\ present(run[r])
    /\ requires_review(run[r])
    /\ SetRow(r, [run[r] EXCEPT !.reviewed = TRUE])
    /\ UNCHANGED <<proc, stopping, nextToken, destination, ownerActive, faults>>

\* The janitor's run purge, once the retention period is over.  A publication
\* record that is still open keeps its run longer; that veto is left out.
janitor(r) ==
    /\ present(run[r])
    /\ run[r].status \in TERMINAL_STATUSES
    /\ ~unresolved(run[r])
    /\ SetRow(r, [run[r] EXCEPT !.gone = TRUE])
    /\ UNCHANGED <<proc, stopping, nextToken, destination, ownerActive, faults>>

\* An administrator disables or re-enables the owner's account.
SetOwnerActive(b) ==
    /\ ownerActive # b
    /\ ownerActive' = b
    /\ Fault
    /\ UNCHANGED <<run, proc, stopping, nextToken, destination>>

------------------------------------------------------------------------------
(* Claiming.                                                                *)

\* claim_run as process_one calls it.  An expired lease at the transfer or
\* verify stage ends the run as uncertain; an earlier one is recovered.
claim_run(p, r) ==
    LET row    == run[r]
        stale  == row.status \in WORKER_OWNED_STATUSES
        queued == IF stale THEN requeue(row) ELSE row
    IN  /\ proc[p].pc = "idle"
        /\ p \notin stopping
        /\ ownerActive
        /\ claimable(row)
        /\ \/ /\ stale /\ destination_started(row)
              /\ SetRow(r, fail_row(row, "worker_lost", FALSE, FALSE, TRUE))
              /\ UNCHANGED <<proc, nextToken>>
           \/ /\ ~(stale /\ destination_started(row))
              /\ row.cancel
              /\ SetRow(r, cancel_before_destination_work(queued))
              /\ UNCHANGED <<proc, nextToken>>
           \/ /\ ~(stale /\ destination_started(row))
              /\ ~row.cancel
              /\ SetRow(r, take_lease(queued, nextToken))
              /\ nextToken' = nextToken + 1
              /\ proc' = [proc EXCEPT ![p] =
                            [Idle EXCEPT !.pc = "claimed", !.run = r,
                                         !.token = nextToken]]
        /\ UNCHANGED <<stopping, destination, ownerActive, faults>>

------------------------------------------------------------------------------
(* Before the destination is touched.                                       *)

\* A step past a checkpoint: the lease keeper has not given up, nobody
\* cancelled, and the transaction that follows finds the lease in place.
Checkpoint(p) == ~proc[p].lost /\ ~CancelSeen(p) /\ HasLease(p)

OwnerInactive(p) ==
    /\ proc[p].pc = "claimed"
    /\ ~ownerActive
    /\ HasLease(p)
    /\ SetRow(proc[p].run, cancel_claimed_row(RowOf(p), default_cancel_impact(RowOf(p))))
    /\ Finish(p)
    /\ UNCHANGED <<stopping, nextToken, destination, ownerActive, faults>>

CancelEarly(p) ==
    /\ proc[p].pc \in EarlyPcs
    /\ ~proc[p].lost /\ CancelSeen(p) /\ HasLease(p)
    /\ SetRow(proc[p].run, cancel_claimed_row(RowOf(p), default_cancel_impact(RowOf(p))))
    /\ Finish(p)
    /\ UNCHANGED <<stopping, nextToken, destination, ownerActive, faults>>

StartTransfer(p) ==
    /\ proc[p].pc = "claimed"
    /\ ownerActive
    /\ Checkpoint(p)
    /\ Goto(p, "inspect")
    /\ UNCHANGED <<run, stopping, nextToken, destination, ownerActive, faults>>

\* block_run: a table-level marking at inspect, unresolved findings after scan.
BlockRun(p) ==
    /\ proc[p].pc \in {"inspect", "scan"}
    /\ Checkpoint(p)
    /\ may_transition(RowOf(p), "blocked")
    /\ SetRow(proc[p].run, block_row(RowOf(p)))
    /\ Finish(p)
    /\ UNCHANGED <<stopping, nextToken, destination, ownerActive, faults>>

BeginExtract(p) ==
    /\ proc[p].pc = "inspect"
    /\ Checkpoint(p)
    /\ may_transition(RowOf(p), "extracting")
    /\ SetRow(proc[p].run, set_status(RowOf(p), "extracting", proc[p].token))
    /\ Goto(p, "scan")
    /\ UNCHANGED <<stopping, nextToken, destination, ownerActive, faults>>

\* The scan loop's heartbeats leave a live lease live; the review is recorded.
RecordGuardrailReview(p) ==
    /\ proc[p].pc = "scan"
    /\ Checkpoint(p)
    /\ Goto(p, "ready")
    /\ UNCHANGED <<run, stopping, nextToken, destination, ownerActive, faults>>

BeginLoad(p) ==
    /\ proc[p].pc = "ready"
    /\ Checkpoint(p)
    /\ may_transition(RowOf(p), "loading")
    /\ SetRow(proc[p].run, set_status(RowOf(p), "loading", proc[p].token))
    /\ Goto(p, "prepare")
    /\ UNCHANGED <<stopping, nextToken, destination, ownerActive, faults>>

------------------------------------------------------------------------------
(* The destination.  The three writers differ in what they check before     *)
(* they act and in what abort answers.                                      *)

\* The Databricks writer records every step in the publication ledger, which
\* refuses a worker whose token is no longer on the run (an expired token that
\* nobody has replaced yet passes).
LedgerAllows(p) == Writer = "databricks" => RowOf(p).token = proc[p].token

PrepareDestination(p) ==
    /\ proc[p].pc = "prepare"
    /\ LedgerAllows(p)
    /\ prepared' = [prepared EXCEPT ![proc[p].run] = @ \cup {proc[p].token}]
    /\ proc' = [proc EXCEPT ![p].pc = "batch", ![p].sess = "open"]
    /\ UNCHANGED <<run, stopping, nextToken, inflight, published, ownerActive, faults>>

\* One round of the batch loop: add_counters, write_batch, add_counters.
LoadBatch(p) ==
    /\ proc[p].pc = "batch"
    /\ Checkpoint(p)
    /\ SetRow(proc[p].run, [RowOf(p) EXCEPT !.loaded = TRUE])
    /\ UNCHANGED <<proc, stopping, nextToken, destination, ownerActive, faults>>

BeginVerify(p) ==
    /\ proc[p].pc = "batch"
    /\ Checkpoint(p)
    /\ may_transition(RowOf(p), "verifying")
    /\ SetRow(proc[p].run, set_status(RowOf(p), "verifying", proc[p].token))
    /\ Goto(p, "verify")
    /\ UNCHANGED <<stopping, nextToken, destination, ownerActive, faults>>

\* The last checkpoint reads the keeper's flag and cancel_requested_at only:
\* it does not look at the lease in the database.
EnterFinalize(p) ==
    /\ proc[p].pc = "verify"
    /\ ~proc[p].lost /\ ~CancelSeen(p)
    /\ Goto(p, "publish")
    /\ UNCHANGED <<run, stopping, nextToken, destination, ownerActive, faults>>

\* finalize hands the publication to the provider: COMMIT, upload or CTAS.
Submit(p) ==
    /\ proc[p].pc = "publish"
    /\ LedgerAllows(p)
    /\ inflight' = [inflight EXCEPT ![proc[p].run] = @ \cup {proc[p].token}]
    /\ proc' = [proc EXCEPT ![p].pc = "submitted", ![p].sess = "submitted"]
    /\ UNCHANGED <<run, stopping, nextToken, prepared, published, ownerActive, faults>>

\* The provider applies a submitted publication, at any time or never.
Land(r) ==
    /\ \E t \in inflight[r] :
         /\ inflight' = [inflight EXCEPT ![r] = @ \ {t}]
         /\ published' = [published EXCEPT ![r] = @ \cup {t}]
    /\ UNCHANGED <<run, proc, stopping, nextToken, prepared, ownerActive, faults>>

FinalizeConfirmed(p) ==
    /\ proc[p].pc = "submitted"
    /\ proc[p].token \in published[proc[p].run]
    /\ proc' = [proc EXCEPT ![p].pc = "record", ![p].committed = TRUE,
                            ![p].sess = "closed"]
    /\ UNCHANGED <<run, stopping, nextToken, destination, ownerActive, faults>>

wrong_FinalizeUnconfirmed(p) ==
    /\ proc[p].pc = "submitted"
    /\ proc' = [proc EXCEPT ![p].pc = "record", ![p].committed = TRUE]
    /\ UNCHANGED <<run, stopping, nextToken, destination, ownerActive, faults>>

\* The answer never came: a failed COMMIT acknowledgement, an upload timeout,
\* any error after publish_submitted.
FinalizeUnconfirmed(p) ==
    /\ proc[p].pc = "submitted"
    /\ Raise(p, "publish_uncertain", FALSE)
    /\ UNCHANGED <<run, stopping, nextToken, destination, ownerActive, faults>>

\* Foundry answers an upload it rejects with an error that is not a timeout.
UploadRejected(p) ==
    /\ Writer = "foundry"
    /\ proc[p].pc = "submitted"
    /\ proc[p].token \in inflight[proc[p].run]
    /\ inflight' = [inflight EXCEPT ![proc[p].run] = @ \ {proc[p].token}]
    /\ Raise(p, "provider", FALSE)
    /\ UNCHANGED <<run, stopping, nextToken, prepared, published, ownerActive, faults>>

wrong_AbortAnswers(p) == {"rolled_back"}

\* What abort(session) may answer, through _abort_quietly: the answers are
\* "rolled_back" and "uncertain".
\*   postgres    rollback on the open connection; no connection, rolled back
\*   foundry     removes the local spool, always rolled back
\*   databricks  drops the staging table and records it in the ledger;
\*               nothing is certain once the publication was submitted
AbortAnswers(p) ==
    CASE Writer = "postgres"   -> IF proc[p].sess = "open" THEN {"rolled_back", "uncertain"}
                                  ELSE {"rolled_back"}
      [] Writer = "foundry"    -> {"rolled_back"}
      [] Writer = "databricks" -> IF proc[p].sess = "open" /\ LedgerAllows(p)
                                  THEN {"rolled_back", "uncertain"}
                                  ELSE {"uncertain"}

\* _cancel_after_abort
CancelAfterAbort(p) ==
    /\ proc[p].pc \in {"batch", "verify"}
    /\ ~proc[p].lost /\ CancelSeen(p)
    /\ \E answer \in AbortAnswers(p) :
         IF HasLease(p)
         THEN /\ SetRow(proc[p].run,
                        cancel_claimed_row(RowOf(p),
                            IF answer = "uncertain" THEN "uncertain"
                            ELSE IF RowOf(p).loaded THEN "rolled_back"
                            ELSE "unchanged"))
              /\ Finish(p)
         ELSE /\ proc' = [proc EXCEPT ![p].pc = "abort", ![p].exc = "conflict",
                                      ![p].sess = "closed"]
              /\ UNCHANGED run
    /\ UNCHANGED <<stopping, nextToken, destination, ownerActive, faults>>

\* complete_run, with either verification level, or fail_run when the counts
\* do not reconcile.
RecordOutcome(p) ==
    /\ proc[p].pc = "record"
    /\ HasLease(p)
    /\ \/ \E impact \in {"verified", "changed"} :
            SetRow(proc[p].run, complete_row(RowOf(p), impact))
       \/ SetRow(proc[p].run,
                 fail_row(RowOf(p), "verification_failed", FALSE, FALSE, TRUE))
    /\ \/ Finish(p)
       \/ Raise(p, "internal_error", FALSE)   \* the commit's answer was lost
    /\ UNCHANGED <<stopping, nextToken, destination, ownerActive, faults>>

------------------------------------------------------------------------------
(* Failures and how they are recorded.                                      *)

\* Errors the source, the destination, the limits or the database raise at
\* each step, with the retryable flag they carry.
ErrorsAt(pc) ==
    (IF pc \in EarlyPcs \cup {"prepare", "batch", "publish", "record"}
     THEN {"internal_error"} \X {FALSE} ELSE {})
    \cup
    (IF pc \in EarlyPcs \cup {"prepare", "batch", "publish"}
     THEN {"provider"} \X BOOLEAN ELSE {})
    \cup
    (IF pc \in {"inspect", "scan", "prepare", "batch", "publish"}
     THEN {"compute_not_ready"} \X BOOLEAN ELSE {})
    \cup
    (IF pc \in {"scan", "batch"} THEN {"run_timeout"} \X {TRUE} ELSE {})
    \cup
    (IF pc = "publish" /\ Writer = "foundry" THEN {"partial_write"} \X {FALSE} ELSE {})

StepFails(p) ==
    /\ \E e \in ErrorsAt(proc[p].pc) : Raise(p, e[1], e[2])
    /\ UNCHANGED <<run, stopping, nextToken, destination, ownerActive, faults>>

\* RunConflictError: the keeper gave up, or the refreshed row is not ours.
LeaseRefused(p) ==
    /\ \/ /\ proc[p].pc \in EarlyPcs \cup {"batch"}
          /\ proc[p].lost \/ ~HasLease(p)
       \/ proc[p].pc = "verify" /\ proc[p].lost
       \/ proc[p].pc = "record" /\ ~HasLease(p)
    /\ Raise(p, "conflict", FALSE)
    /\ UNCHANGED <<run, stopping, nextToken, destination, ownerActive, faults>>

LedgerRefused(p) ==
    /\ proc[p].pc \in {"prepare", "batch", "publish"}
    /\ ~LedgerAllows(p)
    /\ Raise(p, "worker_lost", FALSE)
    /\ UNCHANGED <<run, stopping, nextToken, destination, ownerActive, faults>>

\* The except clause of execute_transfer: abort an open session and decide
\* what the failure says about the destination.
AbortSession(p) ==
    /\ proc[p].pc = "abort"
    /\ IF proc[p].sess = "none"
       THEN Goto(p, "report")
       ELSE \E answer \in AbortAnswers(p) :
              LET unsure == \/ proc[p].committed
                            \/ answer = "uncertain" /\ proc[p].exc # "conflict"
              IN  proc' = [proc EXCEPT
                     ![p].pc     = "report",
                     ![p].sess   = IF @ = "open" THEN "closed" ELSE @,
                     ![p].exc    = IF unsure THEN "publish_uncertain" ELSE @,
                     ![p].retry  = @ /\ ~unsure,
                     ![p].rolled = ~unsure /\ proc[p].exc # "conflict"]
    /\ UNCHANGED <<run, stopping, nextToken, destination, ownerActive, faults>>

\* The row the except clauses of process_one leave behind, other than a
\* deferral: nothing is recorded without the lease.
ReportedRow(p) ==
    LET row == RowOf(p)
    IN  IF proc[p].exc = "conflict" \/ ~HasLease(p) THEN row
        ELSE IF /\ proc[p].exc = "compute_not_ready"
                /\ proc[p].retry
                /\ row.cancel
             THEN cancel_before_destination_work(row)
        ELSE IF /\ proc[p].exc = "compute_not_ready"
                /\ ~proc[p].retry
                /\ row.stage = "authenticate" /\ ~row.loaded
             THEN block_row(row)
        ELSE fail_row(row, proc[p].exc, proc[p].retry, proc[p].rolled, FALSE)

ReportFailure(p) ==
    /\ proc[p].pc = "report"
    /\ SetRow(proc[p].run, ReportedRow(p))
    /\ Finish(p)
    /\ UNCHANGED <<stopping, nextToken, destination, ownerActive, faults>>

\* defer_run_for_databricks_compute while the startup deadline lasts.
DeferRun(p) ==
    /\ proc[p].pc = "report"
    /\ proc[p].exc = "compute_not_ready" /\ proc[p].retry
    /\ HasLease(p)
    /\ ~RowOf(p).cancel
    /\ RowOf(p).stage = "authenticate"
    /\ SetRow(proc[p].run, defer_row(RowOf(p)))
    /\ Finish(p)
    /\ Fault
    /\ UNCHANGED <<stopping, nextToken, destination, ownerActive>>

------------------------------------------------------------------------------
(* Time, the lease keeper, crashes.                                         *)

\* next_attempt_at of a deferred run is reached.
AttemptDue(r) ==
    /\ run[r].wait
    /\ SetRow(r, [run[r] EXCEPT !.wait = FALSE])
    /\ UNCHANGED <<proc, stopping, nextToken, destination, ownerActive, faults>>

\* Somebody renews the lease of r: a busy process whose keeper still runs.
\* Renewal leaves a live lease live, so it is not a step of its own.
Renewed(r) ==
    \E p \in Procs : /\ proc[p].pc \in BusyPcs
                     /\ proc[p].run = r
                     /\ proc[p].token = run[r].token
                     /\ ~proc[p].lost

\* lease_expires_at passes.  While a keeper renews the lease that takes a
\* stall longer than the lease, which is a fault.
LeaseExpires(r) ==
    /\ run[r].lease = "live"
    /\ SetRow(r, [run[r] EXCEPT !.lease = "expired"])
    /\ IF Renewed(r) THEN Fault ELSE UNCHANGED faults
    /\ UNCHANGED <<proc, stopping, nextToken, destination, ownerActive>>

\* renew_lease's compare-and-set condition.
renew_lease(row, token) ==
    /\ present(row)
    /\ row.token = token
    /\ row.status \in WORKER_OWNED_STATUSES
    /\ row.lease = "live"

\* The keeper thread: a refused renewal, or a database error, ends it.
KeeperGivesUp(p) ==
    /\ proc[p].pc \in BusyPcs
    /\ ~proc[p].lost
    /\ IF renew_lease(RowOf(p), proc[p].token) THEN Fault ELSE UNCHANGED faults
    /\ proc' = [proc EXCEPT ![p].lost = TRUE]
    /\ UNCHANGED <<run, stopping, nextToken, destination, ownerActive>>

\* Shutdown sets stop_event; the active run sees it as a cancellation.
Shutdown(p) ==
    /\ proc[p].pc # "down" /\ p \notin stopping
    /\ stopping' = stopping \cup {p}
    /\ Fault
    /\ UNCHANGED <<run, proc, nextToken, destination, ownerActive>>

\* A process dies with all it held in memory; an open transaction is rolled
\* back by the provider, a submitted publication stays in flight.
Crash(p) ==
    /\ proc[p].pc # "down"
    /\ proc' = [proc EXCEPT ![p] = Down]
    /\ Fault
    /\ UNCHANGED <<run, stopping, nextToken, destination, ownerActive>>

Restart(p) ==
    /\ proc[p].pc = "down" \/ (proc[p].pc = "idle" /\ p \in stopping)
    /\ proc' = [proc EXCEPT ![p] = Idle]
    /\ stopping' = stopping \ {p}
    /\ UNCHANGED <<run, nextToken, destination, ownerActive, faults>>

------------------------------------------------------------------------------

WorkerStep(p) ==
    \/ OwnerInactive(p) \/ CancelEarly(p) \/ StartTransfer(p) \/ BlockRun(p)
    \/ BeginExtract(p) \/ RecordGuardrailReview(p) \/ BeginLoad(p)
    \/ PrepareDestination(p) \/ LoadBatch(p) \/ BeginVerify(p)
    \/ EnterFinalize(p) \/ Submit(p) \/ FinalizeConfirmed(p)
    \/ proc[p].pc = "submitted" /\ (FinalizeUnconfirmed(p) \/ UploadRejected(p))
    \/ CancelAfterAbort(p)
    \/ RecordOutcome(p) \/ StepFails(p) \/ LeaseRefused(p) \/ LedgerRefused(p)
    \/ AbortSession(p) \/ ReportFailure(p) \/ DeferRun(p)

Next ==
    \/ \E r \in Runs : \/ enqueue_run(r) \/ request_cancel(r)
                       \/ record_reconciliation_review(r) \/ janitor(r)
                       \/ Land(r) \/ AttemptDue(r) \/ LeaseExpires(r)
    \/ \E p \in Procs : \/ \E r \in Runs : claim_run(p, r)
                        \/ WorkerStep(p)
                        \/ KeeperGivesUp(p) \/ Shutdown(p) \/ Crash(p) \/ Restart(p)
    \/ \E b \in BOOLEAN : SetOwnerActive(b)

Spec == Init /\ [][Next]_vars

(***************************************************************************)
(* What the deployment provides: a busy process keeps running (its remote  *)
(* calls time out), the supervisor of an idle process claims what is due,  *)
(* a dead process is restarted, and time passes.                           *)
(***************************************************************************)
Fairness ==
    /\ \A p \in Procs : WF_vars(WorkerStep(p)) /\ WF_vars(Restart(p))
    /\ \A r \in Runs : /\ WF_vars(\E p \in Procs : claim_run(p, r))
                       /\ WF_vars(AttemptDue(r))
                       /\ WF_vars(~Renewed(r) /\ LeaseExpires(r))

FairSpec == Spec /\ Fairness

------------------------------------------------------------------------------
(* Properties.                                                              *)

\* Type correctness of the table, the processes and the destination record.
TypeOK ==
    /\ run \in [Runs -> Row]
    /\ proc \in [Procs -> Proc]
    /\ stopping \subseteq Procs
    /\ nextToken \in Nat
    /\ prepared \in [Runs -> SUBSET Nat]
    /\ inflight \in [Runs -> SUBSET Nat]
    /\ published \in [Runs -> SUBSET Nat]
    /\ ownerActive \in BOOLEAN
    /\ faults \in Nat

\* However often a run is claimed, recovered and claimed again, the
\* destination is prepared under one lease only: requeueing stops at the
\* transfer stage (claim_run) and a superseded worker is refused at the
\* transition to loading (_refresh_and_require_lease).
SingleWriter ==
    \A r \in Runs : \A s, t \in prepared[r] : s = t

\* A run that ends blocked, failed or cancelled has not changed its
\* destination, and no publication of it is on its way: the classification in
\* fail_run, cancel_claimed_run and the engine's except clause never calls a
\* possible write safe.
SafeOutcome ==
    \A r \in Runs :
        run[r].status \in {"blocked", "failed", "cancelled"}
            => published[r] = {} /\ inflight[r] = {}

\* A new run is not admitted while an earlier one may have changed the
\* destination without either succeeding or having been reviewed, even after
\* the janitor has deleted rows (enqueue_run's guard, against the facts).
RetryOnlyAfterReview ==
    \A r, q \in Runs :
        /\ run[r].status = "absent" /\ run'[r].status = "queued"
        /\ run[q].status \in TERMINAL_STATUSES
        /\ published[q] \cup inflight[q] # {}
        => run[q].status = "succeeded" \/ run[q].reviewed

\* The recorded outcome is final: no step of a late worker, of recovery, of
\* the owner or of the janitor changes the status, the impact or the
\* reconciliation demand of a run that has ended.
OutcomeFinal ==
    [][\A r \in Runs :
          run[r].status \in TERMINAL_STATUSES
          => /\ run'[r].status = run[r].status
             /\ run'[r].impact = run[r].impact
             /\ run'[r].recon = run[r].recon
             /\ run[r].reviewed => run'[r].reviewed]_vars

\* Once the owner has asked to cancel, the run never moves to a later working
\* status, whichever worker holds or recovers it: the checkpoints of
\* execute_transfer and the check in claim_run see the flag first.
CancelNeverAdvances ==
    [][\A r \in Runs :
          run[r].cancel => run'[r].status \in {run[r].status} \cup TERMINAL_STATUSES]_vars

\* A run a worker owns has a lease that can run out, and a run nobody owns has
\* none: a row outside this could never be claimed again by claim_run.
LeaseCoupled ==
    \A r \in Runs :
        /\ run[r].status \in WORKER_OWNED_STATUSES
             <=> run[r].token # NoToken
        /\ run[r].token = NoToken <=> run[r].lease = "none"

\* Success is only recorded for a publication that took effect, under the one
\* lease that prepared it.
SuccessPublished ==
    \A r \in Runs : run[r].status = "succeeded" => published[r] = prepared[r]
                                                   /\ published[r] # {}

\* An accepted run ends, whatever crashes, stalls and recoveries happen, as long
\* as its owner stays active.
RunsSettle ==
    \A r \in Runs :
        run[r].status \in ACTIVE_STATUSES
            ~> run[r].status \in TERMINAL_STATUSES \/ ~ownerActive

(***************************************************************************)
(* The contract's view of the table and of the destination.                *)
(***************************************************************************)
OutcomeOf(row) ==
    CASE row.status = "absent" -> "none"
      [] row.status \in ACTIVE_STATUSES -> "open"
      [] row.status \in {"blocked", "failed", "cancelled"} -> "safe"
      [] row.status = "succeeded" -> "done"
      [] row.status = "failed_needs_reconciliation" -> "uncertain"

EffectOf(r) ==
    IF published[r] # {} THEN "applied"
    ELSE IF inflight[r] # {} THEN "pending" ELSE "none"

Contract == INSTANCE TransferContract
                WITH outcome <- [r \in Runs |-> OutcomeOf(run[r])],
                     effect  <- [r \in Runs |-> EffectOf(r)]

\* The workers, through claims, recoveries, crashes and lost answers, keep the
\* contract: at most one publication per run, none after the run is closed,
\* and no outcome that claims more than is known.
KeepsContract == Contract!Spec
==============================================================================
