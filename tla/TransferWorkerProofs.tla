------------------------ MODULE TransferWorkerProofs ------------------------
(***************************************************************************)
(* Proofs about TransferWorker for every set of runs and processes, every  *)
(* writer and every number of faults.                                      *)
(***************************************************************************)
EXTENDS TransferWorker, TLAPS

Statuses == ACTIVE_STATUSES \cup TERMINAL_STATUSES

\* LeaseCoupled for one row.
Coupled(row) == /\ row.status \in WORKER_OWNED_STATUSES <=> row.token # NoToken
                /\ row.token = NoToken <=> row.lease = "none"

\* The stage column follows the status, except for a deferred run.
Staged(row) == \/ row.status \in {"absent", "queued"}
               \/ row.status \in Statuses /\ row.stage = STAGE_FOR_STATUS[row.status]

RowOK(row) == row \in Row /\ Coupled(row) /\ Staged(row)

Ended(row) == RowOK(row) /\ row.status \in TERMINAL_STATUSES /\ row.token = NoToken

------------------------------------------------------------------------------
(* Facts about the row operators.                                           *)

USE DEF NoToken

\* The stage of every status is a stage.
LEMMA StageType == \A s \in Statuses : STAGE_FOR_STATUS[s] \in Stages
  BY DEF Statuses, Stages

\* set_status leaves a well-typed row with the given status and its stage.
LEMMA SetStatusType ==
  ASSUME NEW row \in Row, NEW s \in Statuses, NEW t \in Nat
  PROVE  /\ set_status(row, s, t) \in Row
         /\ set_status(row, s, t).status = s
         /\ set_status(row, s, t).stage = STAGE_FOR_STATUS[s]
         /\ s \in TERMINAL_STATUSES =>
              set_status(row, s, t).token = NoToken /\ set_status(row, s, t).lease = "none"
         /\ s \notin TERMINAL_STATUSES =>
              /\ set_status(row, s, t).token = IF t # NoToken THEN t ELSE row.token
              /\ set_status(row, s, t).lease = row.lease
  <1>1. STAGE_FOR_STATUS[s] \in Stages
    BY StageType
  <1> QED
    BY <1>1 DEF set_status, Row, Statuses

\* Entering a final status and writing the facts ends the row.
LEMMA ConcludeEnds ==
  ASSUME NEW row \in Row, NEW s \in TERMINAL_STATUSES, NEW t \in Nat,
         NEW impact \in Impacts, NEW recon \in BOOLEAN
  PROVE  Ended(conclude(set_status(row, s, t), impact, recon))
  <1>1. s \in Statuses
    BY DEF Statuses
  <1> DEFINE new == set_status(row, s, t)
  <1>2. new \in Row /\ new.status = s /\ new.stage = STAGE_FOR_STATUS[s]
        /\ new.token = NoToken /\ new.lease = "none"
    BY <1>1, SetStatusType
  <1> HIDE DEF new
  <1>3. Ended(conclude(new, impact, recon))
    BY <1>1, <1>2 DEF conclude, Ended, RowOK, Row, Coupled, Staged, TERMINAL_STATUSES,
                      WORKER_OWNED_STATUSES
  <1> QED
    BY <1>3 DEF new

\* Writing the retry flag does not disturb an ended row.
LEMMA RetryableEnds ==
  ASSUME NEW row, Ended(row), NEW b \in BOOLEAN
  PROVE  Ended([row EXCEPT !.retryable = b])
  BY DEF Ended, RowOK, Row, Coupled, Staged

\* block_run, complete_run, fail_run, cancel_claimed_run and the cancellation
\* before destination work all end the row, whatever it was.
LEMMA TerminalOperations ==
  ASSUME NEW row \in Row
  PROVE  /\ Ended(cancel_before_destination_work(row))
         /\ Ended(block_row(row))
         /\ \A impact \in Impacts : Ended(complete_row(row, impact))
         /\ \A impact \in Impacts : Ended(cancel_claimed_row(row, impact))
         /\ \A code : \A retryable, rolledBack, needs \in BOOLEAN :
               Ended(fail_row(row, code, retryable, rolledBack, needs))
  <1>0. /\ row.token \in Nat
        /\ {"cancelled", "blocked", "succeeded", "failed", "failed_needs_reconciliation"}
             = TERMINAL_STATUSES
        /\ {"unchanged", "uncertain", "rolled_back"} \subseteq Impacts
    BY DEF Row, TERMINAL_STATUSES, Impacts
  <1>1. Ended(cancel_before_destination_work(row))
    BY <1>0, ConcludeEnds, RetryableEnds DEF cancel_before_destination_work
  <1>2. Ended(block_row(row))
    BY <1>0, ConcludeEnds, RetryableEnds DEF block_row
  <1>3. ASSUME NEW impact \in Impacts
        PROVE  Ended(complete_row(row, impact))
    BY <1>0, ConcludeEnds DEF complete_row
  <1>4. ASSUME NEW impact \in Impacts
        PROVE  Ended(cancel_claimed_row(row, impact))
    <2> DEFINE recon  == impact = "uncertain"
               status == IF recon THEN "failed_needs_reconciliation" ELSE "cancelled"
    <2>1. recon \in BOOLEAN /\ status \in TERMINAL_STATUSES
      BY <1>0
    <2>2. Ended(conclude(set_status(row, status, row.token), impact, recon))
      BY <1>0, <2>1, ConcludeEnds
    <2> QED
      BY <2>2 DEF cancel_claimed_row
  <1>5. ASSUME NEW code, NEW retryable \in BOOLEAN, NEW rolledBack \in BOOLEAN,
               NEW needs \in BOOLEAN
        PROVE  Ended(fail_row(row, code, retryable, rolledBack, needs))
    <2> DEFINE recon  == ~rolledBack
                            /\ (needs \/ failure_requires_reconciliation(row, code))
               status == IF recon THEN "failed_needs_reconciliation" ELSE "failed"
               impact == IF rolledBack THEN "rolled_back"
                         ELSE IF recon THEN "uncertain" ELSE "unchanged"
    <2>1. recon \in BOOLEAN /\ (retryable /\ ~recon) \in BOOLEAN
      OBVIOUS
    <2>2. status \in TERMINAL_STATUSES /\ impact \in Impacts
      BY <1>0
    <2> HIDE DEF recon, status, impact
    <2>3. Ended(conclude(set_status(row, status, row.token), impact, recon))
      BY <1>0, <2>1, <2>2, ConcludeEnds
    <2>4. Ended([conclude(set_status(row, status, row.token), impact, recon)
                    EXCEPT !.retryable = retryable /\ ~recon])
      BY <2>1, <2>3, RetryableEnds
    <2> QED
      BY <2>4 DEF fail_row, recon, status, impact
  <1> QED
    BY <1>1, <1>2, <1>3, <1>4, <1>5

\* Operations that leave a run in the hands of a worker or in the queue.
LEMMA ActiveOperations ==
  ASSUME NEW row, RowOK(row)
  PROVE  /\ row.status \in WORKER_OWNED_STATUSES =>
              /\ RowOK(requeue(row))
              /\ requeue(row).status = "queued" /\ requeue(row).token = NoToken
         /\ RowOK(defer_row(row))
         /\ defer_row(row).status = "queued" /\ defer_row(row).token = NoToken
         /\ \A t \in Nat \ {NoToken} :
              /\ RowOK(take_lease(row, t))
              /\ take_lease(row, t).status = "validating"
              /\ take_lease(row, t).token = t
  <1>1. /\ "queued" \in Statuses /\ "validating" \in Statuses
        /\ "validating" \notin TERMINAL_STATUSES
        /\ "waiting_for_compute" \in Stages /\ STAGE_FOR_STATUS["queued"] \in Stages
        /\ "queued" \notin WORKER_OWNED_STATUSES
        /\ "validating" \in WORKER_OWNED_STATUSES
    BY StageType DEF Statuses, ACTIVE_STATUSES, WORKER_OWNED_STATUSES, Stages,
                     TERMINAL_STATUSES
  <1>2. RowOK(requeue(row)) /\ requeue(row).status = "queued"
          /\ requeue(row).token = NoToken
    BY <1>1 DEF requeue, RowOK, Row, Coupled, Staged, Statuses
  <1>3. RowOK(defer_row(row)) /\ defer_row(row).status = "queued"
          /\ defer_row(row).token = NoToken
    BY <1>1 DEF defer_row, RowOK, Row, Coupled, Staged, Statuses
  <1>4. ASSUME NEW t \in Nat \ {NoToken}
        PROVE  /\ RowOK(take_lease(row, t))
               /\ take_lease(row, t).status = "validating"
               /\ take_lease(row, t).token = t
    <2> DEFINE new == set_status(row, "validating", t)
    <2>1. /\ new \in Row /\ new.status = "validating" /\ new.token = t
          /\ new.stage = STAGE_FOR_STATUS["validating"]
      BY <1>1, SetStatusType DEF RowOK
    <2> HIDE DEF new
    <2> DEFINE leased == [new EXCEPT !.lease = "live", !.wait = FALSE]
    <2>2. /\ leased \in Row /\ leased.status = "validating" /\ leased.token = t
          /\ leased.stage = STAGE_FOR_STATUS["validating"] /\ leased.lease = "live"
      BY <2>1 DEF Row
    <2>3. take_lease(row, t) = leased
      BY DEF take_lease, new
    <2> HIDE DEF leased
    <2> QED
      BY <1>1, <2>2, <2>3 DEF RowOK, Coupled, Staged
  <1> QED
    BY <1>2, <1>3, <1>4

\* A worker's transition to the next working status keeps its lease.
LEMMA AdvanceOK ==
  ASSUME NEW row \in Row, RowOK(row), NEW t \in Nat \ {NoToken}, row.token = t,
         NEW s \in {"extracting", "loading", "verifying"}
  PROVE  /\ RowOK(set_status(row, s, t))
         /\ set_status(row, s, t).status = s
         /\ set_status(row, s, t).token = t
  <1>1. s \in Statuses /\ s \notin TERMINAL_STATUSES /\ s \in WORKER_OWNED_STATUSES
    BY DEF Statuses, ACTIVE_STATUSES, WORKER_OWNED_STATUSES, TERMINAL_STATUSES
  <1>2. /\ set_status(row, s, t) \in Row
        /\ set_status(row, s, t).status = s
        /\ set_status(row, s, t).stage = STAGE_FOR_STATUS[s]
        /\ set_status(row, s, t).token = t
        /\ set_status(row, s, t).lease = row.lease
    BY <1>1, SetStatusType DEF RowOK
  <1> QED
    BY <1>1, <1>2 DEF RowOK, Coupled, Staged

------------------------------------------------------------------------------
(* The inductive invariant.                                                 *)

RowsOK == \A r \in Runs : RowOK(run[r])

\* Lease tokens are fresh, and a token names one process and one run.
TokensUnique ==
    /\ nextToken # NoToken
    /\ \A r \in Runs : run[r].token < nextToken
    /\ \A p \in Procs : proc[p].pc \in BusyPcs =>
         /\ proc[p].run \in Runs
         /\ proc[p].token # NoToken /\ proc[p].token < nextToken
         /\ \A r \in Runs : run[r].token = proc[p].token => proc[p].run = r
         /\ \A q \in Procs : proc[q].pc \in BusyPcs /\ proc[q].token = proc[p].token
                               => q = p

\* The status of the row while the worker at pc still holds its lease.
StatusesAt(pc) ==
    IF pc \in {"claimed", "inspect"} THEN {"validating"}
    ELSE IF pc \in {"scan", "ready"} THEN {"extracting"}
    ELSE IF pc \in {"prepare", "batch"} THEN {"loading"}
    ELSE IF pc \in {"verify", "publish", "submitted", "record"} THEN {"verifying"}
    ELSE WORKER_OWNED_STATUSES

HolderInStep ==
    \A p \in Procs :
        proc[p].pc \in BusyPcs /\ RowOf(p).token = proc[p].token
            => RowOf(p).status \in StatusesAt(proc[p].pc)

\* At most one process is past the transition to loading, per run; the row is
\* its own or has ended, and nobody else prepared the destination.
OneLoader ==
    \A p \in Procs : proc[p].pc \in LoadPcs =>
        /\ \/ RowOf(p).status \in TERMINAL_STATUSES
           \/ RowOf(p).status \in {"loading", "verifying"} /\ RowOf(p).token = proc[p].token
        /\ prepared[proc[p].run] \subseteq {proc[p].token}
        /\ \A q \in Procs :
              proc[q].pc \in LoadPcs /\ proc[q].run = proc[p].run => q = p

\* The destination is untouched until the run is loading.
PreparedLate ==
    \A r \in Runs :
        \/ prepared[r] = {}
        \/ run[r].status \in TERMINAL_STATUSES
        \/ run[r].status \in {"loading", "verifying"} /\ prepared[r] \subseteq {run[r].token}

IInv == /\ TypeOK /\ RowsOK /\ TokensUnique /\ HolderInStep
        /\ OneLoader /\ PreparedLate /\ SingleWriter

------------------------------------------------------------------------------
(* Most steps leave tokens and the destination alone: rows keep status and  *)
(* token, begin, or end; processes proceed inside one status or give up.    *)

QuietAdvances ==
    {<<"claimed", "inspect">>, <<"scan", "ready">>, <<"verify", "publish">>,
     <<"publish", "submitted">>, <<"submitted", "record">>}

QuietRow(r) ==
    \/ RowOK(run'[r]) /\ run'[r].status = run[r].status /\ run'[r].token = run[r].token
    \/ Ended(run'[r])
    \/ /\ RowOK(run'[r]) /\ run'[r].token = NoToken
       /\ run[r].status = "absent" /\ run'[r].status = "queued"

SameTask(p) == proc'[p].run = proc[p].run /\ proc'[p].token = proc[p].token

QuietProc(p) ==
    \/ SameTask(p) /\ proc'[p].pc = proc[p].pc
    \/ proc'[p].pc \notin BusyPcs
    \/ SameTask(p) /\ proc[p].pc \in BusyPcs /\ proc'[p].pc \in HandlerPcs
    \/ SameTask(p) /\ <<proc[p].pc, proc'[p].pc>> \in QuietAdvances

QuietStep ==
    /\ \A r \in Runs : QuietRow(r)
    /\ \A p \in Procs : QuietProc(p)
    /\ nextToken' = nextToken
    /\ prepared' = prepared

\* A quiet step preserves every part of the invariant.
LEMMA QuietKeeps ==
  ASSUME IInv, TypeOK', QuietStep
  PROVE  IInv'
  <1> USE DEF IInv
  <1>1. RowsOK'
    BY DEF RowsOK, QuietStep, QuietRow, Ended
  <1>a. \A r \in Runs : run'[r].token = run[r].token \/ run'[r].token = NoToken
    BY DEF QuietStep, QuietRow, Ended
  <1>b. \A p \in Procs : proc'[p].pc \in BusyPcs => proc[p].pc \in BusyPcs /\ SameTask(p)
    BY DEF QuietStep, QuietProc, QuietAdvances, BusyPcs, EarlyPcs, LoadPcs
  <1>c. \A p \in Procs : proc'[p].pc \in LoadPcs => proc[p].pc \in LoadPcs /\ SameTask(p)
    BY DEF QuietStep, QuietProc, QuietAdvances, BusyPcs, EarlyPcs, LoadPcs, HandlerPcs
  <1>d. LoadPcs \subseteq BusyPcs
    BY DEF BusyPcs
  <1>2. TokensUnique'
    BY <1>a, <1>b DEF TokensUnique, QuietStep, SameTask, TypeOK
  <1>3. HolderInStep'
    <2> SUFFICES ASSUME NEW p \in Procs, proc'[p].pc \in BusyPcs,
                        RowOf(p)'.token = proc'[p].token
                 PROVE  RowOf(p)'.status \in StatusesAt(proc'[p].pc)
      BY DEF HolderInStep
    <2>1. proc[p].pc \in BusyPcs /\ SameTask(p) /\ proc[p].run \in Runs
          /\ proc[p].token # NoToken
      BY <1>b DEF TokensUnique
    <2>2. RowOf(p)'.token # NoToken /\ RowOf(p)' = run'[proc[p].run]
      BY <2>1 DEF SameTask, RowOf
    <2>3. RowOf(p)'.status = RowOf(p).status /\ RowOf(p)'.token = RowOf(p).token
      BY <2>1, <2>2 DEF QuietStep, QuietRow, Ended, RowOf
    <2>4. RowOf(p).status \in StatusesAt(proc[p].pc)
      BY <2>1, <2>3 DEF HolderInStep, SameTask
    <2>5. CASE proc'[p].pc = proc[p].pc
      BY <2>3, <2>4, <2>5
    <2>6. CASE proc'[p].pc \in HandlerPcs
      BY <2>3, <2>4, <2>6 DEF StatusesAt, HandlerPcs, WORKER_OWNED_STATUSES
    <2>7. CASE <<proc[p].pc, proc'[p].pc>> \in QuietAdvances
      BY <2>3, <2>4, <2>7 DEF StatusesAt, QuietAdvances
    <2> QED
      BY <2>1, <2>5, <2>6, <2>7 DEF QuietStep, QuietProc
  <1>4. OneLoader'
    <2> SUFFICES ASSUME NEW p \in Procs, proc'[p].pc \in LoadPcs
                 PROVE  /\ \/ RowOf(p)'.status \in TERMINAL_STATUSES
                           \/ /\ RowOf(p)'.status \in {"loading", "verifying"}
                              /\ RowOf(p)'.token = proc'[p].token
                        /\ prepared'[proc'[p].run] \subseteq {proc'[p].token}
                        /\ \A q \in Procs :
                              proc'[q].pc \in LoadPcs /\ proc'[q].run = proc'[p].run => q = p
      BY DEF OneLoader
    <2>1. proc[p].pc \in LoadPcs /\ SameTask(p) /\ proc[p].run \in Runs
      BY <1>c, <1>d DEF TokensUnique
    <2>2. \/ RowOf(p).status \in TERMINAL_STATUSES
          \/ RowOf(p).status \in {"loading", "verifying"} /\ RowOf(p).token = proc[p].token
      BY <2>1 DEF OneLoader
    <2>3. RowOf(p).status # "absent"
      BY <2>2 DEF TERMINAL_STATUSES
    <2>4. \/ RowOf(p)'.status \in TERMINAL_STATUSES
          \/ /\ RowOf(p)'.status \in {"loading", "verifying"}
             /\ RowOf(p)'.token = proc'[p].token
      BY <2>1, <2>2, <2>3 DEF QuietStep, QuietRow, Ended, RowOf, SameTask
    <2>5. prepared'[proc'[p].run] \subseteq {proc'[p].token}
      BY <2>1 DEF OneLoader, SameTask, QuietStep
    <2>6. \A q \in Procs :
             proc'[q].pc \in LoadPcs /\ proc'[q].run = proc'[p].run => q = p
      BY <2>1, <1>c DEF OneLoader, SameTask
    <2> QED
      BY <2>4, <2>5, <2>6
  <1>5. PreparedLate'
    <2> SUFFICES ASSUME NEW r \in Runs
                 PROVE  \/ prepared'[r] = {}
                        \/ run'[r].status \in TERMINAL_STATUSES
                        \/ /\ run'[r].status \in {"loading", "verifying"}
                           /\ prepared'[r] \subseteq {run'[r].token}
      BY DEF PreparedLate
    <2> QED
      BY DEF PreparedLate, QuietStep, QuietRow, Ended, TERMINAL_STATUSES
  <1>6. SingleWriter'
    BY DEF SingleWriter, QuietStep
  <1> QED
    BY <1>1, <1>2, <1>3, <1>4, <1>5, <1>6

\* A step that writes one row and leaves the processes alone.
LEMMA RowWrite ==
  ASSUME IInv, NEW r \in Runs, NEW row,
         SetRow(r, row),
         \/ RowOK(row) /\ row.status = run[r].status /\ row.token = run[r].token
         \/ Ended(row)
         \/ /\ RowOK(row) /\ row.token = NoToken
            /\ run[r].status = "absent" /\ row.status = "queued"
  PROVE  run' \in [Runs -> Row] /\ \A q \in Runs : QuietRow(q)
  <1>1. run \in [Runs -> Row] /\ row \in Row
    BY DEF IInv, TypeOK, Ended, RowOK
  <1>2. run' = [run EXCEPT ![r] = row]
    BY DEF SetRow
  <1>3. \A q \in Runs : RowOK(run[q])
    BY DEF IInv, RowsOK
  <1>4. ASSUME NEW q \in Runs
        PROVE  QuietRow(q)
    BY <1>1, <1>2, <1>3 DEF QuietRow
  <1> QED
    BY <1>1, <1>2, <1>4

\* With the table unchanged every row is quiet.
LEMMA NoRowWrite ==
  ASSUME IInv, UNCHANGED run
  PROVE  run' \in [Runs -> Row] /\ \A q \in Runs : QuietRow(q)
  BY DEF IInv, TypeOK, RowsOK, QuietRow

\* With the processes unchanged every process is quiet.
LEMMA NoProcWrite ==
  ASSUME IInv, UNCHANGED proc
  PROVE  proc' \in [Procs -> Proc] /\ \A q \in Procs : QuietProc(q)
  BY DEF IInv, TypeOK, QuietProc, SameTask

\* A step that changes one process quietly.
LEMMA ProcWrite ==
  ASSUME IInv, NEW p \in Procs, NEW new \in Proc,
         proc' = [proc EXCEPT ![p] = new],
         \/ /\ new.run = proc[p].run /\ new.token = proc[p].token
            /\ \/ new.pc = proc[p].pc
               \/ proc[p].pc \in BusyPcs /\ new.pc \in HandlerPcs
               \/ <<proc[p].pc, new.pc>> \in QuietAdvances
         \/ new.pc \notin BusyPcs
  PROVE  proc' \in [Procs -> Proc] /\ \A q \in Procs : QuietProc(q)
  <1>1. proc \in [Procs -> Proc]
    BY DEF IInv, TypeOK
  <1>2. ASSUME NEW q \in Procs
        PROVE  QuietProc(q)
    BY <1>1 DEF QuietProc, SameTask
  <1> QED
    BY <1>1, <1>2

\* Finish and Crash leave a process without a task.
LEMMA TasklessProc ==
  /\ Idle \in Proc /\ Idle.pc \notin BusyPcs
  /\ Down \in Proc /\ Down.pc \notin BusyPcs
  BY DEF Idle, Down, Proc, BusyPcs, EarlyPcs, LoadPcs, HandlerPcs

\* A process that finishes its task is idle again.
LEMMA FinishQuiet ==
  ASSUME IInv, NEW p \in Procs, Finish(p)
  PROVE  proc' \in [Procs -> Proc] /\ \A q \in Procs : QuietProc(q)
  BY TasklessProc, ProcWrite DEF Finish

\* Raising an exception moves a busy process to its handler.
LEMMA RaiseQuiet ==
  ASSUME IInv, NEW p \in Procs, proc[p].pc \in BusyPcs,
         NEW code \in Codes \cup {"conflict"}, NEW retry \in BOOLEAN,
         Raise(p, code, retry)
  PROVE  proc' \in [Procs -> Proc] /\ \A q \in Procs : QuietProc(q)
  <1> DEFINE new == [proc[p] EXCEPT !.pc = "abort", !.exc = code, !.retry = retry]
  <1>1. proc[p] \in Proc
    BY DEF IInv, TypeOK
  <1>2. new \in Proc /\ new.run = proc[p].run /\ new.token = proc[p].token
        /\ new.pc \in HandlerPcs
    BY <1>1 DEF Proc, BusyPcs, HandlerPcs
  <1>3. proc' = [proc EXCEPT ![p] = new]
    BY <1>1 DEF Raise, IInv, TypeOK
  <1> HIDE DEF new
  <1> QED
    BY <1>2, <1>3, ProcWrite

\* Moving to the next pc inside one status.
LEMMA GotoQuiet ==
  ASSUME IInv, NEW p \in Procs, NEW pc \in BusyPcs, Goto(p, pc),
         \/ <<proc[p].pc, pc>> \in QuietAdvances
         \/ proc[p].pc \in BusyPcs /\ pc \in HandlerPcs
  PROVE  proc' \in [Procs -> Proc] /\ \A q \in Procs : QuietProc(q)
  <1> DEFINE new == [proc[p] EXCEPT !.pc = pc]
  <1>1. proc[p] \in Proc
    BY DEF IInv, TypeOK
  <1>2. new \in Proc /\ new.run = proc[p].run /\ new.token = proc[p].token
        /\ new.pc = pc
    BY <1>1 DEF Proc
  <1>3. proc' = [proc EXCEPT ![p] = new]
    BY <1>1 DEF Goto, IInv, TypeOK
  <1> HIDE DEF new
  <1> QED
    BY <1>2, <1>3, ProcWrite

\* How a quiet step is put together from its row part, its process part and
\* the variables that neither touches.
LEMMA QuietAction ==
  ASSUME IInv,
         run' \in [Runs -> Row] /\ \A r \in Runs : QuietRow(r),
         proc' \in [Procs -> Proc] /\ \A p \in Procs : QuietProc(p),
         UNCHANGED <<nextToken, prepared>>,
         stopping' \subseteq Procs,
         inflight' \in [Runs -> SUBSET Nat], published' \in [Runs -> SUBSET Nat],
         ownerActive' \in BOOLEAN, faults' \in Nat
  PROVE  IInv'
  <1>1. TypeOK'
    BY DEF IInv, TypeOK
  <1>2. QuietStep
    BY DEF QuietStep
  <1> QED
    BY <1>1, <1>2, QuietKeeps

\* A fault keeps the count a natural number.
LEMMA FaultType ==
  ASSUME IInv, Fault
  PROVE  faults' \in Nat
  BY DEF IInv, TypeOK, Fault

------------------------------------------------------------------------------
(* The owner, the operator, the janitor, the provider, time.                *)

\* The steps on one run that no process takes preserve the invariant.
LEMMA RunSteps ==
  ASSUME IInv, NEW r \in Runs,
         \/ enqueue_run(r) \/ request_cancel(r) \/ record_reconciliation_review(r)
         \/ janitor(r) \/ Land(r) \/ AttemptDue(r) \/ LeaseExpires(r)
  PROVE  IInv'
  <1>0. /\ run[r] \in Row /\ RowOK(run[r]) /\ TypeOK
    BY DEF IInv, TypeOK, RowsOK
  <1>1. CASE enqueue_run(r)
    <2>1. NewRow \in Row
      BY StageType DEF NewRow, Row, Statuses, ACTIVE_STATUSES, Impacts
    <2>2. RowOK(NewRow) /\ NewRow.status = "queued" /\ NewRow.token = NoToken
      BY <2>1 DEF RowOK, Coupled, Staged, NewRow, WORKER_OWNED_STATUSES
    <2>3. SetRow(r, NewRow) /\ run[r].status = "absent"
      BY <1>1 DEF enqueue_run
    <2>4. UNCHANGED <<proc, stopping, nextToken, prepared, inflight, published,
                      ownerActive, faults>>
      BY <1>1 DEF enqueue_run, destination
    <2> QED
      BY <1>0, <2>2, <2>3, <2>4, RowWrite, NoProcWrite, QuietAction DEF TypeOK
  <1>2. CASE request_cancel(r)
    <2> DEFINE flagged == [run[r] EXCEPT !.cancel = TRUE]
    <2>1. flagged \in Row /\ RowOK(flagged) /\ flagged.status = run[r].status
          /\ flagged.token = run[r].token
      BY <1>0 DEF Row, RowOK, Coupled, Staged
    <2>2. Ended(cancel_before_destination_work(flagged))
      BY <2>1, TerminalOperations
    <2>3. request_cancel_row(run[r]) \in {flagged, cancel_before_destination_work(flagged)}
      BY DEF request_cancel_row
    <2>4. SetRow(r, request_cancel_row(run[r]))
          /\ UNCHANGED <<proc, stopping, nextToken, prepared, inflight, published,
                         ownerActive, faults>>
      BY <1>2 DEF request_cancel, destination
    <2> HIDE DEF flagged
    <2> QED
      BY <1>0, <2>1, <2>2, <2>3, <2>4, RowWrite, NoProcWrite, QuietAction DEF TypeOK
  <1>3. CASE record_reconciliation_review(r)
    <2> DEFINE new == [run[r] EXCEPT !.reviewed = TRUE]
    <2>1. new \in Row /\ RowOK(new) /\ new.status = run[r].status
          /\ new.token = run[r].token
      BY <1>0 DEF Row, RowOK, Coupled, Staged
    <2>2. SetRow(r, new)
          /\ UNCHANGED <<proc, stopping, nextToken, prepared, inflight, published,
                         ownerActive, faults>>
      BY <1>3 DEF record_reconciliation_review, destination
    <2> HIDE DEF new
    <2> QED
      BY <1>0, <2>1, <2>2, RowWrite, NoProcWrite, QuietAction DEF TypeOK
  <1>4. CASE janitor(r)
    <2> DEFINE new == [run[r] EXCEPT !.gone = TRUE]
    <2>1. new \in Row /\ RowOK(new) /\ new.status = run[r].status
          /\ new.token = run[r].token
      BY <1>0 DEF Row, RowOK, Coupled, Staged
    <2>2. SetRow(r, new)
          /\ UNCHANGED <<proc, stopping, nextToken, prepared, inflight, published,
                         ownerActive, faults>>
      BY <1>4 DEF janitor, destination
    <2> HIDE DEF new
    <2> QED
      BY <1>0, <2>1, <2>2, RowWrite, NoProcWrite, QuietAction DEF TypeOK
  <1>5. CASE Land(r)
    <2>1. UNCHANGED <<run, proc, stopping, nextToken, prepared, ownerActive, faults>>
      BY <1>5 DEF Land
    <2>2. inflight' \in [Runs -> SUBSET Nat] /\ published' \in [Runs -> SUBSET Nat]
      BY <1>0, <1>5 DEF Land, TypeOK
    <2> QED
      BY <1>0, <2>1, <2>2, NoRowWrite, NoProcWrite, QuietAction DEF TypeOK
  <1>6. CASE AttemptDue(r)
    <2> DEFINE new == [run[r] EXCEPT !.wait = FALSE]
    <2>1. new \in Row /\ RowOK(new) /\ new.status = run[r].status
          /\ new.token = run[r].token
      BY <1>0 DEF Row, RowOK, Coupled, Staged
    <2>2. SetRow(r, new)
          /\ UNCHANGED <<proc, stopping, nextToken, prepared, inflight, published,
                         ownerActive, faults>>
      BY <1>6 DEF AttemptDue, destination
    <2> HIDE DEF new
    <2> QED
      BY <1>0, <2>1, <2>2, RowWrite, NoProcWrite, QuietAction DEF TypeOK
  <1>7. CASE LeaseExpires(r)
    <2> DEFINE new == [run[r] EXCEPT !.lease = "expired"]
    <2>1. new \in Row /\ RowOK(new) /\ new.status = run[r].status
          /\ new.token = run[r].token
      BY <1>0, <1>7 DEF Row, RowOK, Coupled, Staged, LeaseExpires
    <2>2. SetRow(r, new)
          /\ UNCHANGED <<proc, stopping, nextToken, prepared, inflight, published,
                         ownerActive>>
      BY <1>7 DEF LeaseExpires, destination
    <2>3. faults' \in Nat
      BY <1>0, <1>7, FaultType DEF LeaseExpires, TypeOK
    <2> HIDE DEF new
    <2> QED
      BY <1>0, <2>1, <2>2, <2>3, RowWrite, NoProcWrite, QuietAction DEF TypeOK
  <1> QED
    BY <1>1, <1>2, <1>3, <1>4, <1>5, <1>6, <1>7

------------------------------------------------------------------------------
(* Steps of a process that are quiet.                                       *)

\* A busy process has a run, and its row is well-formed.
LEMMA BusyTask ==
  ASSUME IInv, NEW p \in Procs, proc[p].pc \in BusyPcs
  PROVE  /\ proc[p].run \in Runs /\ proc[p].token \in Nat /\ proc[p].token # NoToken
         /\ proc[p] \in Proc /\ RowOf(p) \in Row /\ RowOK(RowOf(p))
         /\ RowOf(p) = run[proc[p].run]
  BY DEF IInv, TypeOK, TokensUnique, RowsOK, RowOf, Proc

\* Every pc but idle and down belongs to a busy process.
LEMMA PcFacts ==
  /\ EarlyPcs \subseteq BusyPcs /\ LoadPcs \subseteq BusyPcs /\ HandlerPcs \subseteq BusyPcs
  /\ EarlyPcs = {"claimed", "inspect", "scan", "ready"}
  /\ LoadPcs = {"prepare", "batch", "verify", "publish", "submitted", "record"}
  /\ HandlerPcs = {"abort", "report"}
  BY DEF EarlyPcs, LoadPcs, HandlerPcs, BusyPcs

\* A process that ends its run, writes the outcome and is done.
LEMMA EndsRun ==
  ASSUME IInv, NEW p \in Procs, proc[p].pc \in BusyPcs, NEW row,
         Ended(row) \/ row = RowOf(p), SetRow(proc[p].run, row), Finish(p),
         UNCHANGED <<stopping, nextToken, prepared, inflight, published, ownerActive, faults>>
  PROVE  IInv'
  <1>1. proc[p].run \in Runs /\ RowOK(RowOf(p)) /\ RowOf(p) = run[proc[p].run] /\ TypeOK
    BY BusyTask DEF IInv
  <1> QED
    BY <1>1, RowWrite, FinishQuiet, QuietAction DEF TypeOK

\* A process that proceeds inside one status, or into a handler, and writes
\* nothing to the table.
LEMMA ProceedsQuietly ==
  ASSUME IInv, UNCHANGED run,
         proc' \in [Procs -> Proc] /\ \A q \in Procs : QuietProc(q),
         UNCHANGED <<stopping, nextToken, prepared, ownerActive>>,
         inflight' \in [Runs -> SUBSET Nat], published' = published, faults' \in Nat
  PROVE  IInv'
  <1>1. TypeOK
    BY DEF IInv
  <1> QED
    BY <1>1, NoRowWrite, QuietAction DEF TypeOK

\* What cancel_claimed_run may be told about the destination.
LEMMA CancelImpacts ==
  {"uncertain", "unchanged", "rolled_back"} \subseteq Impacts
  BY DEF Impacts

\* The steps before the load that keep the status or end the run.
LEMMA EarlySteps ==
  ASSUME IInv, NEW p \in Procs,
         \/ OwnerInactive(p) \/ CancelEarly(p) \/ StartTransfer(p) \/ BlockRun(p)
         \/ RecordGuardrailReview(p)
  PROVE  IInv'
  <1>0. TypeOK /\ "claimed" \in BusyPcs /\ "inspect" \in BusyPcs /\ "scan" \in BusyPcs
        /\ "ready" \in BusyPcs
    BY PcFacts DEF IInv
  <1>1. CASE OwnerInactive(p) \/ CancelEarly(p)
    <2>1. proc[p].pc \in BusyPcs
      BY <1>0, <1>1, PcFacts DEF OwnerInactive, CancelEarly
    <2>2. default_cancel_impact(RowOf(p)) \in Impacts
      BY CancelImpacts DEF default_cancel_impact
    <2>3. Ended(cancel_claimed_row(RowOf(p), default_cancel_impact(RowOf(p))))
      BY <2>1, <2>2, BusyTask, TerminalOperations
    <2> QED
      BY <1>1, <2>1, <2>3, EndsRun DEF OwnerInactive, CancelEarly, destination
  <1>2. CASE StartTransfer(p)
    <2>1. proc' \in [Procs -> Proc] /\ \A q \in Procs : QuietProc(q)
      BY <1>0, <1>2, GotoQuiet DEF StartTransfer, QuietAdvances
    <2> QED
      BY <1>0, <1>2, <2>1, ProceedsQuietly DEF StartTransfer, destination, TypeOK
  <1>3. CASE BlockRun(p)
    <2>1. proc[p].pc \in BusyPcs
      BY <1>0, <1>3 DEF BlockRun
    <2>2. Ended(block_row(RowOf(p)))
      BY <2>1, BusyTask, TerminalOperations
    <2> QED
      BY <1>3, <2>1, <2>2, EndsRun DEF BlockRun, destination
  <1>4. CASE RecordGuardrailReview(p)
    <2>1. proc' \in [Procs -> Proc] /\ \A q \in Procs : QuietProc(q)
      BY <1>0, <1>4, GotoQuiet DEF RecordGuardrailReview, QuietAdvances
    <2> QED
      BY <1>0, <1>4, <2>1, ProceedsQuietly DEF RecordGuardrailReview, destination, TypeOK
  <1> QED
    BY <1>1, <1>2, <1>3, <1>4

\* Loading a batch and the steps of finalize up to the answer.
LEMMA LoadSteps ==
  ASSUME IInv, NEW p \in Procs,
         \/ LoadBatch(p) \/ EnterFinalize(p) \/ Submit(p) \/ FinalizeConfirmed(p)
         \/ FinalizeUnconfirmed(p) \/ UploadRejected(p)
  PROVE  IInv'
  <1>0. TypeOK /\ {"batch", "verify", "publish", "submitted", "record"} \subseteq BusyPcs
        /\ {"publish_uncertain", "provider"} \subseteq Codes
    BY PcFacts DEF IInv, Codes
  <1>1. CASE LoadBatch(p)
    <2> DEFINE new == [RowOf(p) EXCEPT !.loaded = TRUE]
    <2>1. proc[p].pc \in BusyPcs
      BY <1>0, <1>1 DEF LoadBatch
    <2>2. RowOf(p) \in Row /\ RowOK(RowOf(p)) /\ proc[p].run \in Runs
          /\ RowOf(p) = run[proc[p].run]
      BY <2>1, BusyTask
    <2>3. RowOK(new) /\ new.status = RowOf(p).status /\ new.token = RowOf(p).token
      BY <2>2 DEF Row, RowOK, Coupled, Staged
    <2>4. SetRow(proc[p].run, new)
          /\ UNCHANGED <<proc, stopping, nextToken, prepared, inflight, published,
                         ownerActive, faults>>
      BY <1>1 DEF LoadBatch, destination
    <2> HIDE DEF new
    <2>5. run' \in [Runs -> Row] /\ \A q \in Runs : QuietRow(q)
      BY <2>2, <2>3, <2>4, RowWrite
    <2> QED
      BY <1>0, <2>4, <2>5, NoProcWrite, QuietAction DEF TypeOK
  <1>2. CASE EnterFinalize(p)
    <2>1. proc' \in [Procs -> Proc] /\ \A q \in Procs : QuietProc(q)
      BY <1>0, <1>2, GotoQuiet DEF EnterFinalize, QuietAdvances
    <2> QED
      BY <1>0, <1>2, <2>1, ProceedsQuietly DEF EnterFinalize, destination, TypeOK
  <1>3. CASE Submit(p)
    <2> DEFINE new == [proc[p] EXCEPT !.pc = "submitted", !.sess = "submitted"]
    <2>1. proc[p].pc = "publish" /\ proc[p] \in Proc /\ proc[p].token \in Nat
      BY <1>0, <1>3, BusyTask DEF Submit
    <2>2. new \in Proc /\ new.pc = "submitted" /\ new.run = proc[p].run
          /\ new.token = proc[p].token
      BY <1>0, <2>1 DEF Proc
    <2>3. proc' = [proc EXCEPT ![p] = new]
      BY <1>0, <1>3 DEF Submit, TypeOK
    <2> HIDE DEF new
    <2>4. proc' \in [Procs -> Proc] /\ \A q \in Procs : QuietProc(q)
      BY <2>1, <2>2, <2>3, ProcWrite DEF QuietAdvances
    <2>5. inflight' \in [Runs -> SUBSET Nat]
      BY <1>0, <1>3, <2>1 DEF Submit, TypeOK
    <2> QED
      BY <1>0, <1>3, <2>4, <2>5, ProceedsQuietly DEF Submit, TypeOK
  <1>4. CASE FinalizeConfirmed(p)
    <2> DEFINE new == [proc[p] EXCEPT !.pc = "record", !.committed = TRUE,
                                      !.sess = "closed"]
    <2>1. proc[p].pc = "submitted" /\ proc[p] \in Proc
      BY <1>0, <1>4, BusyTask DEF FinalizeConfirmed
    <2>2. new \in Proc /\ new.pc = "record" /\ new.run = proc[p].run
          /\ new.token = proc[p].token
      BY <1>0, <2>1 DEF Proc
    <2>3. proc' = [proc EXCEPT ![p] = new]
      BY <1>0, <1>4 DEF FinalizeConfirmed, TypeOK
    <2> HIDE DEF new
    <2>4. proc' \in [Procs -> Proc] /\ \A q \in Procs : QuietProc(q)
      BY <2>1, <2>2, <2>3, ProcWrite DEF QuietAdvances
    <2> QED
      BY <1>0, <1>4, <2>4, ProceedsQuietly DEF FinalizeConfirmed, destination, TypeOK
  <1>5. CASE FinalizeUnconfirmed(p)
    <2>1. proc' \in [Procs -> Proc] /\ \A q \in Procs : QuietProc(q)
      BY <1>0, <1>5, RaiseQuiet DEF FinalizeUnconfirmed
    <2> QED
      BY <1>0, <1>5, <2>1, ProceedsQuietly DEF FinalizeUnconfirmed, destination, TypeOK
  <1>6. CASE UploadRejected(p)
    <2>1. proc' \in [Procs -> Proc] /\ \A q \in Procs : QuietProc(q)
      BY <1>0, <1>6, RaiseQuiet DEF UploadRejected
    <2>2. inflight' \in [Runs -> SUBSET Nat]
      BY <1>0, <1>6 DEF UploadRejected, TypeOK
    <2> QED
      BY <1>0, <1>6, <2>1, <2>2, ProceedsQuietly DEF UploadRejected, TypeOK
  <1> QED
    BY <1>1, <1>2, <1>3, <1>4, <1>5, <1>6

\* Recording an outcome, cancelling during the load, and everything the
\* exception handlers do short of a deferral.
LEMMA HandlerSteps ==
  ASSUME IInv, NEW p \in Procs,
         \/ CancelAfterAbort(p) \/ RecordOutcome(p) \/ StepFails(p) \/ LeaseRefused(p)
         \/ LedgerRefused(p) \/ AbortSession(p) \/ ReportFailure(p)
  PROVE  IInv'
  <1>0. /\ TypeOK /\ proc[p] \in Proc
        /\ {"batch", "verify", "record", "abort", "report", "prepare", "publish"}
             \subseteq BusyPcs
        /\ "internal_error" \in Codes /\ "worker_lost" \in Codes
        /\ {"verified", "changed"} \subseteq Impacts
    BY PcFacts DEF IInv, TypeOK, Codes, Impacts
  <1>1. CASE CancelAfterAbort(p)
    <2>1. proc[p].pc \in BusyPcs
      BY <1>0, <1>1 DEF CancelAfterAbort
    <2>2. PICK answer \in AbortAnswers(p) :
            IF HasLease(p)
            THEN /\ SetRow(proc[p].run,
                        cancel_claimed_row(RowOf(p),
                            IF answer = "uncertain" THEN "uncertain"
                            ELSE IF RowOf(p).loaded THEN "rolled_back"
                            ELSE "unchanged"))
                 /\ Finish(p)
            ELSE /\ proc' = [proc EXCEPT ![p].pc = "abort", ![p].exc = "conflict",
                                         ![p].sess = "closed"]
                 /\ UNCHANGED run
      BY <1>1 DEF CancelAfterAbort
    <2>3. UNCHANGED <<stopping, nextToken, prepared, inflight, published, ownerActive, faults>>
      BY <1>1 DEF CancelAfterAbort, destination
    <2>4. CASE HasLease(p)
      <3> DEFINE impact == IF answer = "uncertain" THEN "uncertain"
                           ELSE IF RowOf(p).loaded THEN "rolled_back" ELSE "unchanged"
      <3>1. impact \in Impacts
        BY CancelImpacts
      <3>2. Ended(cancel_claimed_row(RowOf(p), impact))
        BY <2>1, <3>1, BusyTask, TerminalOperations
      <3> QED
        BY <2>1, <2>2, <2>3, <2>4, <3>2, EndsRun
    <2>5. CASE ~HasLease(p)
      <3> DEFINE new == [proc[p] EXCEPT !.pc = "abort", !.exc = "conflict", !.sess = "closed"]
      <3>1. new \in Proc /\ new.pc \in HandlerPcs /\ new.run = proc[p].run
            /\ new.token = proc[p].token
        BY <1>0, PcFacts DEF Proc
      <3>2. proc' = [proc EXCEPT ![p] = new] /\ UNCHANGED run
        BY <1>0, <2>2, <2>5 DEF TypeOK
      <3> HIDE DEF new
      <3>3. proc' \in [Procs -> Proc] /\ \A q \in Procs : QuietProc(q)
        BY <2>1, <3>1, <3>2, ProcWrite
      <3> QED
        BY <1>0, <2>3, <3>2, <3>3, ProceedsQuietly DEF TypeOK
    <2> QED
      BY <2>4, <2>5
  <1>2. CASE RecordOutcome(p)
    <2>1. proc[p].pc \in BusyPcs /\ proc[p].run \in Runs
      BY <1>0, <1>2, BusyTask DEF RecordOutcome
    <2>2. PICK row : Ended(row) /\ SetRow(proc[p].run, row)
      BY <1>0, <1>2, <2>1, BusyTask, TerminalOperations DEF RecordOutcome
    <2>3. UNCHANGED <<stopping, nextToken, prepared, inflight, published, ownerActive, faults>>
      BY <1>2 DEF RecordOutcome, destination
    <2>4. CASE Finish(p)
      BY <2>1, <2>2, <2>3, <2>4, EndsRun
    <2>5. CASE Raise(p, "internal_error", FALSE)
      <3>1. run' \in [Runs -> Row] /\ \A q \in Runs : QuietRow(q)
        BY <2>1, <2>2, RowWrite
      <3>2. proc' \in [Procs -> Proc] /\ \A q \in Procs : QuietProc(q)
        BY <1>0, <2>1, <2>5, RaiseQuiet
      <3> QED
        BY <1>0, <2>3, <3>1, <3>2, QuietAction DEF TypeOK
    <2> QED
      BY <1>2, <2>4, <2>5 DEF RecordOutcome
  <1>3. CASE StepFails(p)
    <2>1. PICK e \in ErrorsAt(proc[p].pc) : Raise(p, e[1], e[2])
      BY <1>3 DEF StepFails
    <2>a. e \in Codes \X BOOLEAN
      BY DEF ErrorsAt, Codes
    <2>b. proc[p].pc \in BusyPcs
      BY <1>0, PcFacts DEF ErrorsAt
    <2>2. proc[p].pc \in BusyPcs /\ e[1] \in Codes /\ e[2] \in BOOLEAN
      BY <2>a, <2>b
    <2>3. proc' \in [Procs -> Proc] /\ \A q \in Procs : QuietProc(q)
      BY <2>1, <2>2, RaiseQuiet
    <2> QED
      BY <1>0, <1>3, <2>3, ProceedsQuietly DEF StepFails, destination, TypeOK
  <1>4. CASE LeaseRefused(p)
    <2>1. proc[p].pc \in BusyPcs
      BY <1>0, <1>4, PcFacts DEF LeaseRefused
    <2>2. proc' \in [Procs -> Proc] /\ \A q \in Procs : QuietProc(q)
      BY <1>4, <2>1, RaiseQuiet DEF LeaseRefused
    <2> QED
      BY <1>0, <1>4, <2>2, ProceedsQuietly DEF LeaseRefused, destination, TypeOK
  <1>5. CASE LedgerRefused(p)
    <2>1. proc' \in [Procs -> Proc] /\ \A q \in Procs : QuietProc(q)
      BY <1>0, <1>5, RaiseQuiet DEF LedgerRefused
    <2> QED
      BY <1>0, <1>5, <2>1, ProceedsQuietly DEF LedgerRefused, destination, TypeOK
  <1>6. CASE AbortSession(p)
    <2>1. proc[p].pc = "abort" /\ UNCHANGED <<run, stopping, nextToken, prepared, inflight,
                                              published, ownerActive, faults>>
      BY <1>6 DEF AbortSession, destination
    <2>2. CASE proc[p].sess = "none"
      <3>1. proc' \in [Procs -> Proc] /\ \A q \in Procs : QuietProc(q)
        BY <1>0, <1>6, <2>1, <2>2, PcFacts, GotoQuiet DEF AbortSession
      <3> QED
        BY <1>0, <2>1, <3>1, ProceedsQuietly DEF TypeOK
    <2>3. CASE proc[p].sess # "none"
      <3>1. PICK answer \in AbortAnswers(p) :
              LET unsure == \/ proc[p].committed
                            \/ answer = "uncertain" /\ proc[p].exc # "conflict"
              IN  proc' = [proc EXCEPT
                     ![p].pc     = "report",
                     ![p].sess   = IF @ = "open" THEN "closed" ELSE @,
                     ![p].exc    = IF unsure THEN "publish_uncertain" ELSE @,
                     ![p].retry  = @ /\ ~unsure,
                     ![p].rolled = ~unsure /\ proc[p].exc # "conflict"]
        BY <1>6, <2>3 DEF AbortSession
      <3> DEFINE unsure == \/ proc[p].committed
                           \/ answer = "uncertain" /\ proc[p].exc # "conflict"
                 sess   == IF proc[p].sess = "open" THEN "closed" ELSE proc[p].sess
                 exc    == IF unsure THEN "publish_uncertain" ELSE proc[p].exc
                 retry  == proc[p].retry /\ ~unsure
                 rolled == ~unsure /\ proc[p].exc # "conflict"
                 new    == [proc[p] EXCEPT !.pc = "report", !.sess = sess, !.exc = exc,
                                           !.retry = retry, !.rolled = rolled]
      <3>2. proc' = [proc EXCEPT ![p] = new]
        BY <1>0, <3>1 DEF TypeOK, Proc
      <3>a. sess \in {"none", "open", "submitted", "closed"}
            /\ exc \in Codes \cup {"none", "conflict"}
            /\ retry \in BOOLEAN /\ rolled \in BOOLEAN
        BY <1>0 DEF Proc, Codes
      <3> HIDE DEF sess, exc, retry, rolled
      <3>b. proc[p] \in Proc /\ "report" \in BusyPcs
        BY <1>0 DEF TypeOK, BusyPcs
      <3>3. new \in Proc /\ new.pc = "report"
            /\ new.run = proc[p].run /\ new.token = proc[p].token
        <4>1. new = [proc[p] EXCEPT !.pc = "report", !.sess = sess, !.exc = exc,
                                    !.retry = retry, !.rolled = rolled]
          OBVIOUS
        <4> HIDE DEF new
        <4>2. PICK s \in {"none", "open", "submitted", "closed"},
                   e \in Codes \cup {"none", "conflict"}, t \in BOOLEAN, b \in BOOLEAN :
                new = [proc[p] EXCEPT !.pc = "report", !.sess = s, !.exc = e, !.retry = t,
                                      !.rolled = b]
          BY <3>a, <4>1, Zenon
        <4> QED
          BY <3>b, <4>2 DEF Proc
      <3> HIDE DEF new
      <3>4. proc' \in [Procs -> Proc] /\ \A q \in Procs : QuietProc(q)
        BY <1>0, <2>1, <3>2, <3>3, PcFacts, ProcWrite
      <3> QED
        BY <1>0, <2>1, <3>4, ProceedsQuietly DEF TypeOK
    <2> QED
      BY <2>2, <2>3
  <1>7. CASE ReportFailure(p)
    <2>1. proc[p].pc \in BusyPcs /\ RowOf(p) \in Row
      BY <1>0, <1>7, BusyTask DEF ReportFailure
    <2>2. proc[p].retry \in BOOLEAN /\ proc[p].rolled \in BOOLEAN
      BY <1>0 DEF Proc
    <2>3. Ended(ReportedRow(p)) \/ ReportedRow(p) = RowOf(p)
      BY <2>1, <2>2, TerminalOperations DEF ReportedRow
    <2> QED
      BY <1>7, <2>1, <2>3, EndsRun DEF ReportFailure, destination
  <1> QED
    BY <1>1, <1>2, <1>3, <1>4, <1>5, <1>6, <1>7

\* The keeper, shutdown, a crash and a restart.
LEMMA ProcessSteps ==
  ASSUME IInv, NEW p \in Procs,
         KeeperGivesUp(p) \/ Shutdown(p) \/ Crash(p) \/ Restart(p)
  PROVE  IInv'
  <1>0. TypeOK /\ proc[p] \in Proc
    BY DEF IInv, TypeOK
  <1>1. CASE KeeperGivesUp(p)
    <2> DEFINE new == [proc[p] EXCEPT !.lost = TRUE]
    <2>1. new \in Proc /\ new.pc = proc[p].pc /\ new.run = proc[p].run
          /\ new.token = proc[p].token
      BY <1>0 DEF Proc
    <2>2. proc' = [proc EXCEPT ![p] = new]
      BY <1>0, <1>1 DEF KeeperGivesUp, TypeOK
    <2> HIDE DEF new
    <2>3. proc' \in [Procs -> Proc] /\ \A q \in Procs : QuietProc(q)
      BY <2>1, <2>2, ProcWrite
    <2>4. faults' \in Nat
      BY <1>0, <1>1, FaultType DEF KeeperGivesUp, TypeOK
    <2> QED
      BY <1>0, <1>1, <2>3, <2>4, ProceedsQuietly DEF KeeperGivesUp, destination, TypeOK
  <1>2. CASE Shutdown(p)
    <2>1. faults' \in Nat
      BY <1>2, FaultType DEF Shutdown
    <2> QED
      BY <1>0, <1>2, <2>1, NoRowWrite, NoProcWrite, QuietAction
         DEF Shutdown, destination, TypeOK
  <1>3. CASE Crash(p)
    <2>1. faults' \in Nat
      BY <1>3, FaultType DEF Crash
    <2>2. proc' \in [Procs -> Proc] /\ \A q \in Procs : QuietProc(q)
      BY <1>3, TasklessProc, ProcWrite DEF Crash
    <2> QED
      BY <1>0, <1>3, <2>1, <2>2, ProceedsQuietly DEF Crash, destination, TypeOK
  <1>4. CASE Restart(p)
    <2>1. proc' \in [Procs -> Proc] /\ \A q \in Procs : QuietProc(q)
      BY <1>4, TasklessProc, ProcWrite DEF Restart
    <2> QED
      BY <1>0, <1>4, <2>1, NoRowWrite, QuietAction DEF Restart, destination, TypeOK
  <1> QED
    BY <1>1, <1>2, <1>3, <1>4

\* The owner's account changes.
LEMMA OwnerSteps ==
  ASSUME IInv, NEW b \in BOOLEAN, SetOwnerActive(b)
  PROVE  IInv'
  <1>1. TypeOK /\ faults' \in Nat
    BY FaultType DEF SetOwnerActive, IInv
  <1> QED
    BY <1>1, NoRowWrite, NoProcWrite, QuietAction DEF SetOwnerActive, destination, TypeOK

------------------------------------------------------------------------------
(* The steps that move a lease or touch the destination.                    *)

\* claim_run: recovery of an uncertain run, cancellation, or a fresh lease.
LEMMA ClaimSteps ==
  ASSUME IInv, NEW p \in Procs, NEW r \in Runs, claim_run(p, r)
  PROVE  IInv'
  <1> DEFINE row    == run[r]
             stale  == row.status \in WORKER_OWNED_STATUSES
             queued == IF stale THEN requeue(row) ELSE row
  <1>0. TypeOK /\ RowOK(row) /\ row \in Row
    BY DEF IInv, RowsOK, RowOK
  <1>1. RowOK(queued) /\ queued \in Row
    BY <1>0, ActiveOperations DEF RowOK
  <1>2. claimable(row) /\ proc[p].pc = "idle"
        /\ UNCHANGED <<stopping, prepared, inflight, published, ownerActive, faults>>
    BY DEF claim_run, destination
  <1>3. CASE SetRow(r, fail_row(row, "worker_lost", FALSE, FALSE, TRUE))
             /\ UNCHANGED <<proc, nextToken>>
    <2>1. Ended(fail_row(row, "worker_lost", FALSE, FALSE, TRUE))
      BY <1>0, TerminalOperations
    <2> QED
      BY <1>0, <1>2, <1>3, <2>1, RowWrite, NoProcWrite, QuietAction DEF TypeOK
  <1>4. CASE SetRow(r, cancel_before_destination_work(queued))
             /\ UNCHANGED <<proc, nextToken>>
    <2>1. Ended(cancel_before_destination_work(queued))
      BY <1>1, TerminalOperations
    <2> HIDE DEF queued
    <2> QED
      BY <1>0, <1>2, <1>4, <2>1, RowWrite, NoProcWrite, QuietAction DEF TypeOK
  <1>5. CASE /\ ~(stale /\ destination_started(row))
             /\ SetRow(r, take_lease(queued, nextToken))
             /\ nextToken' = nextToken + 1
             /\ proc' = [proc EXCEPT ![p] =
                            [Idle EXCEPT !.pc = "claimed", !.run = r, !.token = nextToken]]
    <2> DEFINE new == take_lease(queued, nextToken)
               task == [Idle EXCEPT !.pc = "claimed", !.run = r, !.token = nextToken]
    <2>1. nextToken \in Nat \ {NoToken}
      BY <1>0 DEF TypeOK, IInv, TokensUnique
    <2>2. RowOK(new) /\ new.status = "validating" /\ new.token = nextToken
      BY <1>1, <2>1, ActiveOperations
    <2>3. row.status \in {"queued", "validating", "extracting"}
      BY <1>0, <1>2, <1>5 DEF claimable, RowOK, Staged, WORKER_OWNED_STATUSES,
         destination_started, STAGE_FOR_STATUS
    <2>4. task \in Proc /\ task.pc = "claimed" /\ task.run = r /\ task.token = nextToken
      BY <2>1, PcFacts DEF Idle, Proc
    <2>5. run' = [run EXCEPT ![r] = new] /\ proc' = [proc EXCEPT ![p] = task]
          /\ nextToken' = nextToken + 1
      BY <1>5 DEF SetRow
    <2> HIDE DEF new, task, queued
    <2>6. TypeOK'
      BY <1>0, <1>2, <2>1, <2>2, <2>4, <2>5 DEF TypeOK, RowOK
    <2>7. RowsOK'
      BY <1>0, <2>2, <2>5 DEF RowsOK, IInv, TypeOK
    <2>8. TokensUnique'
      <3>1. nextToken' # NoToken /\ \A q \in Runs : run'[q].token < nextToken'
        <4>1. \A q \in Runs : run[q].token \in Nat /\ run[q].token < nextToken
          BY <1>0 DEF IInv, TokensUnique, TypeOK, Row
        <4> QED
          BY <1>0, <2>1, <2>2, <2>5, <4>1 DEF TypeOK
      <3>2. \A q \in Procs : proc'[q].pc \in BusyPcs =>
               \/ q = p /\ proc'[q] = task
               \/ q # p /\ proc'[q] = proc[q] /\ proc[q].pc \in BusyPcs
        BY <1>0, <2>5 DEF TypeOK
      <3>3. ASSUME NEW q \in Procs, proc[q].pc \in BusyPcs
            PROVE  /\ proc[q].run \in Runs /\ proc[q].token # NoToken
                   /\ proc[q].token \in Nat /\ proc[q].token < nextToken
                   /\ \A o \in Runs : run[o].token = proc[q].token => proc[q].run = o
                   /\ \A o \in Procs : proc[o].pc \in BusyPcs
                                         /\ proc[o].token = proc[q].token => o = q
        BY <3>3 DEF IInv, TypeOK, Proc, TokensUnique
      <3>4. \A o \in Runs : run'[o].token = IF o = r THEN nextToken ELSE run[o].token
        BY <1>0, <2>2, <2>5 DEF TypeOK
      <3>5. \A o \in Runs : run[o].token \in Nat /\ run[o].token < nextToken
        BY <1>0 DEF IInv, TokensUnique, TypeOK, Row
      <3>6. ASSUME NEW q \in Procs, proc'[q].pc \in BusyPcs
            PROVE  /\ proc'[q].run \in Runs
                   /\ proc'[q].token # NoToken /\ proc'[q].token < nextToken'
                   /\ \A o \in Runs : run'[o].token = proc'[q].token => proc'[q].run = o
                   /\ \A o \in Procs : proc'[o].pc \in BusyPcs
                                         /\ proc'[o].token = proc'[q].token => o = q
        BY <2>1, <2>4, <2>5, <3>2, <3>3, <3>4, <3>5, <3>6
      <3> QED
        BY <3>1, <3>6 DEF TokensUnique
    <2>9. HolderInStep'
      <3> SUFFICES ASSUME NEW q \in Procs, proc'[q].pc \in BusyPcs,
                          RowOf(q)'.token = proc'[q].token
                   PROVE  RowOf(q)'.status \in StatusesAt(proc'[q].pc)
        BY DEF HolderInStep
      <3>1. CASE q = p
        BY <1>0, <2>2, <2>4, <2>5, <3>1 DEF TypeOK, RowOf, StatusesAt
      <3>2. CASE q # p
        <4>1. proc'[q] = proc[q] /\ proc[q].run \in Runs /\ proc[q].token < nextToken
          BY <1>0, <2>5, <3>2 DEF TypeOK, IInv, TokensUnique
        <4>2. proc[q].run # r
          BY <1>0, <2>1, <2>2, <2>5, <4>1 DEF TypeOK, RowOf
        <4> QED
          BY <1>0, <2>5, <4>1, <4>2 DEF TypeOK, RowOf, IInv, HolderInStep
      <3> QED
        BY <3>1, <3>2
    <2>a. \A q \in Procs : proc'[q].pc \in LoadPcs =>
             q # p /\ proc'[q] = proc[q] /\ proc[q].run \in Runs
      BY <1>0, <2>4, <2>5, PcFacts DEF TypeOK, IInv, TokensUnique
    <2>b. \A q \in Procs : proc[q].pc \in LoadPcs => proc[q].run # r
      BY <2>3 DEF IInv, OneLoader, RowOf, TERMINAL_STATUSES
    <2>10. OneLoader'
      BY <1>0, <1>2, <2>5, <2>a, <2>b DEF OneLoader, IInv, RowOf, TypeOK
    <2>11. PreparedLate'
      <3>1. prepared[r] = {}
        BY <2>3 DEF IInv, PreparedLate, TERMINAL_STATUSES
      <3> QED
        BY <1>0, <1>2, <2>5, <3>1 DEF PreparedLate, IInv, TypeOK
    <2>12. SingleWriter'
      BY <1>2 DEF SingleWriter, IInv
    <2> QED
      BY <2>6, <2>7, <2>8, <2>9, <2>10, <2>11, <2>12 DEF IInv
  <1> QED
    BY <1>3, <1>4, <1>5 DEF claim_run

\* What holding the lease tells a worker about its row, by pc.
LEMMA HolderStatus ==
  ASSUME IInv, NEW p \in Procs, proc[p].pc \in BusyPcs, HasLease(p)
  PROVE  RowOf(p).token = proc[p].token /\ RowOf(p).status \in StatusesAt(proc[p].pc)
  BY DEF IInv, HolderInStep, HasLease, refresh_and_require_lease

\* No process loads a run whose row is neither loading nor verifying nor final.
LEMMA NoLoaderEarly ==
  ASSUME IInv, NEW r \in Runs, run[r].status \in {"queued", "validating", "extracting"}
  PROVE  prepared[r] = {} /\ \A q \in Procs : proc[q].pc \in LoadPcs => proc[q].run # r
  BY DEF IInv, OneLoader, PreparedLate, RowOf, TERMINAL_STATUSES

\* The transitions validating -> extracting -> loading -> verifying.
LEMMA AdvanceSteps ==
  ASSUME IInv, NEW p \in Procs, BeginExtract(p) \/ BeginLoad(p) \/ BeginVerify(p)
  PROVE  IInv'
  <1>0. TypeOK /\ {"inspect", "ready", "batch"} \subseteq BusyPcs
    BY PcFacts DEF IInv
  <1>1. PICK s \in {"extracting", "loading", "verifying"}, pc \in {"scan", "prepare", "verify"} :
          /\ SetRow(proc[p].run, set_status(RowOf(p), s, proc[p].token))
          /\ Goto(p, pc)
          /\ HasLease(p)
          /\ UNCHANGED <<stopping, nextToken, prepared, inflight, published,
                         ownerActive, faults>>
          /\ \/ s = "extracting" /\ pc = "scan" /\ proc[p].pc = "inspect"
             \/ s = "loading" /\ pc = "prepare" /\ proc[p].pc = "ready"
             \/ s = "verifying" /\ pc = "verify" /\ proc[p].pc = "batch"
    BY DEF BeginExtract, BeginLoad, BeginVerify, Checkpoint, destination
  <1> DEFINE r   == proc[p].run
             row == set_status(RowOf(p), s, proc[p].token)
             new == [proc[p] EXCEPT !.pc = pc]
  <1>2. /\ proc[p].pc \in BusyPcs /\ r \in Runs /\ RowOK(RowOf(p)) /\ proc[p] \in Proc
        /\ proc[p].token \in Nat /\ proc[p].token # NoToken /\ RowOf(p) = run[r]
    BY <1>0, <1>1, BusyTask
  <1>3. RowOf(p).token = proc[p].token /\ RowOf(p).status \in StatusesAt(proc[p].pc)
    BY <1>1, <1>2, HolderStatus
  <1>4. RowOK(row) /\ row.status = s /\ row.token = proc[p].token
    <2>1. RowOf(p) \in Row /\ proc[p].token \in Nat \ {NoToken}
      BY <1>2 DEF RowOK
    <2> QED
      BY <1>2, <1>3, <2>1, AdvanceOK
  <1>5. new \in Proc /\ new.pc = pc /\ new.run = r /\ new.token = proc[p].token
    BY <1>2, PcFacts DEF Proc
  <1>6. run' = [run EXCEPT ![r] = row] /\ proc' = [proc EXCEPT ![p] = new]
    BY <1>0, <1>1 DEF SetRow, Goto, TypeOK
  <1>d. r = proc[p].run
    OBVIOUS
  <1> HIDE DEF row, new, r
  <1>7. TypeOK'
    BY <1>0, <1>1, <1>4, <1>5, <1>6 DEF TypeOK, RowOK
  <1>8. RowsOK'
    BY <1>0, <1>4, <1>6 DEF IInv, RowsOK, TypeOK
  <1>a. \A q \in Procs : /\ proc'[q].run = proc[q].run /\ proc'[q].token = proc[q].token
                         /\ proc'[q].pc \in BusyPcs => proc[q].pc \in BusyPcs
                         /\ q # p => proc'[q] = proc[q]
    <2>1. proc'[p] = new /\ \A q \in Procs : q # p => proc'[q] = proc[q]
      BY <1>0, <1>6 DEF TypeOK
    <2> QED
      BY <1>2, <1>5, <1>d, <2>1
  <1>b. \A o \in Runs : /\ run'[o].token = run[o].token
                        /\ o # r => run'[o] = run[o]
    BY <1>0, <1>2, <1>3, <1>4, <1>6 DEF TypeOK
  <1>9. TokensUnique'
    BY <1>1, <1>a, <1>b DEF IInv, TokensUnique
  <1>c. \A q \in Procs : q # p /\ proc[q].pc \in BusyPcs => proc[q].token # proc[p].token
    BY <1>2 DEF IInv, TokensUnique
  <1>10. HolderInStep'
    <2> SUFFICES ASSUME NEW q \in Procs, proc'[q].pc \in BusyPcs,
                        RowOf(q)'.token = proc'[q].token
                 PROVE  RowOf(q)'.status \in StatusesAt(proc'[q].pc)
      BY DEF HolderInStep
    <2>1. CASE q = p
      <3>1. RowOf(q)' = row /\ proc'[q].pc = pc
        BY <1>0, <1>2, <1>5, <1>6, <1>a, <2>1 DEF RowOf, TypeOK, r
      <3> QED
        BY <1>1, <1>4, <3>1 DEF StatusesAt
    <2>2. CASE q # p
      <3>1. proc[q].run \in Runs /\ proc[q].pc \in BusyPcs
        BY <1>a DEF IInv, TokensUnique
      <3>2. proc[q].run # r
        BY <1>0, <1>2, <1>4, <1>6, <1>a, <1>c, <2>2, <3>1 DEF RowOf, TypeOK
      <3> QED
        BY <1>a, <1>b, <2>2, <3>1, <3>2 DEF RowOf, IInv, HolderInStep
    <2> QED
      BY <2>1, <2>2
  <1>11. OneLoader' /\ PreparedLate'
    <2>1. CASE s = "extracting"
      <3>1. RowOf(p).status = "validating"
        BY <1>1, <1>3, <2>1 DEF StatusesAt
      <3>2. prepared[r] = {} /\ \A q \in Procs : proc[q].pc \in LoadPcs => proc[q].run # r
        BY <1>2, <3>1, NoLoaderEarly
      <3>3. proc'[p].pc \notin LoadPcs
        BY <1>0, <1>1, <1>5, <1>6, <2>1, PcFacts DEF TypeOK
      <3>4. \A q \in Procs : proc'[q].pc \in LoadPcs =>
               q # p /\ proc'[q] = proc[q] /\ proc[q].run \in Runs \ {r}
        BY <1>a, <3>2, <3>3, PcFacts DEF IInv, TokensUnique
      <3>5. OneLoader'
        BY <1>1, <1>b, <3>4 DEF IInv, OneLoader, RowOf
      <3>6. PreparedLate'
        BY <1>1, <1>b, <3>2 DEF IInv, PreparedLate
      <3> QED
        BY <3>5, <3>6
    <2>2. CASE s = "loading"
      <3>1. RowOf(p).status = "extracting"
        BY <1>1, <1>3, <2>2 DEF StatusesAt
      <3>2. prepared[r] = {} /\ \A q \in Procs : proc[q].pc \in LoadPcs => proc[q].run # r
        BY <1>2, <3>1, NoLoaderEarly
      <3>3. RowOf(p)' = row
        BY <1>0, <1>2, <1>5, <1>6 DEF RowOf, TypeOK
      <3>4. \A q \in Procs : proc'[q].pc \in LoadPcs =>
               q = p \/ (q # p /\ proc'[q] = proc[q] /\ proc[q].run \in Runs \ {r})
        BY <1>a, <3>2, PcFacts DEF IInv, TokensUnique
      <3>5. OneLoader'
        <4> SUFFICES ASSUME NEW q \in Procs, proc'[q].pc \in LoadPcs
                     PROVE  /\ \/ RowOf(q)'.status \in TERMINAL_STATUSES
                               \/ /\ RowOf(q)'.status \in {"loading", "verifying"}
                                  /\ RowOf(q)'.token = proc'[q].token
                            /\ prepared'[proc'[q].run] \subseteq {proc'[q].token}
                            /\ \A o \in Procs :
                                  proc'[o].pc \in LoadPcs /\ proc'[o].run = proc'[q].run
                                    => o = q
          BY DEF OneLoader
        <4>1. CASE q = p
          BY <1>1, <1>2, <1>4, <1>a, <2>2, <3>2, <3>3, <3>4, <4>1 DEF r
        <4>2. CASE q # p
          BY <1>1, <1>a, <1>b, <3>4, <4>2 DEF IInv, OneLoader, RowOf, r
        <4> QED
          BY <4>1, <4>2
      <3>6. PreparedLate'
        BY <1>1, <1>b, <3>2 DEF IInv, PreparedLate
      <3> QED
        BY <3>5, <3>6
    <2>3. CASE s = "verifying"
      <3>1. RowOf(p).status = "loading" /\ proc[p].pc = "batch"
        BY <1>1, <1>3, <2>3 DEF StatusesAt
      <3>2. RowOf(p)' = row
        BY <1>0, <1>2, <1>5, <1>6 DEF RowOf, TypeOK
      <3>3. \A q \in Procs : proc'[q].pc \in LoadPcs => proc[q].pc \in LoadPcs
                                                        /\ proc[q].run \in Runs
        BY <1>a, <3>1, PcFacts DEF IInv, TokensUnique
      <3>4. \A q \in Procs : proc[q].pc \in LoadPcs /\ proc[q].run = r => q = p
        BY <3>1, PcFacts DEF IInv, OneLoader, r
      <3>5. OneLoader'
        <4> SUFFICES ASSUME NEW q \in Procs, proc'[q].pc \in LoadPcs
                     PROVE  /\ \/ RowOf(q)'.status \in TERMINAL_STATUSES
                               \/ /\ RowOf(q)'.status \in {"loading", "verifying"}
                                  /\ RowOf(q)'.token = proc'[q].token
                            /\ prepared'[proc'[q].run] \subseteq {proc'[q].token}
                            /\ \A o \in Procs :
                                  proc'[o].pc \in LoadPcs /\ proc'[o].run = proc'[q].run
                                    => o = q
          BY DEF OneLoader
        <4>1. prepared[proc[q].run] \subseteq {proc[q].token}
              /\ \A o \in Procs : proc[o].pc \in LoadPcs /\ proc[o].run = proc[q].run => o = q
          BY <3>3 DEF IInv, OneLoader
        <4>2. \/ RowOf(q)'.status \in TERMINAL_STATUSES
              \/ /\ RowOf(q)'.status \in {"loading", "verifying"}
                 /\ RowOf(q)'.token = proc'[q].token
          <5>1. CASE q = p
            BY <1>4, <1>a, <2>3, <3>2, <5>1
          <5>2. CASE q # p
            BY <1>a, <1>b, <3>3, <3>4, <5>2 DEF IInv, OneLoader, RowOf
          <5> QED
            BY <5>1, <5>2
        <4> QED
          BY <1>1, <1>a, <3>3, <4>1, <4>2
      <3>6. PreparedLate'
        <4>1. prepared[r] \subseteq {proc[p].token}
          BY <3>1, PcFacts DEF IInv, OneLoader, r
        <4>2. run'[r] = row
          BY <1>0, <1>2, <1>6 DEF TypeOK
        <4> QED
          BY <1>1, <1>4, <1>b, <2>3, <4>1, <4>2 DEF IInv, PreparedLate
      <3> QED
        BY <3>5, <3>6
    <2> QED
      BY <2>1, <2>2, <2>3
  <1>12. SingleWriter'
    BY <1>1 DEF IInv, SingleWriter
  <1> QED
    BY <1>7, <1>8, <1>9, <1>10, <1>11, <1>12 DEF IInv

\* prepare_destination by the one process that is loading the run.
LEMMA PrepareStep ==
  ASSUME IInv, NEW p \in Procs, PrepareDestination(p)
  PROVE  IInv'
  <1> DEFINE r   == proc[p].run
             new == [proc[p] EXCEPT !.pc = "batch", !.sess = "open"]
  <1>0. TypeOK /\ proc[p].pc = "prepare" /\ "prepare" \in LoadPcs /\ "batch" \in LoadPcs
        /\ "prepare" \in BusyPcs /\ "batch" \in BusyPcs
    BY PcFacts DEF IInv, PrepareDestination
  <1>1. r \in Runs /\ proc[p] \in Proc /\ proc[p].token \in Nat
    BY <1>0, BusyTask
  <1>2. new \in Proc /\ new.pc = "batch" /\ new.run = r /\ new.token = proc[p].token
    BY <1>0, <1>1 DEF Proc
  <1>3. /\ proc' = [proc EXCEPT ![p] = new]
        /\ prepared' = [prepared EXCEPT ![r] = @ \cup {proc[p].token}]
        /\ UNCHANGED <<run, stopping, nextToken, inflight, published, ownerActive, faults>>
    BY <1>0 DEF PrepareDestination, TypeOK
  <1>a. r = proc[p].run
    OBVIOUS
  <1> HIDE DEF r, new
  <1>4. TypeOK'
    BY <1>0, <1>1, <1>2, <1>3 DEF TypeOK
  <1>b. proc'[p] = new /\ \A q \in Procs : q # p => proc'[q] = proc[q]
    BY <1>0, <1>3 DEF TypeOK
  <1>5. RowsOK'
    BY <1>3 DEF IInv, RowsOK
  <1>c. \A q \in Procs : /\ proc'[q].run = proc[q].run /\ proc'[q].token = proc[q].token
                         /\ proc'[q].pc \in BusyPcs <=> proc[q].pc \in BusyPcs
                         /\ proc'[q].pc \in LoadPcs <=> proc[q].pc \in LoadPcs
                         /\ StatusesAt(proc'[q].pc) = StatusesAt(proc[q].pc)
    BY <1>0, <1>2, <1>a, <1>b DEF StatusesAt
  <1>6. TokensUnique'
    BY <1>3, <1>c DEF IInv, TokensUnique
  <1>7. HolderInStep'
    BY <1>3, <1>c DEF IInv, HolderInStep, RowOf
  <1>8. prepared[r] \subseteq {proc[p].token}
    BY <1>0, <1>a DEF IInv, OneLoader
  <1>9. \A o \in Runs : prepared'[o] = IF o = r THEN {proc[p].token} ELSE prepared[o]
    BY <1>0, <1>3, <1>8 DEF TypeOK
  <1>d. \A q \in Procs : proc[q].pc \in LoadPcs => proc[q].run \in Runs
    BY PcFacts DEF IInv, TokensUnique
  <1>10. OneLoader'
    <2> SUFFICES ASSUME NEW q \in Procs, proc'[q].pc \in LoadPcs
                 PROVE  /\ \/ RowOf(q)'.status \in TERMINAL_STATUSES
                           \/ /\ RowOf(q)'.status \in {"loading", "verifying"}
                              /\ RowOf(q)'.token = proc'[q].token
                        /\ prepared'[proc'[q].run] \subseteq {proc'[q].token}
                        /\ \A o \in Procs :
                              proc'[o].pc \in LoadPcs /\ proc'[o].run = proc'[q].run => o = q
      BY DEF OneLoader
    <2>1. proc[q].pc \in LoadPcs /\ proc[q].run \in Runs
      BY <1>c, <1>d
    <2>2. RowOf(q)' = RowOf(q)
      BY <1>3, <1>c DEF RowOf
    <2>3. proc[q].run = r => q = p
      BY <1>0, <1>a, <2>1 DEF IInv, OneLoader
    <2>4. prepared'[proc[q].run] \subseteq {proc[q].token}
      BY <1>9, <2>1, <2>3 DEF IInv, OneLoader
    <2> QED
      BY <1>c, <2>1, <2>2, <2>4 DEF IInv, OneLoader
  <1>11. PreparedLate'
    <2>1. \/ run[r].status \in TERMINAL_STATUSES
          \/ run[r].status \in {"loading", "verifying"} /\ run[r].token = proc[p].token
      BY <1>0, <1>a DEF IInv, OneLoader, RowOf
    <2> QED
      BY <1>3, <1>9, <2>1 DEF IInv, PreparedLate
  <1>12. SingleWriter'
    BY <1>9 DEF IInv, SingleWriter
  <1> QED
    BY <1>4, <1>5, <1>6, <1>7, <1>10, <1>11, <1>12 DEF IInv

\* defer_run_for_databricks_compute puts a validating run back in the queue.
LEMMA DeferStep ==
  ASSUME IInv, NEW p \in Procs, DeferRun(p)
  PROVE  IInv'
  <1> DEFINE r   == proc[p].run
             row == defer_row(RowOf(p))
  <1>0. TypeOK /\ proc[p].pc \in BusyPcs /\ HasLease(p) /\ RowOf(p).stage = "authenticate"
    BY PcFacts DEF IInv, DeferRun
  <1>1. r \in Runs /\ RowOf(p) = run[r] /\ RowOK(RowOf(p)) /\ RowOf(p).token = proc[p].token
        /\ proc[p].token # NoToken /\ RowOf(p).status \in StatusesAt(proc[p].pc)
    BY <1>0, BusyTask, HolderStatus
  <1>2. RowOK(row) /\ row.status = "queued" /\ row.token = NoToken
    BY <1>1, ActiveOperations
  <1>3. RowOf(p).status = "validating"
    <2>1. RowOf(p).status \in WORKER_OWNED_STATUSES
      BY <1>1 DEF RowOK, Coupled
    <2> QED
      BY <1>0, <1>1, <2>1 DEF RowOK, Staged, WORKER_OWNED_STATUSES, STAGE_FOR_STATUS
  <1>4. prepared[r] = {} /\ \A q \in Procs : proc[q].pc \in LoadPcs => proc[q].run # r
    BY <1>1, <1>3, NoLoaderEarly
  <1>5. /\ run' = [run EXCEPT ![r] = row] /\ proc' = [proc EXCEPT ![p] = Idle]
        /\ UNCHANGED <<stopping, nextToken, prepared, inflight, published, ownerActive>>
    BY DEF DeferRun, SetRow, Finish, destination
  <1>6. faults' \in Nat
    BY FaultType DEF DeferRun
  <1> HIDE DEF r, row
  <1>7. TypeOK'
    BY <1>0, <1>1, <1>2, <1>5, <1>6, TasklessProc DEF TypeOK, RowOK
  <1>8. RowsOK'
    BY <1>0, <1>2, <1>5 DEF IInv, RowsOK, TypeOK
  <1>a. \A q \in Procs : proc'[q].pc \in BusyPcs => q # p /\ proc'[q] = proc[q]
    BY <1>0, <1>5, TasklessProc DEF TypeOK
  <1>b. run'[r] = row /\ \A o \in Runs : o # r => run'[o] = run[o]
    BY <1>0, <1>1, <1>5 DEF TypeOK
  <1>9. TokensUnique'
    BY <1>2, <1>5, <1>a, <1>b DEF IInv, TokensUnique, TypeOK
  <1>10. HolderInStep'
    BY <1>2, <1>a, <1>b DEF IInv, HolderInStep, RowOf, TokensUnique
  <1>11. OneLoader'
    <2>1. \A q \in Procs : proc'[q].pc \in LoadPcs =>
             q # p /\ proc'[q] = proc[q] /\ proc[q].run \in Runs \ {r}
      BY <1>4, <1>a, PcFacts DEF IInv, TokensUnique
    <2> QED
      BY <1>5, <1>b, <2>1 DEF IInv, OneLoader, RowOf
  <1>12. PreparedLate'
    BY <1>4, <1>5, <1>b DEF IInv, PreparedLate
  <1>13. SingleWriter'
    BY <1>5 DEF IInv, SingleWriter
  <1> QED
    BY <1>7, <1>8, <1>9, <1>10, <1>11, <1>12, <1>13 DEF IInv

------------------------------------------------------------------------------
(* The theorems.                                                            *)

\* The initial states satisfy the invariant.
LEMMA InitInv == Init => IInv
  <1> SUFFICES ASSUME Init PROVE IInv
    OBVIOUS
  <1>1. AbsentRow \in Row /\ AbsentRow.status = "absent" /\ AbsentRow.token = NoToken
        /\ AbsentRow.lease = "none"
    BY StageType DEF AbsentRow, NewRow, Row, Statuses, ACTIVE_STATUSES, Impacts
  <1>2. RowOK(AbsentRow)
    BY <1>1 DEF RowOK, Coupled, Staged, WORKER_OWNED_STATUSES
  <1>3. TypeOK
    BY <1>1, TasklessProc DEF Init, TypeOK
  <1>4. RowsOK /\ TokensUnique /\ HolderInStep /\ OneLoader
    BY <1>1, <1>2, TasklessProc, PcFacts
       DEF Init, RowsOK, TokensUnique, HolderInStep, OneLoader
  <1>5. PreparedLate /\ SingleWriter
    BY DEF Init, PreparedLate, SingleWriter
  <1> QED
    BY <1>3, <1>4, <1>5 DEF IInv

\* Every step preserves the invariant.
LEMMA NextInv == IInv /\ [Next]_vars => IInv'
  <1> SUFFICES ASSUME IInv, [Next]_vars PROVE IInv'
    OBVIOUS
  <1>1. CASE UNCHANGED vars
    <2>1. TypeOK /\ UNCHANGED <<run, proc, stopping, nextToken, prepared, inflight,
                                published, ownerActive, faults>>
      BY <1>1 DEF vars, IInv
    <2> QED
      BY <2>1, NoRowWrite, NoProcWrite, QuietAction DEF TypeOK
  <1>2. ASSUME NEW r \in Runs,
               \/ enqueue_run(r) \/ request_cancel(r) \/ record_reconciliation_review(r)
               \/ janitor(r) \/ Land(r) \/ AttemptDue(r) \/ LeaseExpires(r)
        PROVE  IInv'
    BY <1>2, RunSteps
  <1>3. ASSUME NEW p \in Procs, NEW r \in Runs, claim_run(p, r)
        PROVE  IInv'
    BY <1>3, ClaimSteps
  <1>4. ASSUME NEW p \in Procs, WorkerStep(p)
        PROVE  IInv'
    BY <1>4, EarlySteps, AdvanceSteps, PrepareStep, LoadSteps, HandlerSteps, DeferStep
       DEF WorkerStep
  <1>5. ASSUME NEW p \in Procs,
               KeeperGivesUp(p) \/ Shutdown(p) \/ Crash(p) \/ Restart(p)
        PROVE  IInv'
    BY <1>5, ProcessSteps
  <1>6. ASSUME NEW b \in BOOLEAN, SetOwnerActive(b)
        PROVE  IInv'
    BY <1>6, OwnerSteps
  <1> QED
    BY <1>1, <1>2, <1>3, <1>4, <1>5, <1>6 DEF Next

\* The invariant holds in every behaviour.
THEOREM Invariant == Spec => []IInv
  BY InitInv, NextInv, PTL DEF Spec

\* Type correctness (TypeOK), for any runs, processes, writer and faults.
THEOREM TypeCorrect == Spec => []TypeOK
  <1>1. IInv => TypeOK
    BY DEF IInv
  <1> QED
    BY <1>1, Invariant, PTL

\* A row has a lease exactly while a worker owns it (set_status, claim_run and
\* the deferral write token and expiry together).
THEOREM LeasesCoupled == Spec => []LeaseCoupled
  <1>1. IInv => LeaseCoupled
    BY DEF IInv, RowsOK, RowOK, Coupled, LeaseCoupled
  <1> QED
    BY <1>1, Invariant, PTL

\* The destination of a run is prepared under at most one lease, however many
\* processes claim, recover, stall and crash (claim_run's refusal to requeue a
\* run at the transfer or verify stage, and the lease check at every transition).
THEOREM OneWriterPerRun == Spec => []SingleWriter
  <1>1. IInv => SingleWriter
    BY DEF IInv
  <1> QED
    BY <1>1, Invariant, PTL

------------------------------------------------------------------------------
(* Outcomes are final.                                                      *)

Kept(r) == /\ run'[r].status = run[r].status
           /\ run'[r].impact = run[r].impact
           /\ run'[r].recon = run[r].recon
           /\ run[r].reviewed => run'[r].reviewed

\* A worker that holds its lease works on a run that has not ended.
LEMMA HolderNotEnded ==
  ASSUME IInv, NEW p \in Procs, proc[p].pc \in BusyPcs, HasLease(p)
  PROVE  proc[p].run \in Runs /\ run[proc[p].run].status \notin TERMINAL_STATUSES
  <1>1. proc[p].run \in Runs /\ RowOf(p).token # NoToken /\ RowOK(RowOf(p))
    BY BusyTask, HolderStatus
  <1> QED
    BY <1>1 DEF RowOK, Coupled, RowOf, WORKER_OWNED_STATUSES, TERMINAL_STATUSES

\* A worker writes to the row of its own run only, and only with its lease.
LEMMA WorkerWrites ==
  ASSUME IInv, NEW p \in Procs, WorkerStep(p)
  PROVE  \/ UNCHANGED run
         \/ proc[p].pc \in BusyPcs /\ HasLease(p) /\ \E row : SetRow(proc[p].run, row)
  <1>0. run \in [Runs -> Row]
    BY DEF IInv, TypeOK
  <1>1. CASE ReportFailure(p)
    <2>1. proc[p].pc \in BusyPcs
      BY <1>1, PcFacts DEF ReportFailure
    <2>2. SetRow(proc[p].run, ReportedRow(p)) /\ (HasLease(p) \/ ReportedRow(p) = RowOf(p))
      BY <1>1 DEF ReportFailure, ReportedRow
    <2>3. CASE ReportedRow(p) = RowOf(p)
      BY <1>0, <2>2, <2>3 DEF SetRow, RowOf
    <2> QED
      BY <2>1, <2>2, <2>3
  <1>2. CASE CancelAfterAbort(p)
    BY <1>2, PcFacts DEF CancelAfterAbort
  <1>3. CASE OwnerInactive(p) \/ CancelEarly(p) \/ BlockRun(p) \/ BeginExtract(p)
             \/ BeginLoad(p) \/ LoadBatch(p) \/ BeginVerify(p) \/ RecordOutcome(p)
             \/ DeferRun(p)
    BY <1>3, PcFacts
       DEF OwnerInactive, CancelEarly, BlockRun, BeginExtract, BeginLoad, LoadBatch,
           BeginVerify, RecordOutcome, DeferRun, Checkpoint
  <1>4. CASE StartTransfer(p) \/ RecordGuardrailReview(p) \/ PrepareDestination(p)
             \/ EnterFinalize(p) \/ Submit(p) \/ FinalizeConfirmed(p)
             \/ FinalizeUnconfirmed(p) \/ UploadRejected(p) \/ StepFails(p)
             \/ LeaseRefused(p) \/ LedgerRefused(p) \/ AbortSession(p)
    BY <1>4
       DEF StartTransfer, RecordGuardrailReview, PrepareDestination, EnterFinalize, Submit,
           FinalizeConfirmed, FinalizeUnconfirmed, UploadRejected, StepFails,
           LeaseRefused, LedgerRefused, AbortSession
  <1> QED
    BY <1>1, <1>2, <1>3, <1>4 DEF WorkerStep

\* No step of a worker writes to a run that has ended.
LEMMA WorkerKeepsOutcome ==
  ASSUME IInv, NEW p \in Procs, WorkerStep(p),
         NEW r \in Runs, run[r].status \in TERMINAL_STATUSES
  PROVE  run'[r] = run[r]
  <1>1. run \in [Runs -> Row]
    BY DEF IInv, TypeOK
  <1> QED
    BY <1>1, WorkerWrites, HolderNotEnded DEF SetRow

\* No step of anybody changes the outcome of a run that has ended.
LEMMA StepKeepsOutcome ==
  ASSUME IInv, [Next]_vars, NEW r \in Runs, run[r].status \in TERMINAL_STATUSES
  PROVE  Kept(r)
  <1>0. run \in [Runs -> Row] /\ run[r] \in Row /\ RowOK(run[r])
    BY DEF IInv, TypeOK, RowsOK
  <1>1. CASE run'[r] = run[r]
    BY <1>1 DEF Kept
  <1>2. CASE UNCHANGED vars
    BY <1>1, <1>2 DEF vars
  <1>3. ASSUME NEW q \in Runs, enqueue_run(q) \/ request_cancel(q) \/ Land(q)
        PROVE  run'[r] = run[r]
    BY <1>0, <1>3 DEF enqueue_run, request_cancel, Land, SetRow, TERMINAL_STATUSES
  <1>4. ASSUME NEW q \in Runs, record_reconciliation_review(q) \/ janitor(q)
                               \/ AttemptDue(q) \/ LeaseExpires(q)
        PROVE  Kept(r)
    BY <1>0, <1>4
       DEF record_reconciliation_review, janitor, AttemptDue, LeaseExpires, SetRow, Kept, Row
  <1>5. ASSUME NEW p \in Procs, NEW q \in Runs, claim_run(p, q)
        PROVE  run'[r] = run[r]
    <2>1. claimable(run[q]) /\ \E row : SetRow(q, row)
      BY <1>5 DEF claim_run
    <2> QED
      BY <1>0, <2>1 DEF claimable, SetRow, WORKER_OWNED_STATUSES, TERMINAL_STATUSES
  <1>6. ASSUME NEW p \in Procs, WorkerStep(p)
        PROVE  run'[r] = run[r]
    BY <1>6, WorkerKeepsOutcome
  <1>7. ASSUME NEW p \in Procs, KeeperGivesUp(p) \/ Shutdown(p) \/ Crash(p) \/ Restart(p)
        PROVE  run'[r] = run[r]
    BY <1>7 DEF KeeperGivesUp, Shutdown, Crash, Restart
  <1>8. ASSUME NEW b \in BOOLEAN, SetOwnerActive(b)
        PROVE  run'[r] = run[r]
    BY <1>8 DEF SetOwnerActive
  <1> QED
    BY <1>1, <1>2, <1>3, <1>4, <1>5, <1>6, <1>7, <1>8 DEF Next

\* The outcome recorded for a run is final, against late workers, recovery,
\* the owner, the operator and the janitor (_refresh_and_require_lease).
THEOREM OutcomesFinal == Spec => OutcomeFinal
  <1>1. IInv /\ [Next]_vars =>
          [\A r \in Runs :
              run[r].status \in TERMINAL_STATUSES
              => /\ run'[r].status = run[r].status
                 /\ run'[r].impact = run[r].impact
                 /\ run'[r].recon = run[r].recon
                 /\ run[r].reviewed => run'[r].reviewed]_vars
    BY StepKeepsOutcome DEF Kept
  <1> QED
    BY <1>1, Invariant, PTL DEF Spec, OutcomeFinal

------------------------------------------------------------------------------
(***************************************************************************)
(* What a run's recorded outcome says about its destination, proved for    *)
(* every set of runs and processes and every number of faults: success is  *)
(* recorded only for a publication that took effect (any writer), and on   *)
(* the Databricks route no outcome claims more than is known, so that the  *)
(* workers implement TransferContract.                                     *)
(***************************************************************************)

SafeStatuses == {"blocked", "failed", "cancelled"}

\* A publication of the run took effect or may still do so.
Touched(r) == published[r] \cup inflight[r] # {}

------------------------------------------------------------------------------
(* The strengthening.                                                       *)

\* What is published or in flight was prepared, a worker past
\* prepare_destination prepared it, and the provider confirmed what is recorded.
LoadRecorded ==
    /\ \A r \in Runs : published[r] \cup inflight[r] \subseteq prepared[r]
    /\ \A p \in Procs :
         /\ proc[p].pc = "prepare" => prepared[proc[p].run] = {}
         /\ proc[p].pc \in LoadPcs \ {"prepare"} => proc[p].token \in prepared[proc[p].run]
         /\ proc[p].pc = "record" => proc[p].token \in published[proc[p].run]

\* The janitor deletes only what has ended and needs no review any more.
PurgedReviewed ==
    \A r \in Runs :
        /\ run[r].status = "absent" => ~run[r].cancel
        /\ run[r].gone => /\ run[r].status \in TERMINAL_STATUSES
                          /\ run[r].status = "failed_needs_reconciliation" => run[r].reviewed

\* A worker that has submitted the publication and, whatever happens next, can
\* only record success or an uncertain outcome.
Unsure(p) ==
    \/ proc[p].pc = "submitted" /\ proc[p].sess = "submitted"
    \/ proc[p].pc = "record" /\ proc[p].committed /\ proc[p].sess = "closed"
    \/ /\ proc[p].pc = "abort"
       /\ \/ proc[p].committed /\ proc[p].sess = "closed"
          \/ proc[p].exc = "publish_uncertain" /\ proc[p].sess = "submitted"
    \/ proc[p].pc = "report" /\ proc[p].exc = "publish_uncertain" /\ ~proc[p].rolled

\* With the publication ledger, a run whose destination may have changed has
\* ended as success or uncertain, or is verifying under an unsure worker or none.
RiskHeld ==
    \A r \in Runs : Touched(r) =>
        \/ run[r].status \in {"succeeded", "failed_needs_reconciliation"}
        \/ /\ run[r].status = "verifying"
           /\ \A p \in Procs :
                 /\ proc[p].pc \in BusyPcs
                 /\ proc[p].run = r /\ proc[p].token = run[r].token
                 => Unsure(p)

EInv == /\ IInv /\ LoadRecorded /\ PurgedReviewed /\ SuccessPublished
        /\ Writer = "databricks" => RiskHeld

------------------------------------------------------------------------------
(* What the row operators write.                                            *)

\* new is row with the given status; a purged row stays purged and no other does.
BecomesStatus(row, new, s) == new \in Row /\ new.status = s /\ new.gone = row.gone

\* set_status and conclude write the status and keep the janitor's mark.
LEMMA ConcludeStatus ==
  ASSUME NEW row \in Row, NEW s \in TERMINAL_STATUSES, NEW t \in Nat,
         NEW impact \in Impacts, NEW recon \in BOOLEAN
  PROVE  BecomesStatus(row, conclude(set_status(row, s, t), impact, recon), s)
  <1> DEFINE new == set_status(row, s, t)
  <1>1. s \in Statuses
    BY DEF Statuses
  <1>2. new \in Row /\ new.status = s
    BY <1>1, SetStatusType
  <1>3. new.gone = row.gone
    BY DEF set_status, Row
  <1> HIDE DEF new
  <1>4. BecomesStatus(row, conclude(new, impact, recon), s)
    BY <1>2, <1>3 DEF conclude, Row, BecomesStatus
  <1> QED
    BY <1>4 DEF new

\* The retry flag touches no other column.
LEMMA RetryableStatus ==
  ASSUME NEW row, NEW new, NEW s, BecomesStatus(row, new, s), NEW b \in BOOLEAN
  PROVE  BecomesStatus(row, [new EXCEPT !.retryable = b], s)
  BY DEF Row, BecomesStatus

\* The status each terminal operation ends in.
LEMMA OperationStatus ==
  ASSUME NEW row \in Row
  PROVE  /\ BecomesStatus(row, cancel_before_destination_work(row), "cancelled")
         /\ BecomesStatus(row, block_row(row), "blocked")
         /\ \A impact \in Impacts :
               /\ BecomesStatus(row, complete_row(row, impact), "succeeded")
               /\ impact = "uncertain" =>
                    BecomesStatus(row, cancel_claimed_row(row, impact),
                                  "failed_needs_reconciliation")
               /\ impact # "uncertain" =>
                    BecomesStatus(row, cancel_claimed_row(row, impact), "cancelled")
         /\ \A code : \A retryable, rolledBack, needs \in BOOLEAN :
               LET recon == ~rolledBack /\ (needs \/ failure_requires_reconciliation(row, code))
                   new   == fail_row(row, code, retryable, rolledBack, needs)
               IN  /\ recon => BecomesStatus(row, new, "failed_needs_reconciliation")
                   /\ ~recon => BecomesStatus(row, new, "failed")
  <1>0. /\ row.token \in Nat
        /\ {"cancelled", "blocked", "succeeded", "failed", "failed_needs_reconciliation"}
             = TERMINAL_STATUSES
        /\ {"unchanged", "uncertain", "rolled_back"} \subseteq Impacts
    BY DEF Row, TERMINAL_STATUSES, Impacts
  <1>1. BecomesStatus(row, cancel_before_destination_work(row), "cancelled")
    BY <1>0, ConcludeStatus, RetryableStatus DEF cancel_before_destination_work
  <1>2. BecomesStatus(row, block_row(row), "blocked")
    BY <1>0, ConcludeStatus, RetryableStatus DEF block_row
  <1>3. ASSUME NEW impact \in Impacts
        PROVE  /\ BecomesStatus(row, complete_row(row, impact), "succeeded")
               /\ impact = "uncertain" =>
                    BecomesStatus(row, cancel_claimed_row(row, impact),
                                  "failed_needs_reconciliation")
               /\ impact # "uncertain" =>
                    BecomesStatus(row, cancel_claimed_row(row, impact), "cancelled")
    BY <1>0, ConcludeStatus DEF complete_row, cancel_claimed_row
  <1>4. ASSUME NEW code, NEW retryable \in BOOLEAN, NEW rolledBack \in BOOLEAN,
               NEW needs \in BOOLEAN
        PROVE  LET recon == ~rolledBack /\ (needs \/ failure_requires_reconciliation(row, code))
                   new   == fail_row(row, code, retryable, rolledBack, needs)
               IN  /\ recon => BecomesStatus(row, new, "failed_needs_reconciliation")
                   /\ ~recon => BecomesStatus(row, new, "failed")
    <2> DEFINE recon  == ~rolledBack
                            /\ (needs \/ failure_requires_reconciliation(row, code))
               status == IF recon THEN "failed_needs_reconciliation" ELSE "failed"
               impact == IF rolledBack THEN "rolled_back"
                         ELSE IF recon THEN "uncertain" ELSE "unchanged"
               new    == fail_row(row, code, retryable, rolledBack, needs)
    <2>1. recon \in BOOLEAN /\ (retryable /\ ~recon) \in BOOLEAN
      OBVIOUS
    <2>2. status \in TERMINAL_STATUSES /\ impact \in Impacts
      BY <1>0
    <2>3. new = [conclude(set_status(row, status, row.token), impact, recon)
                    EXCEPT !.retryable = retryable /\ ~recon]
      BY DEF fail_row
    <2> HIDE DEF recon, status, impact, new
    <2>4. BecomesStatus(row, conclude(set_status(row, status, row.token), impact, recon), status)
      BY <1>0, <2>1, <2>2, ConcludeStatus
    <2>5. BecomesStatus(row, new, status)
      BY <2>1, <2>3, <2>4, RetryableStatus
    <2> QED
      BY <2>5 DEF recon, status, new
  <1> QED
    BY <1>1, <1>2, <1>3, <1>4

\* The operations that keep a run active keep the janitor's mark too.
LEMMA ActiveStatus ==
  ASSUME NEW row \in Row, NEW t \in Nat
  PROVE  /\ BecomesStatus(row, requeue(row), "queued")
         /\ BecomesStatus(row, defer_row(row), "queued")
         /\ BecomesStatus(row, take_lease(row, t), "validating")
         /\ \A s \in {"extracting", "loading", "verifying"} :
               BecomesStatus(row, set_status(row, s, t), s)
  <1>1. /\ {"validating", "extracting", "loading", "verifying", "queued"} \subseteq Statuses
        /\ STAGE_FOR_STATUS["queued"] \in Stages /\ "waiting_for_compute" \in Stages
    BY StageType DEF Statuses, ACTIVE_STATUSES, WORKER_OWNED_STATUSES, Stages
  <1>2. BecomesStatus(row, requeue(row), "queued") /\ BecomesStatus(row, defer_row(row), "queued")
    BY <1>1 DEF requeue, defer_row, Row, BecomesStatus, Statuses
  <1>3. ASSUME NEW s \in {"validating", "extracting", "loading", "verifying"}
        PROVE  BecomesStatus(row, set_status(row, s, t), s)
    <2>1. set_status(row, s, t) \in Row /\ set_status(row, s, t).status = s
      BY <1>1, SetStatusType
    <2>2. set_status(row, s, t).gone = row.gone
      BY DEF set_status, Row
    <2> QED
      BY <2>1, <2>2 DEF BecomesStatus
  <1>4. BecomesStatus(row, take_lease(row, t), "validating")
    <2> DEFINE new == set_status(row, "validating", t)
    <2>1. new \in Row /\ new.status = "validating" /\ new.gone = row.gone
      BY <1>3 DEF BecomesStatus
    <2>2. take_lease(row, t) = [new EXCEPT !.lease = "live", !.wait = FALSE]
      BY DEF take_lease
    <2> HIDE DEF new
    <2> QED
      BY <2>1, <2>2 DEF BecomesStatus, Row
  <1> QED
    BY <1>2, <1>3, <1>4

------------------------------------------------------------------------------
(* What a step may do to a row.                                             *)

Before == {"queued", "validating", "extracting"}

\* The row ends, with an outcome that the destination justifies.
Closes(r, row) ==
    /\ run[r].status \in ACTIVE_STATUSES
    /\ \/ row.status = "failed_needs_reconciliation"
       \/ row.status = "succeeded" /\ published[r] = prepared[r] /\ published[r] # {}
       \/ row.status \in SafeStatuses /\ (Writer = "databricks" => ~Touched(r))

\* Every earlier run of the pipeline is resolved, as enqueue_run requires.
AllResolved == \A q \in Runs : ~(safety_candidate(run[q]) /\ unresolved(run[q]))

Changes(r, row) ==
    \/ /\ row.status = run[r].status /\ row.token = run[r].token
       /\ row.cancel = run[r].cancel \/ run[r].status # "absent"
       /\ \/ row.gone = run[r].gone
          \/ /\ run[r].status \in TERMINAL_STATUSES /\ ~unresolved(run[r])
             /\ row.reviewed = run[r].reviewed
    \/ /\ row.gone = run[r].gone
       /\ \/ run[r].status = "absent" /\ row.status = "queued" /\ AllResolved
          \/ /\ ~run[r].cancel
             /\ \/ run[r].status \in Before /\ row.status \in Before \cup {"loading"}
                \/ run[r].status = "loading" /\ row.status = "verifying"
          \/ Closes(r, row)

\* A step writes no row, or one row, and then leaves the destination alone.
Writes == \/ UNCHANGED run
          \/ \E r \in Runs : \E row :
                SetRow(r, row) /\ Changes(r, row) /\ UNCHANGED destination

\* Nothing is published for a run that has not begun to load.
LEMMA UntouchedBefore ==
  ASSUME EInv, NEW r \in Runs, run[r].status \in Before
  PROVE  ~Touched(r)
  <1>1. prepared[r] = {}
    BY NoLoaderEarly DEF EInv, Before
  <1> QED
    BY <1>1 DEF EInv, LoadRecorded, Touched

\* The worker that holds the lease of a touched run is unsure.
LEMMA HolderUnsure ==
  ASSUME EInv, Writer = "databricks", NEW p \in Procs, proc[p].pc \in BusyPcs, HasLease(p),
         Touched(proc[p].run)
  PROVE  Unsure(p)
  <1>1. /\ proc[p].run \in Runs /\ run[proc[p].run].status \notin TERMINAL_STATUSES
        /\ run[proc[p].run].token = proc[p].token
    BY HolderNotEnded, HolderStatus DEF EInv, RowOf
  <1> QED
    BY <1>1 DEF EInv, RiskHeld, TERMINAL_STATUSES

\* The steps on one run that no process takes.
LEMMA RunWrites ==
  ASSUME EInv, NEW r \in Runs,
         \/ enqueue_run(r) \/ request_cancel(r) \/ record_reconciliation_review(r)
         \/ janitor(r) \/ Land(r) \/ AttemptDue(r) \/ LeaseExpires(r)
  PROVE  Writes
  <1>0. run[r] \in Row
    BY DEF EInv, IInv, TypeOK
  <1>1. CASE enqueue_run(r)
    <2>1. NewRow.status = "queued" /\ NewRow.gone = FALSE
      BY DEF NewRow
    <2>2. run[r].gone = FALSE
      BY <1>0, <1>1 DEF enqueue_run, EInv, PurgedReviewed, TERMINAL_STATUSES, Row
    <2>3. Changes(r, NewRow)
      BY <1>1, <2>1, <2>2 DEF Changes, enqueue_run, AllResolved
    <2> QED
      BY <1>1, <2>3 DEF enqueue_run, Writes
  <1>2. CASE request_cancel(r)
    <2> DEFINE flagged == [run[r] EXCEPT !.cancel = TRUE]
    <2>0. present(run[r]) /\ SetRow(r, request_cancel_row(run[r])) /\ UNCHANGED destination
      BY <1>2 DEF request_cancel
    <2>1. flagged \in Row /\ flagged.status = run[r].status /\ flagged.token = run[r].token
          /\ flagged.gone = run[r].gone
      BY <1>0 DEF Row
    <2>2. CASE run[r].status = "queued"
      <3>1. request_cancel_row(run[r]) = cancel_before_destination_work(flagged)
        BY <2>2 DEF request_cancel_row
      <3>2. BecomesStatus(flagged, request_cancel_row(run[r]), "cancelled")
        BY <2>1, <3>1, OperationStatus
      <3>3. ~Touched(r)
        BY <2>2, UntouchedBefore DEF Before
      <3>4. Changes(r, request_cancel_row(run[r]))
        BY <2>1, <2>2, <3>2, <3>3
           DEF Changes, Closes, BecomesStatus, ACTIVE_STATUSES, SafeStatuses
      <3> QED
        BY <2>0, <3>4 DEF Writes
    <2>3. CASE run[r].status # "queued"
      <3>1. request_cancel_row(run[r]) = flagged
        BY <2>3 DEF request_cancel_row
      <3> HIDE DEF flagged
      <3>2. Changes(r, flagged)
        BY <2>0, <2>1 DEF Changes, present
      <3> QED
        BY <2>0, <3>1, <3>2 DEF Writes
    <2> QED
      BY <2>2, <2>3
  <1>3. CASE record_reconciliation_review(r)
    <2> DEFINE new == [run[r] EXCEPT !.reviewed = TRUE]
    <2>1. Changes(r, new)
      BY <1>0 DEF Changes, Row
    <2> QED
      BY <1>3, <2>1 DEF record_reconciliation_review, Writes
  <1>4. CASE janitor(r)
    <2> DEFINE new == [run[r] EXCEPT !.gone = TRUE]
    <2>1. Changes(r, new)
      BY <1>0, <1>4 DEF Changes, Row, janitor
    <2> QED
      BY <1>4, <2>1 DEF janitor, Writes
  <1>5. CASE Land(r)
    BY <1>5 DEF Land, Writes
  <1>6. CASE AttemptDue(r)
    <2> DEFINE new == [run[r] EXCEPT !.wait = FALSE]
    <2>1. Changes(r, new)
      BY <1>0 DEF Changes, Row
    <2> QED
      BY <1>6, <2>1 DEF AttemptDue, Writes
  <1>7. CASE LeaseExpires(r)
    <2> DEFINE new == [run[r] EXCEPT !.lease = "expired"]
    <2>1. Changes(r, new)
      BY <1>0 DEF Changes, Row
    <2> QED
      BY <1>7, <2>1 DEF LeaseExpires, Writes
  <1> QED
    BY <1>1, <1>2, <1>3, <1>4, <1>5, <1>6, <1>7

\* claim_run: recovery as uncertain once the load began, cancellation or a new
\* lease before that.
LEMMA ClaimWrites ==
  ASSUME EInv, NEW p \in Procs, NEW r \in Runs, claim_run(p, r)
  PROVE  Writes
  <1> DEFINE row    == run[r]
             stale  == row.status \in WORKER_OWNED_STATUSES
             queued == IF stale THEN requeue(row) ELSE row
  <1>0. row \in Row /\ RowOK(row) /\ nextToken \in Nat /\ claimable(row) /\ UNCHANGED destination
    BY DEF EInv, IInv, TypeOK, RowsOK, claim_run
  <1>1. queued \in Row /\ queued.gone = row.gone
    BY <1>0, ActiveStatus DEF BecomesStatus
  <1>2. row.status \in ACTIVE_STATUSES
    BY <1>0 DEF claimable, ACTIVE_STATUSES
  <1>3. CASE SetRow(r, fail_row(row, "worker_lost", FALSE, FALSE, TRUE))
    <2>1. BecomesStatus(row, fail_row(row, "worker_lost", FALSE, FALSE, TRUE),
                        "failed_needs_reconciliation")
      BY <1>0, OperationStatus
    <2>2. Changes(r, fail_row(row, "worker_lost", FALSE, FALSE, TRUE))
      BY <1>2, <2>1 DEF Changes, Closes, BecomesStatus
    <2> QED
      BY <1>0, <1>3, <2>2 DEF Writes
  <1>4. CASE ~(stale /\ destination_started(row))
    <2>1. row.status \in Before
      BY <1>0, <1>4 DEF claimable, RowOK, Staged, WORKER_OWNED_STATUSES,
         destination_started, STAGE_FOR_STATUS, Before
    <2>2. ~Touched(r)
      BY <2>1, UntouchedBefore
    <2>3. CASE SetRow(r, cancel_before_destination_work(queued))
      <3> HIDE DEF queued
      <3>1. BecomesStatus(queued, cancel_before_destination_work(queued), "cancelled")
        BY <1>1, OperationStatus
      <3>2. Changes(r, cancel_before_destination_work(queued))
        BY <1>1, <1>2, <2>2, <3>1 DEF Changes, Closes, BecomesStatus, SafeStatuses
      <3> QED
        BY <1>0, <2>3, <3>2 DEF Writes
    <2>4. CASE ~row.cancel /\ SetRow(r, take_lease(queued, nextToken))
      <3> HIDE DEF queued
      <3>1. BecomesStatus(queued, take_lease(queued, nextToken), "validating")
        BY <1>0, <1>1, ActiveStatus
      <3>2. Changes(r, take_lease(queued, nextToken))
        BY <1>1, <2>1, <2>4, <3>1 DEF Changes, BecomesStatus, Before
      <3> QED
        BY <1>0, <2>4, <3>2 DEF Writes
    <2> QED
      BY <1>3, <2>3, <2>4 DEF claim_run
  <1> QED
    BY <1>3, <1>4 DEF claim_run

\* A terminal operation of the holder before the load.
LEMMA ClosesEarly ==
  ASSUME EInv, NEW p \in Procs, proc[p].pc \in EarlyPcs, HasLease(p), NEW row,
         NEW s \in SafeStatuses \cup {"failed_needs_reconciliation"},
         BecomesStatus(RowOf(p), row, s)
  PROVE  proc[p].run \in Runs /\ Changes(proc[p].run, row)
  <1>1. /\ proc[p].pc \in BusyPcs /\ proc[p].run \in Runs /\ RowOf(p) = run[proc[p].run]
        /\ RowOf(p).status \in StatusesAt(proc[p].pc)
    BY PcFacts, BusyTask, HolderStatus DEF EInv
  <1>2. RowOf(p).status \in Before
    BY <1>1, PcFacts DEF StatusesAt, Before
  <1>3. ~Touched(proc[p].run)
    BY <1>1, <1>2, UntouchedBefore
  <1> QED
    BY <1>1, <1>2, <1>3 DEF Changes, Closes, BecomesStatus, Before, ACTIVE_STATUSES,
                            WORKER_OWNED_STATUSES, SafeStatuses

\* The steps of a worker that end its run.
LEMMA ClosingWrites ==
  ASSUME EInv, NEW p \in Procs,
         \/ OwnerInactive(p) \/ CancelEarly(p) \/ BlockRun(p) \/ CancelAfterAbort(p)
         \/ RecordOutcome(p) \/ ReportFailure(p)
  PROVE  Writes
  <1> DEFINE r == proc[p].run
             row == RowOf(p)
  <1>0. /\ proc[p].pc \in BusyPcs /\ r \in Runs /\ row \in Row /\ row = run[r] /\ proc[p] \in Proc
        /\ UNCHANGED destination
    BY PcFacts, BusyTask
       DEF EInv, OwnerInactive, CancelEarly, BlockRun, CancelAfterAbort, RecordOutcome,
           ReportFailure
  <1>1. CASE OwnerInactive(p) \/ CancelEarly(p)
    <2> DEFINE new == cancel_claimed_row(row, default_cancel_impact(row))
    <2>1. proc[p].pc \in EarlyPcs /\ HasLease(p) /\ SetRow(r, new)
      BY <1>1, PcFacts DEF OwnerInactive, CancelEarly
    <2>2. \/ BecomesStatus(row, new, "cancelled")
          \/ BecomesStatus(row, new, "failed_needs_reconciliation")
      BY <1>0, CancelImpacts, OperationStatus DEF default_cancel_impact
    <2> HIDE DEF new
    <2>3. Changes(r, new)
      BY <2>1, <2>2, ClosesEarly DEF SafeStatuses
    <2> QED
      BY <1>0, <2>1, <2>3 DEF Writes
  <1>2. CASE BlockRun(p)
    <2>1. proc[p].pc \in EarlyPcs /\ HasLease(p) /\ SetRow(r, block_row(row))
      BY <1>2, PcFacts DEF BlockRun, Checkpoint
    <2>2. Changes(r, block_row(row))
      BY <1>0, <2>1, OperationStatus, ClosesEarly DEF SafeStatuses
    <2> QED
      BY <1>0, <2>1, <2>2 DEF Writes
  <1>3. ASSUME HasLease(p)
        PROVE  /\ row.status \in ACTIVE_STATUSES /\ row.token = proc[p].token
               /\ Writer = "databricks" /\ Touched(r) => Unsure(p)
    <2>1. row.status \in StatusesAt(proc[p].pc) /\ row.token = proc[p].token
      BY <1>0, <1>3, HolderStatus DEF EInv
    <2> QED
      BY <1>0, <1>3, <2>1, HolderUnsure
         DEF StatusesAt, ACTIVE_STATUSES, WORKER_OWNED_STATUSES
  <1>4. CASE CancelAfterAbort(p)
    <2>1. CASE ~HasLease(p)
      BY <1>4, <2>1 DEF CancelAfterAbort, Writes
    <2>2. CASE HasLease(p)
      <3>1. PICK impact \in Impacts : SetRow(r, cancel_claimed_row(row, impact))
        BY <1>4, <2>2, CancelImpacts DEF CancelAfterAbort
      <3>2. \/ BecomesStatus(row, cancel_claimed_row(row, impact), "cancelled")
            \/ BecomesStatus(row, cancel_claimed_row(row, impact),
                             "failed_needs_reconciliation")
        BY <1>0, OperationStatus
      <3>3. ~Unsure(p)
        BY <1>4 DEF CancelAfterAbort, Unsure
      <3>4. Changes(r, cancel_claimed_row(row, impact))
        BY <1>0, <1>3, <2>2, <3>2, <3>3 DEF Changes, Closes, BecomesStatus, SafeStatuses
      <3> QED
        BY <1>0, <3>1, <3>4 DEF Writes
    <2> QED
      BY <2>1, <2>2
  <1>5. CASE RecordOutcome(p)
    <2>1. HasLease(p) /\ proc[p].pc = "record"
      BY <1>5 DEF RecordOutcome
    <2>2. published[r] = prepared[r] /\ published[r] # {}
      <3>1. proc[p].token \in published[r] /\ published[r] \subseteq prepared[r]
        BY <1>0, <2>1 DEF EInv, LoadRecorded
      <3>2. prepared[r] \subseteq {proc[p].token}
        BY <2>1, PcFacts DEF EInv, IInv, OneLoader
      <3> QED
        BY <3>1, <3>2
    <2>3. CASE \E impact \in {"verified", "changed"} : SetRow(r, complete_row(row, impact))
      <3>1. PICK impact \in {"verified", "changed"} : SetRow(r, complete_row(row, impact))
        BY <2>3
      <3>2. BecomesStatus(row, complete_row(row, impact), "succeeded")
        BY <1>0, OperationStatus DEF Impacts
      <3>3. Changes(r, complete_row(row, impact))
        BY <1>0, <1>3, <2>1, <2>2, <3>2 DEF Changes, Closes, BecomesStatus
      <3> QED
        BY <1>0, <3>1, <3>3 DEF Writes
    <2>4. CASE SetRow(r, fail_row(row, "verification_failed", FALSE, FALSE, TRUE))
      <3>1. BecomesStatus(row, fail_row(row, "verification_failed", FALSE, FALSE, TRUE),
                          "failed_needs_reconciliation")
        BY <1>0, OperationStatus
      <3>2. Changes(r, fail_row(row, "verification_failed", FALSE, FALSE, TRUE))
        BY <1>0, <1>3, <2>1, <3>1 DEF Changes, Closes, BecomesStatus
      <3> QED
        BY <1>0, <2>4, <3>2 DEF Writes
    <2> QED
      BY <1>5, <2>3, <2>4 DEF RecordOutcome
  <1>6. CASE ReportFailure(p)
    <2>0. proc[p].pc = "report" /\ SetRow(r, ReportedRow(p))
      BY <1>6 DEF ReportFailure
    <2>1. CASE ReportedRow(p) = row
      <3>1. run' = run
        BY <1>0, <2>0, <2>1 DEF SetRow, EInv, IInv, TypeOK
      <3> QED
        BY <3>1 DEF Writes
    <2>2. CASE ReportedRow(p) # row
      <3>1. HasLease(p)
        BY <2>2 DEF ReportedRow
      <3> DEFINE new == fail_row(row, proc[p].exc, proc[p].retry, proc[p].rolled, FALSE)
      <3>2. proc[p].retry \in BOOLEAN /\ proc[p].rolled \in BOOLEAN
        BY <1>0 DEF Proc
      <3>3. CASE Writer = "databricks" /\ Touched(r)
        <4>1. proc[p].exc = "publish_uncertain" /\ ~proc[p].rolled
          BY <1>3, <2>0, <3>1, <3>3 DEF Unsure
        <4>2. ReportedRow(p) = new
          BY <2>2, <4>1 DEF ReportedRow
        <4>3. failure_requires_reconciliation(row, proc[p].exc)
          BY <4>1 DEF failure_requires_reconciliation, RECONCILIATION_CODES
        <4>4. BecomesStatus(row, new, "failed_needs_reconciliation")
          BY <1>0, <3>2, <4>1, <4>3, OperationStatus
        <4> HIDE DEF new
        <4>5. Changes(r, new)
          BY <1>0, <1>3, <3>1, <4>4 DEF Changes, Closes, BecomesStatus
        <4> QED
          BY <1>0, <2>0, <4>2, <4>5 DEF Writes
      <3>4. CASE ~(Writer = "databricks" /\ Touched(r))
        <4>1. \/ BecomesStatus(row, new, "failed_needs_reconciliation")
              \/ BecomesStatus(row, new, "failed")
          BY <1>0, <3>2, OperationStatus
        <4>2. ReportedRow(p) \in {cancel_before_destination_work(row), block_row(row), new}
          BY <2>2 DEF ReportedRow
        <4> HIDE DEF new
        <4>3. PICK s \in SafeStatuses \cup {"failed_needs_reconciliation"} :
                 BecomesStatus(row, ReportedRow(p), s)
          BY <1>0, <4>1, <4>2, OperationStatus DEF SafeStatuses
        <4>4. Changes(r, ReportedRow(p))
          BY <1>0, <1>3, <3>1, <3>4, <4>3 DEF Changes, Closes, BecomesStatus, SafeStatuses
        <4> QED
          BY <1>0, <2>0, <4>4 DEF Writes
      <3> QED
        BY <3>3, <3>4
    <2> QED
      BY <2>1, <2>2
  <1> QED
    BY <1>1, <1>2, <1>4, <1>5, <1>6

\* The steps of a worker that move its run forward or put it back in the queue.
LEMMA AdvanceWrites ==
  ASSUME EInv, NEW p \in Procs,
         BeginExtract(p) \/ BeginLoad(p) \/ BeginVerify(p) \/ LoadBatch(p) \/ DeferRun(p)
  PROVE  Writes
  <1> DEFINE r == proc[p].run
             row == RowOf(p)
  <1>0. /\ proc[p].pc \in BusyPcs /\ r \in Runs /\ row \in Row /\ row = run[r]
        /\ RowOK(row) /\ proc[p].token \in Nat
        /\ HasLease(p) /\ ~row.cancel /\ UNCHANGED destination
    BY PcFacts, BusyTask
       DEF EInv, BeginExtract, BeginLoad, BeginVerify, LoadBatch, DeferRun, Checkpoint, CancelSeen
  <1>1. row.status \in StatusesAt(proc[p].pc) /\ row.token = proc[p].token
    BY <1>0, HolderStatus DEF EInv
  <1>2. CASE BeginExtract(p) \/ BeginLoad(p) \/ BeginVerify(p)
    <2>1. PICK s \in {"extracting", "loading", "verifying"} :
            /\ SetRow(r, set_status(row, s, proc[p].token))
            /\ \/ s = "extracting" /\ proc[p].pc = "inspect"
               \/ s = "loading" /\ proc[p].pc = "ready"
               \/ s = "verifying" /\ proc[p].pc = "batch"
      BY <1>2 DEF BeginExtract, BeginLoad, BeginVerify
    <2>2. BecomesStatus(row, set_status(row, s, proc[p].token), s)
      BY <1>0, ActiveStatus
    <2>3. \/ row.status \in Before /\ s \in Before \cup {"loading"}
          \/ row.status = "loading" /\ s = "verifying"
      BY <1>1, <2>1 DEF StatusesAt, Before
    <2>4. Changes(r, set_status(row, s, proc[p].token))
      BY <1>0, <2>2, <2>3 DEF Changes, BecomesStatus
    <2> QED
      BY <1>0, <2>1, <2>4 DEF Writes
  <1>3. CASE LoadBatch(p)
    <2> DEFINE new == [row EXCEPT !.loaded = TRUE]
    <2>1. new.status = row.status /\ new.token = row.token /\ new.cancel = row.cancel
          /\ new.gone = row.gone
      BY <1>0 DEF Row
    <2>2. SetRow(r, new)
      BY <1>3 DEF LoadBatch
    <2> HIDE DEF new
    <2>3. Changes(r, new)
      BY <1>0, <2>1 DEF Changes
    <2> QED
      BY <1>0, <2>2, <2>3 DEF Writes
  <1>4. CASE DeferRun(p)
    <2>1. row.stage = "authenticate" /\ SetRow(r, defer_row(row))
      BY <1>4 DEF DeferRun
    <2>2. row.status \in WORKER_OWNED_STATUSES
      BY <1>0, <1>1, BusyTask DEF EInv, RowOK, Coupled
    <2>3. row.status = "validating"
      BY <1>0, <2>1, <2>2 DEF RowOK, Staged, WORKER_OWNED_STATUSES, STAGE_FOR_STATUS
    <2>4. Changes(r, defer_row(row))
      BY <1>0, <2>3, ActiveStatus DEF Changes, BecomesStatus, Before
    <2> QED
      BY <1>0, <2>1, <2>4 DEF Writes
  <1> QED
    BY <1>2, <1>3, <1>4

\* Every step writes at most one row, as Changes says.
LEMMA NextWrites ==
  ASSUME EInv, [Next]_vars
  PROVE  Writes
  <1>1. CASE UNCHANGED vars
    BY <1>1 DEF vars, Writes
  <1>2. ASSUME NEW r \in Runs,
               \/ enqueue_run(r) \/ request_cancel(r) \/ record_reconciliation_review(r)
               \/ janitor(r) \/ Land(r) \/ AttemptDue(r) \/ LeaseExpires(r)
        PROVE  Writes
    BY <1>2, RunWrites
  <1>3. ASSUME NEW p \in Procs, NEW r \in Runs, claim_run(p, r)
        PROVE  Writes
    BY <1>3, ClaimWrites
  <1>4. ASSUME NEW p \in Procs, WorkerStep(p)
        PROVE  Writes
    <2>1. CASE UNCHANGED run
      BY <2>1 DEF Writes
    <2>2. CASE \/ StartTransfer(p) \/ RecordGuardrailReview(p) \/ PrepareDestination(p)
               \/ EnterFinalize(p) \/ Submit(p) \/ FinalizeConfirmed(p)
               \/ FinalizeUnconfirmed(p) \/ UploadRejected(p) \/ StepFails(p)
               \/ LeaseRefused(p) \/ LedgerRefused(p) \/ AbortSession(p)
      BY <2>1, <2>2
         DEF StartTransfer, RecordGuardrailReview, PrepareDestination, EnterFinalize, Submit,
             FinalizeConfirmed, FinalizeUnconfirmed, UploadRejected, StepFails,
             LeaseRefused, LedgerRefused, AbortSession
    <2> QED
      BY <1>4, <2>2, ClosingWrites, AdvanceWrites DEF WorkerStep
  <1>5. ASSUME NEW p \in Procs, KeeperGivesUp(p) \/ Shutdown(p) \/ Crash(p) \/ Restart(p)
        PROVE  Writes
    BY <1>5 DEF KeeperGivesUp, Shutdown, Crash, Restart, Writes
  <1>6. ASSUME NEW b \in BOOLEAN, SetOwnerActive(b)
        PROVE  Writes
    BY <1>6 DEF SetOwnerActive, Writes
  <1> QED
    BY <1>1, <1>2, <1>3, <1>4, <1>5, <1>6 DEF Next

\* What NextWrites says about each row.
LEMMA RowChanges ==
  ASSUME EInv, [Next]_vars, NEW r \in Runs
  PROVE  Changes(r, run'[r])
  <1>1. run \in [Runs -> Row]
    BY DEF EInv, IInv, TypeOK
  <1>2. CASE run'[r] = run[r]
    BY <1>2 DEF Changes
  <1>3. ASSUME NEW q \in Runs, NEW row, SetRow(q, row), Changes(q, row)
        PROVE  Changes(r, run'[r])
    BY <1>1, <1>2, <1>3 DEF SetRow
  <1> QED
    BY <1>2, <1>3, NextWrites DEF Writes

------------------------------------------------------------------------------
(* What a step may do to a process.                                         *)

Loaders == LoadPcs \ {"prepare"}

\* The except clause of execute_transfer with a session: what it decides.
LEMMA AbortMoves ==
  ASSUME IInv, NEW p \in Procs, AbortSession(p), proc[p].sess # "none"
  PROVE  /\ \A q \in Procs : q # p => proc'[q] = proc[q]
         /\ SameTask(p) /\ proc'[p].pc = "report"
         /\ \E answer \in AbortAnswers(p) :
               \/ proc[p].committed
               \/ answer = "uncertain" /\ proc[p].exc # "conflict"
               => proc'[p].exc = "publish_uncertain" /\ ~proc'[p].rolled
  <1>0. proc \in [Procs -> Proc] /\ proc[p] \in Proc
    BY DEF IInv, TypeOK
  <1>1. PICK answer \in AbortAnswers(p) :
          LET unsure == \/ proc[p].committed
                        \/ answer = "uncertain" /\ proc[p].exc # "conflict"
          IN  proc' = [proc EXCEPT
                 ![p].pc     = "report",
                 ![p].sess   = IF @ = "open" THEN "closed" ELSE @,
                 ![p].exc    = IF unsure THEN "publish_uncertain" ELSE @,
                 ![p].retry  = @ /\ ~unsure,
                 ![p].rolled = ~unsure /\ proc[p].exc # "conflict"]
    BY DEF AbortSession
  <1> DEFINE unsure == \/ proc[p].committed
                       \/ answer = "uncertain" /\ proc[p].exc # "conflict"
             sess   == IF proc[p].sess = "open" THEN "closed" ELSE proc[p].sess
             exc    == IF unsure THEN "publish_uncertain" ELSE proc[p].exc
             retry  == proc[p].retry /\ ~unsure
             rolled == ~unsure /\ proc[p].exc # "conflict"
             new    == [proc[p] EXCEPT !.pc = "report", !.sess = sess, !.exc = exc,
                                       !.retry = retry, !.rolled = rolled]
  <1>2. proc' = [proc EXCEPT ![p] = new]
    BY <1>0, <1>1 DEF Proc
  <1>3. new.pc = "report" /\ new.run = proc[p].run /\ new.token = proc[p].token
        /\ new.exc = exc /\ new.rolled = rolled
    <2> HIDE DEF exc, rolled, retry, sess
    <2> QED
      BY <1>0 DEF Proc
  <1>4. unsure => exc = "publish_uncertain" /\ ~rolled
    OBVIOUS
  <1> HIDE DEF new, exc, rolled
  <1>5. proc'[p] = new /\ \A q \in Procs : q # p => proc'[q] = proc[q]
    BY <1>0, <1>2
  <1> QED
    BY <1>3, <1>4, <1>5 DEF SameTask

\* A worker step changes its own process only, which keeps its task or drops
\* it, and enters the load in the order of execute_transfer.
LEMMA WorkerMoves ==
  ASSUME IInv, NEW p \in Procs, WorkerStep(p)
  PROVE  /\ proc[p].pc \in BusyPcs
         /\ \A q \in Procs : q # p => proc'[q] = proc[q]
         /\ proc'[p].pc \in BusyPcs => SameTask(p)
         /\ proc'[p].pc = "prepare" => BeginLoad(p)
         /\ proc'[p].pc \in Loaders => proc[p].pc \in Loaders \/ PrepareDestination(p)
         /\ proc'[p].pc = "record" => FinalizeConfirmed(p)
  <1>0. proc \in [Procs -> Proc] /\ proc[p] \in Proc
    BY DEF IInv, TypeOK
  <1>1. CASE \/ OwnerInactive(p) \/ CancelEarly(p) \/ BlockRun(p) \/ ReportFailure(p)
             \/ DeferRun(p)
    <2>1. proc[p].pc \in BusyPcs /\ proc' = [proc EXCEPT ![p] = Idle]
      BY <1>1, PcFacts
         DEF OwnerInactive, CancelEarly, BlockRun, ReportFailure, DeferRun, Finish
    <2> QED
      BY <1>0, <2>1, TasklessProc, PcFacts DEF Loaders
  <1>2. CASE LoadBatch(p)
    BY <1>0, <1>2, PcFacts DEF LoadBatch, SameTask, Loaders
  <1>3. CASE \/ StartTransfer(p) \/ BeginExtract(p) \/ RecordGuardrailReview(p) \/ BeginLoad(p)
             \/ BeginVerify(p) \/ EnterFinalize(p)
    <2>1. PICK pc : /\ Goto(p, pc)
                    /\ \/ proc[p].pc \in EarlyPcs /\ pc \in {"inspect", "scan", "ready"}
                       \/ proc[p].pc = "ready" /\ pc = "prepare" /\ BeginLoad(p)
                       \/ proc[p].pc \in {"batch", "verify"} /\ pc \in {"verify", "publish"}
      BY <1>3, PcFacts
         DEF StartTransfer, BeginExtract, RecordGuardrailReview, BeginLoad, BeginVerify,
             EnterFinalize
    <2>2. proc'[p].pc = pc /\ SameTask(p) /\ \A q \in Procs : q # p => proc'[q] = proc[q]
      BY <1>0, <2>1 DEF Goto, SameTask, Proc
    <2> QED
      BY <2>1, <2>2, PcFacts DEF Loaders
  <1>4. CASE PrepareDestination(p)
    <2>1. proc[p].pc = "prepare"
          /\ proc' = [proc EXCEPT ![p].pc = "batch", ![p].sess = "open"]
      BY <1>4 DEF PrepareDestination
    <2>2. SameTask(p) /\ proc'[p].pc = "batch" /\ \A q \in Procs : q # p => proc'[q] = proc[q]
      BY <1>0, <2>1 DEF SameTask, Proc
    <2> QED
      BY <1>4, <2>1, <2>2, PcFacts DEF Loaders
  <1>11. CASE Submit(p)
    <2>1. proc[p].pc = "publish"
          /\ proc' = [proc EXCEPT ![p].pc = "submitted", ![p].sess = "submitted"]
      BY <1>11 DEF Submit
    <2>2. SameTask(p) /\ proc'[p].pc = "submitted"
          /\ \A q \in Procs : q # p => proc'[q] = proc[q]
      BY <1>0, <2>1 DEF SameTask, Proc
    <2> QED
      BY <2>1, <2>2, PcFacts DEF Loaders
  <1>12. CASE FinalizeConfirmed(p)
    <2>1. proc[p].pc = "submitted"
          /\ proc' = [proc EXCEPT ![p].pc = "record", ![p].committed = TRUE,
                                  ![p].sess = "closed"]
      BY <1>12 DEF FinalizeConfirmed
    <2>2. SameTask(p) /\ proc'[p].pc = "record"
          /\ \A q \in Procs : q # p => proc'[q] = proc[q]
      BY <1>0, <2>1 DEF SameTask, Proc
    <2> QED
      BY <1>12, <2>1, <2>2, PcFacts DEF Loaders
  <1>5. ASSUME proc[p].pc \in BusyPcs, NEW code, NEW retry, Raise(p, code, retry)
        PROVE  /\ proc[p].pc \in BusyPcs
               /\ \A q \in Procs : q # p => proc'[q] = proc[q]
               /\ SameTask(p) /\ proc'[p].pc = "abort"
    BY <1>0, <1>5 DEF Raise, SameTask, Proc
  <1>6. CASE \/ FinalizeUnconfirmed(p) \/ UploadRejected(p) \/ LeaseRefused(p) \/ LedgerRefused(p)
    <2>1. proc[p].pc \in BusyPcs
      BY <1>6, PcFacts DEF FinalizeUnconfirmed, UploadRejected, LeaseRefused, LedgerRefused
    <2> QED
      BY <1>5, <1>6, <2>1, PcFacts
         DEF FinalizeUnconfirmed, UploadRejected, LeaseRefused, LedgerRefused, Loaders
  <1>7. CASE StepFails(p)
    <2>1. proc[p].pc \in BusyPcs /\ \E e : Raise(p, e[1], e[2])
      BY <1>7, PcFacts DEF StepFails, ErrorsAt
    <2> QED
      BY <1>5, <2>1, PcFacts DEF Loaders
  <1>8. CASE RecordOutcome(p)
    <2>1. proc[p].pc \in BusyPcs /\ (Finish(p) \/ Raise(p, "internal_error", FALSE))
      BY <1>8, PcFacts DEF RecordOutcome
    <2>2. CASE Finish(p)
      BY <1>0, <2>1, <2>2, TasklessProc, PcFacts DEF Loaders, Finish
    <2> QED
      BY <1>5, <2>1, <2>2, PcFacts DEF Loaders
  <1>9. CASE CancelAfterAbort(p)
    <2>1. proc[p].pc \in BusyPcs
          /\ \/ Finish(p)
             \/ proc' = [proc EXCEPT ![p].pc = "abort", ![p].exc = "conflict",
                                     ![p].sess = "closed"]
      BY <1>9, PcFacts DEF CancelAfterAbort
    <2>2. CASE Finish(p)
      BY <1>0, <2>1, <2>2, TasklessProc, PcFacts DEF Loaders, Finish
    <2>3. CASE proc' = [proc EXCEPT ![p].pc = "abort", ![p].exc = "conflict",
                                    ![p].sess = "closed"]
      BY <1>0, <2>1, <2>3, PcFacts DEF Loaders, SameTask, Proc
    <2> QED
      BY <2>1, <2>2, <2>3
  <1>10. CASE AbortSession(p)
    <2>1. proc[p].pc \in BusyPcs
      BY <1>10, PcFacts DEF AbortSession
    <2>2. CASE proc[p].sess = "none"
      <3>1. Goto(p, "report")
        BY <1>10, <2>2 DEF AbortSession
      <3>2. proc'[p].pc = "report" /\ SameTask(p) /\ \A q \in Procs : q # p => proc'[q] = proc[q]
        BY <1>0, <3>1 DEF Goto, SameTask, Proc
      <3> QED
        BY <2>1, <3>2, PcFacts DEF Loaders
    <2>3. CASE proc[p].sess # "none"
      BY <1>10, <2>1, <2>3, AbortMoves, PcFacts DEF Loaders
    <2> QED
      BY <2>2, <2>3
  <1> QED
    BY <1>1, <1>2, <1>3, <1>4, <1>6, <1>7, <1>8, <1>9, <1>10, <1>11, <1>12 DEF WorkerStep

ProcMove(p) ==
    /\ proc'[p].pc \in BusyPcs =>
         \/ proc[p].pc \in BusyPcs /\ SameTask(p)
         \/ proc'[p].pc = "claimed" /\ proc'[p].token = nextToken
    /\ proc'[p].pc = "prepare" => proc[p].pc = "prepare" \/ BeginLoad(p)
    /\ proc'[p].pc \in Loaders => proc[p].pc \in Loaders \/ PrepareDestination(p)
    /\ proc'[p].pc = "record" => proc[p].pc = "record" \/ FinalizeConfirmed(p)

\* Every step moves every process inside its task, out of it or into a new one.
LEMMA ProcMoves ==
  ASSUME IInv, [Next]_vars, NEW p \in Procs
  PROVE  ProcMove(p)
  <1>0. proc \in [Procs -> Proc] /\ proc[p] \in Proc
    BY DEF IInv, TypeOK
  <1>1. CASE proc'[p] = proc[p]
    BY <1>1 DEF ProcMove, SameTask
  <1>2. CASE proc'[p].pc \notin BusyPcs
    BY <1>2, PcFacts DEF ProcMove, Loaders
  <1>3. CASE UNCHANGED vars
    BY <1>1, <1>3 DEF vars
  <1>4. ASSUME NEW r \in Runs,
               \/ enqueue_run(r) \/ request_cancel(r) \/ record_reconciliation_review(r)
               \/ janitor(r) \/ Land(r) \/ AttemptDue(r) \/ LeaseExpires(r)
        PROVE  ProcMove(p)
    BY <1>1, <1>4 DEF enqueue_run, request_cancel, record_reconciliation_review, janitor, Land,
                      AttemptDue, LeaseExpires
  <1>5. ASSUME NEW q \in Procs, NEW r \in Runs, claim_run(q, r)
        PROVE  ProcMove(p)
    <2> DEFINE task == [Idle EXCEPT !.pc = "claimed", !.run = r, !.token = nextToken]
    <2>1. task.pc = "claimed" /\ task.token = nextToken
      BY DEF Idle
    <2>2. UNCHANGED proc \/ proc' = [proc EXCEPT ![q] = task]
      BY <1>5 DEF claim_run
    <2> HIDE DEF task
    <2> QED
      BY <1>0, <1>1, <2>1, <2>2, PcFacts DEF ProcMove, Loaders
  <1>6. ASSUME NEW q \in Procs, WorkerStep(q)
        PROVE  ProcMove(p)
    BY <1>1, <1>6, WorkerMoves DEF ProcMove
  <1>7. ASSUME NEW q \in Procs, KeeperGivesUp(q)
        PROVE  ProcMove(p)
    <2>1. proc'[p].pc = proc[p].pc /\ SameTask(p)
      BY <1>0, <1>7 DEF KeeperGivesUp, SameTask, Proc
    <2> QED
      BY <2>1 DEF ProcMove
  <1>8. ASSUME NEW q \in Procs, Shutdown(q) \/ Crash(q) \/ Restart(q)
        PROVE  ProcMove(p)
    BY <1>0, <1>1, <1>2, <1>8, TasklessProc DEF Shutdown, Crash, Restart
  <1>9. ASSUME NEW b \in BOOLEAN, SetOwnerActive(b)
        PROVE  ProcMove(p)
    BY <1>1, <1>9 DEF SetOwnerActive
  <1> QED
    BY <1>3, <1>4, <1>5, <1>6, <1>7, <1>8, <1>9 DEF Next

------------------------------------------------------------------------------
(* What a step may do to the destination.                                   *)

EffectKept(r) == published'[r] = published[r] /\ inflight'[r] = inflight[r]

Lands(r) ==
    \E t \in inflight[r] : /\ published'[r] = published[r] \cup {t}
                           /\ inflight'[r] = inflight[r] \ {t}

Submits(p) ==
    /\ Submit(p)
    /\ published'[proc[p].run] = published[proc[p].run]
    /\ inflight'[proc[p].run] = inflight[proc[p].run] \cup {proc[p].token}

Rejects(r) ==
    /\ Writer = "foundry"
    /\ published'[r] = published[r] /\ inflight'[r] \subseteq inflight[r]

EffectMove(r) == \/ EffectKept(r) \/ Lands(r) \/ Rejects(r)
                 \/ \E p \in Procs : proc[p].run = r /\ Submits(p)

\* The effect on at most one run changes, and then no row does.
Effects == \/ \A r \in Runs : EffectKept(r)
           \/ /\ UNCHANGED run
              /\ \E r \in Runs : EffectMove(r) /\ \A q \in Runs \ {r} : EffectKept(q)

\* Only Submit adds a publication, only Land applies it, only Foundry rejects it.
LEMMA NextEffects ==
  ASSUME IInv, [Next]_vars
  PROVE  Effects
  <1>0. inflight \in [Runs -> SUBSET Nat] /\ published \in [Runs -> SUBSET Nat]
    BY DEF IInv, TypeOK
  <1>1. CASE UNCHANGED <<inflight, published>>
    BY <1>1 DEF Effects, EffectKept
  <1>2. CASE UNCHANGED vars
    BY <1>1, <1>2 DEF vars
  <1>3. ASSUME NEW r \in Runs,
               \/ enqueue_run(r) \/ request_cancel(r) \/ record_reconciliation_review(r)
               \/ janitor(r) \/ AttemptDue(r) \/ LeaseExpires(r)
        PROVE  Effects
    BY <1>1, <1>3 DEF enqueue_run, request_cancel, record_reconciliation_review, janitor,
                      AttemptDue, LeaseExpires, destination
  <1>4. ASSUME NEW r \in Runs, Land(r)
        PROVE  Effects
    <2>1. Lands(r) /\ UNCHANGED run /\ \A q \in Runs \ {r} : EffectKept(q)
      BY <1>0, <1>4 DEF Land, Lands, EffectKept
    <2> QED
      BY <2>1 DEF Effects, EffectMove
  <1>5. ASSUME NEW p \in Procs, NEW r \in Runs, claim_run(p, r)
        PROVE  Effects
    BY <1>1, <1>5 DEF claim_run, destination
  <1>6. ASSUME NEW p \in Procs, WorkerStep(p)
        PROVE  Effects
    <2>0. proc[p].run \in Runs
      BY <1>6, WorkerMoves, BusyTask
    <2>1. CASE Submit(p)
      <3>1. Submits(p) /\ UNCHANGED run /\ \A q \in Runs \ {proc[p].run} : EffectKept(q)
        BY <1>0, <2>0, <2>1 DEF Submit, Submits, EffectKept
      <3> QED
        BY <2>0, <3>1 DEF Effects, EffectMove
    <2>2. CASE UploadRejected(p)
      <3>1. Rejects(proc[p].run) /\ UNCHANGED run
            /\ \A q \in Runs \ {proc[p].run} : EffectKept(q)
        BY <1>0, <2>0, <2>2 DEF UploadRejected, Rejects, EffectKept
      <3> QED
        BY <2>0, <3>1 DEF Effects, EffectMove
    <2>3. CASE ~Submit(p) /\ ~UploadRejected(p)
      BY <1>1, <1>6, <2>3
         DEF WorkerStep, OwnerInactive, CancelEarly, StartTransfer, BlockRun, BeginExtract,
             RecordGuardrailReview, BeginLoad, PrepareDestination, LoadBatch, BeginVerify,
             EnterFinalize, FinalizeConfirmed, FinalizeUnconfirmed, CancelAfterAbort,
             RecordOutcome, StepFails, LeaseRefused, LedgerRefused, AbortSession,
             ReportFailure, DeferRun, destination
    <2> QED
      BY <2>1, <2>2, <2>3
  <1>7. ASSUME NEW p \in Procs, KeeperGivesUp(p) \/ Shutdown(p) \/ Crash(p) \/ Restart(p)
        PROVE  Effects
    BY <1>1, <1>7 DEF KeeperGivesUp, Shutdown, Crash, Restart, destination
  <1>8. ASSUME NEW b \in BOOLEAN, SetOwnerActive(b)
        PROVE  Effects
    BY <1>1, <1>8 DEF SetOwnerActive, destination
  <1> QED
    BY <1>2, <1>3, <1>4, <1>5, <1>6, <1>7, <1>8 DEF Next

\* Only prepare_destination prepares.
LEMMA NextPrepares ==
  ASSUME [Next]_vars
  PROVE  prepared' = prepared \/ \E p \in Procs : PrepareDestination(p)
  <1>1. CASE vars' = vars
    BY <1>1 DEF vars
  <1>2. ASSUME NEW p \in Procs, WorkerStep(p), ~PrepareDestination(p)
        PROVE  prepared' = prepared
    BY <1>2
       DEF destination, WorkerStep, OwnerInactive, CancelEarly, StartTransfer, BlockRun,
           BeginExtract, RecordGuardrailReview, BeginLoad, LoadBatch, BeginVerify,
           EnterFinalize, Submit, FinalizeConfirmed, FinalizeUnconfirmed, UploadRejected,
           CancelAfterAbort, RecordOutcome, StepFails, LeaseRefused, LedgerRefused,
           AbortSession, ReportFailure, DeferRun
  <1>3. ASSUME NEW p \in Procs, KeeperGivesUp(p) \/ Shutdown(p) \/ Crash(p) \/ Restart(p)
        PROVE  prepared' = prepared
    BY <1>3 DEF destination, KeeperGivesUp, Shutdown, Crash, Restart
  <1>4. CASE \/ \E p \in Procs : WorkerStep(p)
             \/ \E p \in Procs : KeeperGivesUp(p) \/ Shutdown(p) \/ Crash(p) \/ Restart(p)
    BY <1>2, <1>3, <1>4
  <1>5. CASE Next /\ ~(\E p \in Procs : WorkerStep(p))
             /\ ~(\E p \in Procs : KeeperGivesUp(p) \/ Shutdown(p) \/ Crash(p) \/ Restart(p))
    BY <1>5
       DEF Next, destination, enqueue_run, request_cancel, record_reconciliation_review,
           janitor, Land, AttemptDue, LeaseExpires, claim_run, SetOwnerActive
  <1> QED
    BY <1>1, <1>4, <1>5

------------------------------------------------------------------------------
(* Each part of the strengthening is kept.                                  *)

\* What is prepared or published stays so.
LEMMA DestinationGrows ==
  ASSUME IInv, [Next]_vars, NEW r \in Runs
  PROVE  prepared[r] \subseteq prepared'[r] /\ published[r] \subseteq published'[r]
  <1>1. prepared[r] \subseteq prepared'[r]
    <2>1. ASSUME NEW p \in Procs, PrepareDestination(p)
          PROVE  prepared[r] \subseteq prepared'[r]
      BY <2>1 DEF PrepareDestination, IInv, TypeOK
    <2> QED
      BY <2>1, NextPrepares
  <1>2. published[r] \subseteq published'[r]
    <2>1. EffectMove(r)
      BY NextEffects DEF Effects, EffectMove
    <2> QED
      BY <2>1 DEF EffectMove, EffectKept, Lands, Rejects, Submits
  <1> QED
    BY <1>1, <1>2

\* Preparing the destination of a run is the first thing that happens to it.
LEMMA PreparesOnce ==
  ASSUME EInv, [Next]_vars, NEW r \in Runs, prepared[r] # {}
  PROVE  prepared'[r] = prepared[r]
  <1>1. ASSUME NEW p \in Procs, PrepareDestination(p)
        PROVE  prepared'[r] = prepared[r]
    <2>1. prepared[proc[p].run] = {}
      BY <1>1 DEF PrepareDestination, EInv, LoadRecorded
    <2> QED
      BY <1>1, <2>1 DEF PrepareDestination, EInv, IInv, TypeOK
  <1> QED
    BY <1>1, NextPrepares

\* LoadRecorded is kept by every step.
LEMMA LoadRecordedStep ==
  ASSUME EInv, [Next]_vars
  PROVE  LoadRecorded'
  <1>0. IInv /\ LoadRecorded
    BY DEF EInv
  <1>1. ASSUME NEW r \in Runs
        PROVE  published'[r] \cup inflight'[r] \subseteq prepared'[r]
    <2>1. EffectMove(r)
      BY <1>0, NextEffects DEF Effects, EffectMove
    <2>2. prepared[r] \subseteq prepared'[r] /\ published[r] \cup inflight[r] \subseteq prepared[r]
      BY <1>0, DestinationGrows DEF LoadRecorded
    <2>3. ASSUME NEW p \in Procs, proc[p].run = r, Submits(p)
          PROVE  proc[p].token \in prepared[r]
      BY <1>0, <2>3, PcFacts DEF Submits, Submit, LoadRecorded
    <2> QED
      BY <2>1, <2>2, <2>3 DEF EffectMove, EffectKept, Lands, Rejects, Submits
  <1>2. ASSUME NEW p \in Procs, proc'[p].pc \in LoadPcs
        PROVE  proc[p].pc \in BusyPcs /\ SameTask(p) /\ proc[p].run \in Runs
    BY <1>0, <1>2, ProcMoves, PcFacts, BusyTask DEF ProcMove
  <1>3. ASSUME NEW p \in Procs, proc'[p].pc = "prepare"
        PROVE  prepared'[proc'[p].run] = {}
    <2>0. SameTask(p) /\ proc[p].run \in Runs /\ proc[p].pc \in BusyPcs
      BY <1>2, <1>3, PcFacts
    <2>1. CASE BeginLoad(p)
      <3>1. RowOf(p).status \in StatusesAt("ready")
        BY <1>0, <2>0, <2>1, HolderStatus DEF BeginLoad, Checkpoint
      <3>2. run[proc[p].run].status = "extracting"
        BY <3>1 DEF StatusesAt, RowOf
      <3>3. prepared[proc[p].run] = {}
        BY <1>0, <2>0, <3>2, NoLoaderEarly
      <3> QED
        BY <2>0, <2>1, <3>3 DEF BeginLoad, destination, SameTask
    <2>2. CASE proc[p].pc = "prepare"
      <3>1. prepared[proc[p].run] = {}
        BY <1>0, <2>2 DEF LoadRecorded
      <3>2. ASSUME NEW q \in Procs, PrepareDestination(q)
            PROVE  prepared'[proc[p].run] = prepared[proc[p].run]
        <4>1. q # p
          BY <1>0, <1>3, <3>2 DEF PrepareDestination, IInv, TypeOK, Proc
        <4>2. proc[q].run # proc[p].run
          BY <1>0, <2>2, <3>2, <4>1, PcFacts DEF PrepareDestination, IInv, OneLoader
        <4> QED
          BY <1>0, <2>0, <3>2, <4>2 DEF PrepareDestination, IInv, TypeOK
      <3> QED
        BY <2>0, <3>1, <3>2, NextPrepares DEF SameTask
    <2> QED
      BY <1>0, <1>3, <2>1, <2>2, ProcMoves DEF ProcMove
  <1>4. ASSUME NEW p \in Procs, proc'[p].pc \in Loaders
        PROVE  proc'[p].token \in prepared'[proc'[p].run]
    <2>0. SameTask(p) /\ proc[p].run \in Runs
      BY <1>2, <1>4 DEF Loaders
    <2>1. CASE PrepareDestination(p)
      BY <1>0, <2>0, <2>1 DEF PrepareDestination, SameTask, IInv, TypeOK
    <2>2. CASE proc[p].pc \in Loaders
      BY <1>0, <2>0, <2>2, DestinationGrows DEF LoadRecorded, Loaders, SameTask
    <2> QED
      BY <1>0, <1>4, <2>1, <2>2, ProcMoves DEF ProcMove
  <1>5. ASSUME NEW p \in Procs, proc'[p].pc = "record"
        PROVE  proc'[p].token \in published'[proc'[p].run]
    <2>0. SameTask(p) /\ proc[p].run \in Runs
      BY <1>2, <1>5, PcFacts
    <2>1. proc[p].token \in published[proc[p].run]
      BY <1>0, <1>5, ProcMoves DEF ProcMove, FinalizeConfirmed, LoadRecorded
    <2> QED
      BY <1>0, <2>0, <2>1, DestinationGrows DEF SameTask
  <1> QED
    BY <1>1, <1>3, <1>4, <1>5 DEF LoadRecorded, Loaders

\* Success is recorded for what was published, and stays true.
LEMMA SuccessStep ==
  ASSUME EInv, [Next]_vars
  PROVE  SuccessPublished'
  <1> SUFFICES ASSUME NEW r \in Runs, run'[r].status = "succeeded"
               PROVE  published'[r] = prepared'[r] /\ published'[r] # {}
    BY DEF SuccessPublished
  <1>1. published[r] = prepared[r] /\ published[r] # {}
    BY RowChanges DEF Changes, Closes, EInv, SuccessPublished, Before, SafeStatuses
  <1>2. prepared'[r] = prepared[r]
    BY <1>1, PreparesOnce
  <1>3. published[r] \subseteq published'[r] /\ published'[r] \subseteq prepared'[r]
    BY DestinationGrows, LoadRecordedStep DEF EInv, LoadRecorded
  <1> QED
    BY <1>1, <1>2, <1>3

\* Only reviewed runs are purged.
LEMMA PurgedStep ==
  ASSUME EInv, [Next]_vars
  PROVE  PurgedReviewed'
  <1> SUFFICES ASSUME NEW r \in Runs
               PROVE  /\ run'[r].status = "absent" => ~run'[r].cancel
                      /\ run'[r].gone =>
                           /\ run'[r].status \in TERMINAL_STATUSES
                           /\ run'[r].status = "failed_needs_reconciliation"
                                => run'[r].reviewed
    BY DEF PurgedReviewed
  <1>1. Changes(r, run'[r])
    BY RowChanges
  <1>2. run'[r].status = "absent" => ~run'[r].cancel
    BY <1>1 DEF Changes, Closes, EInv, PurgedReviewed, Before, SafeStatuses
  <1>3. ASSUME run'[r].gone
        PROVE  run[r].status \in TERMINAL_STATUSES /\ run'[r].status = run[r].status
    BY <1>1, <1>3 DEF Changes, Closes, EInv, PurgedReviewed, Before, ACTIVE_STATUSES,
                      WORKER_OWNED_STATUSES, TERMINAL_STATUSES
  <1>4. ASSUME run'[r].gone, run'[r].status = "failed_needs_reconciliation"
        PROVE  run'[r].reviewed
    <2>1. Kept(r)
      BY <1>3, <1>4, StepKeepsOutcome DEF EInv
    <2>2. run[r].reviewed
      BY <1>1, <1>3, <1>4 DEF Changes, Closes, EInv, PurgedReviewed, Before, ACTIVE_STATUSES,
                      WORKER_OWNED_STATUSES, unresolved, requires_review
    <2> QED
      BY <2>1, <2>2 DEF Kept
  <1> QED
    BY <1>2, <1>3, <1>4

\* An unsure worker stays unsure until it is done with its run.
LEMMA UnsureKept ==
  ASSUME IInv, Writer = "databricks", [Next]_vars, NEW p \in Procs, Unsure(p)
  PROVE  proc'[p].pc \notin BusyPcs \/ Unsure(p)'
  <1>0. proc \in [Procs -> Proc] /\ proc[p] \in Proc
    BY DEF IInv, TypeOK
  <1>1. CASE proc'[p] = proc[p]
    BY <1>1 DEF Unsure
  <1>2. CASE proc'[p].pc \notin BusyPcs
    BY <1>2
  <1>3. CASE UNCHANGED vars
    BY <1>1, <1>3 DEF vars
  <1>4. ASSUME NEW r \in Runs,
               \/ enqueue_run(r) \/ request_cancel(r) \/ record_reconciliation_review(r)
               \/ janitor(r) \/ Land(r) \/ AttemptDue(r) \/ LeaseExpires(r)
        PROVE  proc'[p] = proc[p]
    BY <1>4 DEF enqueue_run, request_cancel, record_reconciliation_review, janitor, Land,
                AttemptDue, LeaseExpires
  <1>5. ASSUME NEW q \in Procs, NEW r \in Runs, claim_run(q, r)
        PROVE  proc'[p] = proc[p]
    <2>1. q # p
      BY <1>5 DEF claim_run, Unsure
    <2> QED
      BY <1>0, <1>5, <2>1 DEF claim_run
  <1>6. ASSUME NEW q \in Procs, KeeperGivesUp(q)
        PROVE  Unsure(p)'
    <2>1. CASE q # p
      BY <1>0, <1>6, <2>1 DEF KeeperGivesUp, Unsure
    <2>2. CASE q = p
      <3>1. proc' = [proc EXCEPT ![p].lost = TRUE]
        BY <1>6, <2>2 DEF KeeperGivesUp
      <3>2. /\ proc'[p].pc = proc[p].pc /\ proc'[p].sess = proc[p].sess
            /\ proc'[p].exc = proc[p].exc /\ proc'[p].committed = proc[p].committed
            /\ proc'[p].rolled = proc[p].rolled
        BY <1>0, <3>1 DEF Proc
      <3> QED
        BY <3>2 DEF Unsure
    <2> QED
      BY <2>1, <2>2
  <1>7. ASSUME NEW q \in Procs, Shutdown(q) \/ Crash(q) \/ Restart(q)
        PROVE  proc'[p] = proc[p] \/ proc'[p].pc \notin BusyPcs
    BY <1>0, <1>7, TasklessProc DEF Shutdown, Crash, Restart
  <1>8. ASSUME NEW b \in BOOLEAN, SetOwnerActive(b)
        PROVE  proc'[p] = proc[p]
    BY <1>8 DEF SetOwnerActive
  <1>9. ASSUME NEW q \in Procs, WorkerStep(q), q # p
        PROVE  proc'[p] = proc[p]
    BY <1>9, WorkerMoves
  <1>10. ASSUME WorkerStep(p)
         PROVE  proc'[p].pc \notin BusyPcs \/ Unsure(p)'
    <2>0. proc[p].pc \in {"submitted", "record", "abort", "report"}
      BY DEF Unsure
    <2>1. CASE Finish(p)
      BY <1>0, <2>1, TasklessProc DEF Finish
    <2>2. CASE FinalizeConfirmed(p)
      <3>1. proc' = [proc EXCEPT ![p].pc = "record", ![p].committed = TRUE, ![p].sess = "closed"]
        BY <2>2 DEF FinalizeConfirmed
      <3>2. proc'[p].pc = "record" /\ proc'[p].committed /\ proc'[p].sess = "closed"
        BY <1>0, <3>1 DEF Proc
      <3> QED
        BY <3>2 DEF Unsure
    <2>3. CASE FinalizeUnconfirmed(p)
      <3>1. Raise(p, "publish_uncertain", FALSE) /\ proc[p].pc = "submitted"
        BY <2>3 DEF FinalizeUnconfirmed
      <3>2. proc'[p].pc = "abort" /\ proc'[p].exc = "publish_uncertain"
            /\ proc'[p].sess = proc[p].sess
        BY <1>0, <3>1 DEF Raise, Proc
      <3> QED
        BY <3>1, <3>2 DEF Unsure
    <2>4. ASSUME NEW code, NEW retry, Raise(p, code, retry), proc[p].pc = "record"
          PROVE  Unsure(p)'
      <3>1. proc'[p].pc = "abort" /\ proc'[p].committed = proc[p].committed
            /\ proc'[p].sess = proc[p].sess
        BY <1>0, <2>4 DEF Raise, Proc
      <3> QED
        BY <2>4, <3>1 DEF Unsure
    <2>5. CASE RecordOutcome(p)
      BY <2>1, <2>4, <2>5 DEF RecordOutcome
    <2>6. CASE StepFails(p)
      <3>1. proc[p].pc = "record" /\ \E e : Raise(p, e[1], e[2])
        BY <2>0, <2>6 DEF StepFails, ErrorsAt, EarlyPcs
      <3> QED
        BY <2>4, <3>1
    <2>7. CASE LeaseRefused(p)
      <3>1. proc[p].pc = "record" /\ Raise(p, "conflict", FALSE)
        BY <2>0, <2>7 DEF LeaseRefused, EarlyPcs
      <3> QED
        BY <2>4, <3>1
    <2>8. CASE AbortSession(p)
      <3>1. proc[p].pc = "abort" /\ proc[p].sess # "none"
            /\ \/ proc[p].committed
               \/ proc[p].exc = "publish_uncertain" /\ proc[p].sess = "submitted"
        BY <2>8 DEF AbortSession, Unsure
      <3>2. proc[p].sess = "submitted" => AbortAnswers(p) = {"uncertain"}
        BY DEF AbortAnswers
      <3>3. proc'[p].pc = "report" /\ proc'[p].exc = "publish_uncertain" /\ ~proc'[p].rolled
        BY <2>8, <3>1, <3>2, AbortMoves
      <3> QED
        BY <3>3 DEF Unsure
    <2>9. CASE ReportFailure(p) \/ DeferRun(p)
      BY <2>1, <2>9 DEF ReportFailure, DeferRun
    <2> QED
      BY <1>10, <2>0, <2>2, <2>3, <2>5, <2>6, <2>7, <2>8, <2>9, PcFacts
         DEF WorkerStep, OwnerInactive, CancelEarly, StartTransfer, BlockRun, BeginExtract,
             RecordGuardrailReview, BeginLoad, PrepareDestination, LoadBatch, BeginVerify,
             EnterFinalize, Submit, UploadRejected, CancelAfterAbort, LedgerRefused, EarlyPcs
  <1> QED
    BY <1>1, <1>3, <1>4, <1>5, <1>6, <1>7, <1>8, <1>9, <1>10 DEF Next

\* With the ledger, a run at risk stays in unsure hands until it ends as such.
LEMMA RiskStep ==
  ASSUME EInv, Writer = "databricks", [Next]_vars
  PROVE  RiskHeld'
  <1> SUFFICES ASSUME NEW r \in Runs, Touched(r)'
               PROVE  \/ run'[r].status \in {"succeeded", "failed_needs_reconciliation"}
                      \/ /\ run'[r].status = "verifying"
                         /\ \A p \in Procs :
                               /\ proc'[p].pc \in BusyPcs
                               /\ proc'[p].run = r /\ proc'[p].token = run'[r].token
                               => Unsure(p)'
    BY DEF RiskHeld
  <1>0. IInv /\ RiskHeld /\ proc \in [Procs -> Proc]
    BY DEF EInv, IInv, TypeOK
  <1>1. ASSUME NEW p \in Procs, proc'[p].pc \in BusyPcs, proc'[p].run = r,
               proc'[p].token = run[r].token
        PROVE  proc[p].pc \in BusyPcs /\ SameTask(p)
    BY <1>0, <1>1, ProcMoves DEF ProcMove, IInv, TypeOK, Row, TokensUnique
  <1>2. CASE \E p \in Procs : proc[p].run = r /\ Submits(p)
    <2>1. PICK p \in Procs : proc[p].run = r /\ Submits(p)
      BY <1>2
    <2>2. /\ proc[p].pc = "publish" /\ run[r].token = proc[p].token /\ UNCHANGED run
          /\ proc' = [proc EXCEPT ![p].pc = "submitted", ![p].sess = "submitted"]
      BY <2>1 DEF Submits, Submit, LedgerAllows, RowOf
    <2>3. run[r].status = "verifying"
      BY <1>0, <2>1, <2>2, PcFacts DEF IInv, HolderInStep, StatusesAt, RowOf
    <2>4. Unsure(p)'
      <3>1. proc'[p].pc = "submitted" /\ proc'[p].sess = "submitted"
        BY <1>0, <2>2 DEF Proc
      <3> QED
        BY <3>1 DEF Unsure
    <2>5. ASSUME NEW q \in Procs, proc'[q].pc \in BusyPcs, proc'[q].run = r,
                 proc'[q].token = run'[r].token
          PROVE  q = p
      <3>1. proc[q].pc \in BusyPcs /\ proc[q].token = proc[p].token
        BY <1>1, <2>2, <2>5 DEF SameTask
      <3> QED
        BY <1>0, <2>2, <3>1, PcFacts DEF IInv, TokensUnique
    <2> QED
      BY <2>2, <2>3, <2>4, <2>5
  <1>3. CASE ~\E p \in Procs : proc[p].run = r /\ Submits(p)
    <2>1. Touched(r)
      <3>1. EffectMove(r)
        BY <1>0, NextEffects DEF Effects, EffectMove
      <3> QED
        BY <1>3, <3>1 DEF EffectMove, EffectKept, Lands, Rejects, Touched
    <2>2. CASE run[r].status \in {"succeeded", "failed_needs_reconciliation"}
      <3>1. Kept(r)
        BY <1>0, <2>2, StepKeepsOutcome DEF TERMINAL_STATUSES
      <3> QED
        BY <2>2, <3>1 DEF Kept
    <2>3. CASE run[r].status = "verifying"
      <3>1. \/ run'[r].status \in {"succeeded", "failed_needs_reconciliation"}
            \/ run'[r].status = "verifying" /\ run'[r].token = run[r].token
        BY <2>1, <2>3, RowChanges DEF Changes, Closes, Before
      <3>2. ASSUME run'[r].token = run[r].token,
                   NEW p \in Procs, proc'[p].pc \in BusyPcs, proc'[p].run = r,
                   proc'[p].token = run'[r].token
            PROVE  Unsure(p)'
        <4>1. proc[p].pc \in BusyPcs /\ proc[p].run = r /\ proc[p].token = run[r].token
          BY <1>1, <3>2 DEF SameTask
        <4>2. Unsure(p)
          BY <1>0, <2>1, <2>3, <4>1 DEF RiskHeld
        <4> QED
          BY <1>0, <3>2, <4>2, UnsureKept
      <3> QED
        BY <3>1, <3>2
    <2> QED
      BY <1>0, <2>1, <2>2, <2>3 DEF RiskHeld
  <1> QED
    BY <1>2, <1>3

\* The initial states satisfy the strengthened invariant.
LEMMA InitEInv == Init => EInv
  <1> SUFFICES ASSUME Init PROVE EInv
    OBVIOUS
  <1>1. AbsentRow.status = "absent" /\ AbsentRow.cancel = FALSE /\ AbsentRow.gone = FALSE
    BY DEF AbsentRow, NewRow
  <1>2. LoadRecorded
    BY PcFacts DEF Init, LoadRecorded, Idle
  <1>3. PurgedReviewed /\ SuccessPublished
    BY <1>1 DEF Init, PurgedReviewed, SuccessPublished
  <1>4. RiskHeld
    BY DEF Init, RiskHeld, Touched
  <1> QED
    BY <1>2, <1>3, <1>4, InitInv DEF EInv

\* Every step preserves the strengthened invariant.
LEMMA NextEInv == EInv /\ [Next]_vars => EInv'
  <1> SUFFICES ASSUME EInv, [Next]_vars PROVE EInv'
    OBVIOUS
  <1>1. IInv'
    BY NextInv DEF EInv
  <1>2. Writer = "databricks" => RiskHeld'
    BY RiskStep
  <1> QED
    BY <1>1, <1>2, LoadRecordedStep, SuccessStep, PurgedStep DEF EInv

------------------------------------------------------------------------------
(* The theorems.                                                            *)

\* The strengthened invariant holds in every behaviour.
THEOREM EffectInvariant == Spec => []EInv
  BY InitEInv, NextEInv, PTL DEF Spec

\* Success is only recorded for a publication that took effect, under the one
\* lease that prepared it, whatever the writer (execute_transfer, complete_run).
THEOREM SuccessIsPublished == Spec => []SuccessPublished
  <1>1. EInv => SuccessPublished
    BY DEF EInv
  <1> QED
    BY <1>1, EffectInvariant, PTL

\* On the Databricks route a run that ends blocked, failed or cancelled has
\* published nothing and has nothing in flight (fail_run, cancel_claimed_run, the
\* except clause of execute_transfer and the publication ledger's fence).
THEOREM OutcomesSafe ==
  ASSUME Writer = "databricks"
  PROVE  Spec => []SafeOutcome
  <1>1. EInv => SafeOutcome
    BY DEF EInv, RiskHeld, Touched, SafeOutcome
  <1> QED
    BY <1>1, EffectInvariant, PTL

\* A run whose owner asked to cancel never moves to a later working status.
THEOREM CancelledNeverAdvance == Spec => CancelNeverAdvances
  <1>1. EInv /\ [Next]_vars =>
          [\A r \in Runs :
             run[r].cancel => run'[r].status \in {run[r].status} \cup TERMINAL_STATUSES]_vars
    <2> SUFFICES ASSUME EInv, [Next]_vars, NEW r \in Runs, run[r].cancel
                 PROVE  run'[r].status \in {run[r].status} \cup TERMINAL_STATUSES
      OBVIOUS
    <2> QED
      BY RowChanges DEF Changes, Closes, EInv, PurgedReviewed, SafeStatuses, TERMINAL_STATUSES
  <1> QED
    BY <1>1, EffectInvariant, PTL DEF Spec, CancelNeverAdvances

\* On the Databricks route no run is admitted while an earlier one may have
\* changed the destination without having succeeded or been reviewed, purges
\* included (enqueue_run's guard and the janitor's veto).
THEOREM RetriesReviewed ==
  ASSUME Writer = "databricks"
  PROVE  Spec => [][RetryOnlyAfterReview]_vars
  <1>1. EInv /\ [Next]_vars => [RetryOnlyAfterReview]_vars
    <2> SUFFICES ASSUME EInv, [Next]_vars, NEW r \in Runs, NEW q \in Runs,
                        run[r].status = "absent", run'[r].status = "queued",
                        run[q].status \in TERMINAL_STATUSES,
                        published[q] \cup inflight[q] # {}, run[q].status # "succeeded"
                 PROVE  run[q].reviewed
      BY DEF RetryOnlyAfterReview
    <2>1. run[q].status = "failed_needs_reconciliation"
      BY DEF EInv, RiskHeld, Touched, TERMINAL_STATUSES
    <2>2. AllResolved
      BY RowChanges DEF Changes, Closes, Before, SafeStatuses, ACTIVE_STATUSES,
                        WORKER_OWNED_STATUSES
    <2>3. CASE run[q].gone
      BY <2>1, <2>3 DEF EInv, PurgedReviewed
    <2>4. CASE ~run[q].gone
      BY <2>1, <2>2, <2>4
         DEF AllResolved, safety_candidate, present, unresolved, requires_review
    <2> QED
      BY <2>3, <2>4
  <1> QED
    BY <1>1, EffectInvariant, PTL DEF Spec

------------------------------------------------------------------------------
(* The workers implement the contract.                                      *)

Outcomes == [r \in Runs |-> OutcomeOf(run[r])]
EffectsOf == [r \in Runs |-> EffectOf(r)]

\* The outcome a row stands for, status by status.
LEMMA OutcomeCases ==
  ASSUME NEW row
  PROVE  /\ row.status = "absent" => OutcomeOf(row) = "none"
         /\ row.status \in ACTIVE_STATUSES => OutcomeOf(row) = "open"
         /\ row.status \in SafeStatuses => OutcomeOf(row) = "safe"
         /\ row.status = "succeeded" => OutcomeOf(row) = "done"
         /\ row.status = "failed_needs_reconciliation" => OutcomeOf(row) = "uncertain"
  BY DEF OutcomeOf, SafeStatuses, ACTIVE_STATUSES, WORKER_OWNED_STATUSES

\* A written row leaves the outcome alone, or accepts or closes its run.
LEMMA OutcomeMoves ==
  ASSUME EInv, Writer = "databricks", NEW r \in Runs, NEW row \in Row, Changes(r, row)
  PROVE  \/ OutcomeOf(row) = OutcomeOf(run[r])
         \/ OutcomeOf(run[r]) = "none" /\ OutcomeOf(row) = "open"
         \/ /\ OutcomeOf(run[r]) = "open"
            /\ \E how \in {"safe", "done", "uncertain"} :
                 /\ OutcomeOf(row) = how
                 /\ how = "safe" => EffectOf(r) = "none"
                 /\ how = "done" => EffectOf(r) = "applied"
  <1>1. CASE row.status = run[r].status
    BY <1>1 DEF OutcomeOf
  <1>2. CASE run[r].status = "absent" /\ row.status = "queued"
    BY <1>2, OutcomeCases DEF ACTIVE_STATUSES, WORKER_OWNED_STATUSES
  <1>3. CASE \/ run[r].status \in Before /\ row.status \in Before \cup {"loading"}
             \/ run[r].status = "loading" /\ row.status = "verifying"
    BY <1>3, OutcomeCases DEF Before, ACTIVE_STATUSES, WORKER_OWNED_STATUSES
  <1>4. CASE Closes(r, row)
    <2>1. OutcomeOf(run[r]) = "open"
      BY <1>4, OutcomeCases DEF Closes
    <2>2. CASE row.status = "failed_needs_reconciliation"
      BY <2>1, <2>2, OutcomeCases
    <2>3. CASE row.status = "succeeded" /\ published[r] # {}
      BY <2>1, <2>3, OutcomeCases DEF EffectOf
    <2>4. CASE row.status \in SafeStatuses /\ ~Touched(r)
      BY <2>1, <2>4, OutcomeCases DEF EffectOf, Touched
    <2> QED
      BY <1>4, <2>2, <2>3, <2>4 DEF Closes
  <1> QED
    BY <1>1, <1>2, <1>3, <1>4 DEF Changes

\* With the ledger, a publication is submitted for an open run that has none.
LEMMA SubmitsFirst ==
  ASSUME EInv, Writer = "databricks", NEW p \in Procs, Submit(p)
  PROVE  /\ OutcomeOf(run[proc[p].run]) = "open"
         /\ ~Touched(proc[p].run)
  <1>0. IInv
    BY DEF EInv
  <1>1. proc[p].pc = "publish" /\ run[proc[p].run].token = proc[p].token
    BY DEF Submit, LedgerAllows, RowOf
  <1>2. proc[p].run \in Runs /\ run[proc[p].run].status = "verifying"
    BY <1>0, <1>1, PcFacts DEF IInv, TokensUnique, HolderInStep, StatusesAt, RowOf
  <1>3. OutcomeOf(run[proc[p].run]) = "open"
    BY <1>2, OutcomeCases DEF ACTIVE_STATUSES, WORKER_OWNED_STATUSES
  <1>4. ~Unsure(p)
    BY <1>1 DEF Unsure
  <1> QED
    BY <1>1, <1>2, <1>3, <1>4, PcFacts DEF EInv, RiskHeld

\* What a step does to the effect on one run.
LEMMA EffectMoves ==
  ASSUME EInv, Writer = "databricks", NEW r \in Runs, EffectMove(r)
  PROVE  \/ EffectOf(r)' = EffectOf(r)
         \/ EffectOf(r) = "pending" /\ EffectOf(r)' = "applied"
         \/ /\ EffectOf(r) = "none" /\ EffectOf(r)' = "pending"
            /\ OutcomeOf(run[r]) = "open"
  <1>1. CASE EffectKept(r)
    BY <1>1 DEF EffectKept, EffectOf
  <1>2. CASE Lands(r)
    BY <1>2 DEF Lands, EffectOf
  <1>3. ASSUME NEW p \in Procs, proc[p].run = r, Submits(p)
        PROVE  /\ EffectOf(r) = "none" /\ EffectOf(r)' = "pending"
               /\ OutcomeOf(run[r]) = "open"
    BY <1>3, SubmitsFirst DEF Submits, EffectOf, Touched
  <1> QED
    BY <1>1, <1>2, <1>3 DEF EffectMove, Rejects

\* Every step is a step of the contract, or leaves outcome and effect alone.
LEMMA StepKeepsContract ==
  ASSUME EInv, Writer = "databricks", [Next]_vars
  PROVE  [Contract!Next]_<<Outcomes, EffectsOf>>
  <1>0. run \in [Runs -> Row]
    BY DEF EInv, IInv, TypeOK
  <1>1. ASSUME NEW r \in Runs, NEW row, SetRow(r, row), Changes(r, row),
               UNCHANGED destination
        PROVE  [Contract!Next]_<<Outcomes, EffectsOf>>
    <2>1. row \in Row /\ run'[r] = row /\ \A q \in Runs \ {r} : run'[q] = run[q]
      <3>1. run' = [run EXCEPT ![r] = row] /\ run' \in [Runs -> Row]
        BY <1>1, NextInv DEF SetRow, EInv, IInv, TypeOK
      <3> QED
        BY <1>0, <3>1
    <2>2. EffectsOf' = EffectsOf
      BY <1>1 DEF EffectsOf, EffectOf, destination
    <2>3. Outcomes' = [Outcomes EXCEPT ![r] = OutcomeOf(row)]
      BY <2>1 DEF Outcomes
    <2>4. Outcomes[r] = OutcomeOf(run[r]) /\ EffectsOf[r] = EffectOf(r)
      BY DEF Outcomes, EffectsOf
    <2>5. CASE OutcomeOf(row) = OutcomeOf(run[r])
      BY <2>2, <2>3, <2>4, <2>5 DEF Outcomes
    <2>6. CASE OutcomeOf(run[r]) = "none" /\ OutcomeOf(row) = "open"
      BY <2>2, <2>3, <2>4, <2>6 DEF Contract!Next, Contract!Accept, Outcomes, EffectsOf
    <2>7. ASSUME NEW how \in {"safe", "done", "uncertain"}, OutcomeOf(run[r]) = "open",
                 OutcomeOf(row) = how, how = "safe" => EffectOf(r) = "none",
                 how = "done" => EffectOf(r) = "applied"
          PROVE  Contract!Next
      BY <2>2, <2>3, <2>4, <2>7
         DEF Contract!Next, Contract!Close, Contract!Closed, Outcomes, EffectsOf
    <2> QED
      BY <1>1, <2>1, <2>5, <2>6, <2>7, OutcomeMoves
  <1>2. ASSUME UNCHANGED run, NEW r \in Runs, EffectMove(r),
               \A q \in Runs \ {r} : EffectKept(q)
        PROVE  [Contract!Next]_<<Outcomes, EffectsOf>>
    <2>1. Outcomes' = Outcomes
      BY <1>2 DEF Outcomes
    <2>2. EffectsOf' = [EffectsOf EXCEPT ![r] = EffectOf(r)']
      BY <1>2 DEF EffectsOf, EffectOf, EffectKept
    <2>3. Outcomes[r] = OutcomeOf(run[r]) /\ EffectsOf[r] = EffectOf(r)
      BY DEF Outcomes, EffectsOf
    <2>4. CASE EffectOf(r)' = EffectOf(r)
      BY <2>1, <2>2, <2>3, <2>4 DEF EffectsOf
    <2>5. CASE EffectOf(r) = "pending" /\ EffectOf(r)' = "applied"
      BY <2>1, <2>2, <2>3, <2>5 DEF Contract!Next, Contract!Apply, Outcomes, EffectsOf
    <2>6. CASE /\ EffectOf(r) = "none" /\ EffectOf(r)' = "pending"
               /\ OutcomeOf(run[r]) = "open"
      BY <2>1, <2>2, <2>3, <2>6 DEF Contract!Next, Contract!Publish, Outcomes, EffectsOf
    <2> QED
      BY <1>2, <2>4, <2>5, <2>6, EffectMoves
  <1>3. CASE UNCHANGED run /\ \A r \in Runs : EffectKept(r)
    BY <1>3 DEF Outcomes, EffectsOf, EffectOf, EffectKept
  <1> QED
    BY <1>1, <1>2, <1>3, NextWrites, NextEffects DEF Writes, Effects, EInv

\* With the Databricks ledger the workers, through claims, recoveries, crashes and
\* lost answers, implement the contract: one publication per run, none after the
\* run has closed, and no outcome that claims more than is known.
THEOREM ContractKept ==
  ASSUME Writer = "databricks"
  PROVE  Spec => KeepsContract
  <1>1. Init => Contract!Init
    <2>1. AbsentRow.status = "absent"
      BY DEF AbsentRow, NewRow
    <2>2. OutcomeOf(AbsentRow) = "none"
      BY <2>1, OutcomeCases
    <2> SUFFICES ASSUME Init PROVE Contract!Init
      OBVIOUS
    <2>3. \A r \in Runs : OutcomeOf(run[r]) = "none"
      BY <2>2 DEF Init
    <2>4. \A r \in Runs : EffectOf(r) = "none"
      BY DEF Init, EffectOf
    <2>5. /\ [r \in Runs |-> OutcomeOf(run[r])] = [r \in Runs |-> "none"]
          /\ [r \in Runs |-> EffectOf(r)] = [r \in Runs |-> "none"]
      BY <2>3, <2>4
    <2> QED
      BY <2>5 DEF Contract!Init
  <1>2. EInv /\ [Next]_vars => [Contract!Next]_<<Outcomes, EffectsOf>>
    BY StepKeepsContract
  <1> QED
    BY <1>1, <1>2, EffectInvariant, PTL DEF Spec, KeepsContract, Contract!Spec, Outcomes, EffectsOf
==============================================================================
