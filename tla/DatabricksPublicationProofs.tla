-------------------- MODULE DatabricksPublicationProofs --------------------
(***************************************************************************)
(* The publication ledger of DatabricksPublication never claims more than  *)
(* happened, for any number of runs that publish to the table, any number  *)
(* of recovery processes, crashes, lost answers, rotated credentials and   *)
(* disabled owners.                                                        *)
(*                                                                         *)
(* The hypothesis ~Overrun is that a lease runs out only when its worker   *)
(* has stopped: then a worker and the recovery of its record never act at  *)
(* the same time (Phases).  InStep says what the record and the warehouse  *)
(* look like at each step of the worker, RowTrue what a record means, and  *)
(* Recovering what a recovery process knows, also after it lost its lease: *)
(* it drops a staging table only when no statement can read it any more.   *)
(***************************************************************************)
EXTENDS DatabricksPublication, TLAPS

Resting == {"expired", "ended"}

\* Recovery touches a record only when its worker has stopped.
Phases ==
    \A r \in Runs :
        /\ run[r] = "queued" => work[r] = "idle"
        /\ run[r] \in Resting => work[r] = "gone"
        /\ run[r] \notin Resting => rec[r].token = NoProc /\ rec[r].lease = "none"

\* The record (row), the staging table (b) and the statement (e) at step s of the
\* worker.
StepTrue(s, row, b, e) ==
    /\ s \in {"idle", "prepare"} => row.state = "absent"
    /\ s \in {"create", "create_failed", "ready"} => row.state = "preparing"
    /\ s \in {"load", "batch", "verify", "submit"} => row.state = "staging"
    /\ s \in {"execute", "answer", "unsure", "commit"} => row.state = "publishing"
    /\ s \in {"ready", "load", "batch", "verify", "submit", "execute", "answer"} => b
    /\ s = "commit" => e = "applied"
    /\ s \in {"drop", "confirm", "confirm_pending"} => row.state = "committed"
    /\ s \in {"execute", "abort", "aborted", "abort_failed"} => e = "none"
    /\ s \in {"abort", "aborted", "abort_failed"} => row.state \in {"staging", "publishing"}
    /\ s = "resubmit" => row.state \in {"publishing", "uncertain", "committed"}

InStep == \A r \in Runs : StepTrue(work[r], rec[r], staged[r], effect[r])

\* No statement that reads the staging table can come from this record any more.
Harmless(row) == ~row.submitted \/ row.confirmed

\* What a record says about the statement, and that it holds the fence while the
\* outcome is open.
Truthful(row, e) ==
    /\ row.confirmed => e = "applied"
    /\ e # "none" => row.submitted
    /\ row.state = "absent" => ~row.submitted /\ ~row.key
    /\ row.state \in {"preparing", "staging", "unchanged"} => ~row.submitted
    /\ row.state \in {"publishing", "uncertain"} => row.submitted
    /\ row.state = "cleanup_pending" => Harmless(row)
    /\ row.state \in {"committed", "complete"} => row.confirmed
    /\ row.state \in Resolved \cup {"absent"} => row.lease = "none"
    /\ row.state \in Resolved \cup {"cleanup_required"} => row.token = NoProc
    /\ row.state \notin Resolved \cup {"absent"} => row.confirmed \/ row.key

RowTrue == \A r \in Runs : Truthful(rec[r], effect[r])

\* The unique index on active_target_key.
FenceUnique == \A q, r \in Runs : rec[q].key /\ rec[r].key => q = r

\* What a recovery process knows about the record it works on, lease or no lease.
Knows(op, row, e) ==
    /\ row.state # "absent"
    /\ op.pc = "found" => e = "applied"
    /\ op.state \in {"publishing", "uncertain"} => row.submitted
    /\ op.pc \in {"ask", "unknown"} => op.state \in {"publishing", "uncertain"}
    /\ \/ op.pc \in {"cleanup", "finish"}
       \/ op.pc = "failed" /\ op.state \notin {"publishing", "uncertain"}
       => Harmless(row)

Recovering ==
    \A p \in Procs : rcv[p].pc # "idle" =>
        /\ rcv[p].run \in Runs /\ run[rcv[p].run] \in Resting
        /\ Knows(rcv[p], rec[rcv[p].run], effect[rcv[p].run])

SentStaged == \A r \in Runs : effect[r] = "sent" => staged[r]

IInv == TypeOK /\ Phases /\ InStep /\ RowTrue /\ FenceUnique /\ Recovering /\ SentStaged

\* The initial states satisfy the invariant.
LEMMA InitInv == Init => IInv
  <1> SUFFICES ASSUME Init PROVE IInv
    OBVIOUS
  <1>1. /\ Absent \in Record /\ Absent.state = "absent" /\ ~Absent.key /\ ~Absent.submitted
        /\ ~Absent.confirmed /\ Absent.token = NoProc /\ Absent.lease = "none"
    BY DEF Absent, Record, States
  <1>2. TypeOK
    BY <1>1 DEF Init, TypeOK, NoOperation, Steps, States
  <1>3. Phases /\ FenceUnique /\ SentStaged
    BY <1>1 DEF Init, Phases, FenceUnique, SentStaged, Resting
  <1>4. InStep /\ RowTrue
    BY <1>1 DEF Init, InStep, StepTrue, RowTrue, Truthful, Harmless, Resolved
  <1>5. Recovering
    BY DEF Init, Recovering, NoOperation
  <1> QED
    BY <1>2, <1>3, <1>4, <1>5 DEF IInv

------------------------------------------------------------------------------
(* Steps of a worker: they touch one run that no recovery process is at.    *)

Effects == {"none", "sent", "applied", "rejected"}

\* A worker moves to step s, leaving its record, staging table and statement as
\* row, b and e.
LEMMA WorkerMoves ==
  ASSUME IInv, NEW r \in Runs, work[r] \notin {"idle", "gone"},
         NEW row \in Record, NEW s \in Steps \ {"idle"}, NEW b \in BOOLEAN, NEW e \in Effects,
         rec' = [rec EXCEPT ![r] = row], work' = [work EXCEPT ![r] = s],
         staged' = [staged EXCEPT ![r] = b], effect' = [effect EXCEPT ![r] = e],
         UNCHANGED <<run, rcv, owner, creds>>,
         row.token = NoProc, row.lease = "none", fence_open(r, row),
         StepTrue(s, row, b, e), Truthful(row, e), e = "sent" => b
  PROVE  IInv'
  <1>0. TypeOK /\ run[r] \notin Resting /\ run[r] # "queued"
    BY DEF IInv, Phases
  <1>1. /\ rec'[r] = row /\ work'[r] = s /\ staged'[r] = b /\ effect'[r] = e
        /\ \A q \in Runs \ {r} : /\ rec'[q] = rec[q] /\ work'[q] = work[q]
                                 /\ staged'[q] = staged[q] /\ effect'[q] = effect[q]
    BY <1>0 DEF TypeOK
  <1>2. TypeOK'
    BY <1>0 DEF TypeOK, Effects
  <1>3. Phases'
    BY <1>0, <1>1 DEF IInv, Phases
  <1>4. InStep' /\ RowTrue'
    <2>1. \A q \in Runs : /\ StepTrue(work'[q], rec'[q], staged'[q], effect'[q])
                          /\ Truthful(rec'[q], effect'[q])
      BY <1>1 DEF IInv, InStep, RowTrue
    <2> QED
      BY <2>1 DEF InStep, RowTrue, StepTrue, Truthful, Harmless
  <1>5. FenceUnique'
    BY <1>0, <1>1 DEF IInv, FenceUnique, fence_open
  <1>6. Recovering'
    <2> SUFFICES ASSUME NEW p \in Procs, rcv'[p].pc # "idle"
                 PROVE  /\ rcv'[p].run \in Runs /\ run'[rcv'[p].run] \in Resting
                        /\ Knows(rcv[p], rec[rcv[p].run], effect[rcv[p].run])'
      BY DEF Recovering
    <2>1. /\ rcv[p].run \in Runs /\ run[rcv[p].run] \in Resting
          /\ Knows(rcv[p], rec[rcv[p].run], effect[rcv[p].run])
      BY DEF IInv, Recovering
    <2> QED
      BY <1>0, <1>1, <2>1 DEF Knows, Harmless
  <1>7. SentStaged'
    BY <1>1 DEF IInv, SentStaged
  <1> QED
    BY <1>2, <1>3, <1>4, <1>5, <1>6, <1>7 DEF IInv

\* A worker moves and leaves its record alone.
LEMMA WorkerGoes ==
  ASSUME IInv, NEW r \in Runs, work[r] \notin {"idle", "gone"},
         NEW s \in Steps \ {"idle"}, NEW b \in BOOLEAN, NEW e \in Effects,
         Goto(r, s), staged' = [staged EXCEPT ![r] = b], effect' = [effect EXCEPT ![r] = e],
         UNCHANGED <<run, rec, rcv, owner, creds>>,
         StepTrue(s, rec[r], b, e), Truthful(rec[r], e), e = "sent" => b
  PROVE  IInv'
  <1>1. rec[r] \in Record /\ rec' = [rec EXCEPT ![r] = rec[r]]
    BY DEF IInv, TypeOK
  <1>2. rec[r].token = NoProc /\ rec[r].lease = "none" /\ fence_open(r, rec[r])
    BY DEF IInv, Phases, FenceUnique, fence_open
  <1> QED
    BY <1>1, <1>2, WorkerMoves DEF Goto

\* A worker reports an event: it is accepted and the worker goes on, or not.
LEMMA ReportKeeps ==
  ASSUME IInv, NEW r \in Runs, NEW from, NEW event, NEW ok \in Steps \ {"idle"},
         NEW bad \in Steps \ {"idle"}, from \notin {"idle", "gone"},
         Report(r, from, event, ok, bad),
         StepTrue(bad, rec[r], staged[r], effect[r]),
         NEW row \in Record, accepted(r, event) => row = published(rec[r], event),
         accepted(r, event) =>
            /\ row.token = NoProc /\ row.lease = "none"
            /\ Truthful(row, effect[r])
            /\ \A s \in {ok, bad} : StepTrue(s, row, staged[r], effect[r])
  PROVE  IInv'
  <1>0. /\ work[r] = from /\ TypeOK /\ staged' = [staged EXCEPT ![r] = staged[r]]
        /\ effect' = [effect EXCEPT ![r] = effect[r]]
        /\ staged[r] \in BOOLEAN /\ effect[r] \in Effects
        /\ effect[r] = "sent" => staged[r]
        /\ Truthful(rec[r], effect[r])
    BY DEF Report, IInv, TypeOK, SentStaged, Effects, RowTrue
  <1>1. CASE rec' = rec /\ work' = [work EXCEPT ![r] = bad]
    BY <1>0, <1>1, WorkerGoes DEF Report, Goto
  <1>2. ASSUME accepted(r, event), NEW s \in {ok, bad}, work' = [work EXCEPT ![r] = s],
               rec' = [rec EXCEPT ![r] = row]
        PROVE  IInv'
    <2>1. fence_open(r, row)
      BY <1>2 DEF accepted
    <2> QED
      BY <1>0, <1>2, <2>1, WorkerMoves DEF Report
  <1> QED
    BY <1>1, <1>2 DEF Report

\* new is a record with these columns.
IsRow(new, state, key, submitted, confirmed, token, lease) ==
    /\ new \in Record
    /\ new.state = state /\ new.token = token /\ new.lease = lease
    /\ new.key <=> key
    /\ new.submitted <=> submitted
    /\ new.confirmed <=> confirmed

\* What each event makes of a record of the ledger (record_publication_event).
LEMMA EventRows ==
  ASSUME NEW row \in Record
  PROVE  /\ IsRow(published(row, "prepare_started"),
                  "preparing", TRUE, FALSE, FALSE, NoProc, "none")
         /\ IsRow(published(row, "staging_ready"),
                  "staging", row.key, row.submitted, row.confirmed, row.token, row.lease)
         /\ IsRow(published(row, "batch_written"),
                  row.state, row.key, row.submitted, row.confirmed, row.token, row.lease)
         /\ IsRow(published(row, "publish_submitted"),
                  "publishing", row.key, TRUE, row.confirmed, row.token, row.lease)
         /\ IsRow(published(row, "committed"),
                  "committed", FALSE, row.submitted, TRUE, row.token, row.lease)
         /\ IsRow(published(row, "publish_uncertain"),
                  "uncertain", TRUE, row.submitted, row.confirmed, row.token, row.lease)
         /\ IsRow(published(row, "cleanup_pending"), "cleanup_pending",
                  row.key \/ ~row.confirmed, row.submitted, row.confirmed, row.token, row.lease)
         /\ IsRow(published(row, "cleanup_confirmed"),
                  IF row.confirmed THEN "complete" ELSE "unchanged",
                  FALSE, row.submitted, row.confirmed, NoProc, "none")
         /\ IsRow(published(row, "abort_confirmed"),
                  "unchanged", FALSE, row.submitted, row.confirmed, row.token, row.lease)
         /\ IsRow(published(row, "abort_uncertain"),
                  IF row.submitted THEN "uncertain" ELSE "cleanup_pending",
                  TRUE, row.submitted, row.confirmed, row.token, row.lease)
  <1>1. IsRow(published(row, "prepare_started"),
              "preparing", TRUE, FALSE, FALSE, NoProc, "none")
    BY DEF published, IsRow, Record, States, Absent
  <1>2. IsRow(published(row, "staging_ready"),
              "staging", row.key, row.submitted, row.confirmed, row.token, row.lease)
    BY DEF published, IsRow, Record, States, Absent
  <1>3. IsRow(published(row, "batch_written"),
              row.state, row.key, row.submitted, row.confirmed, row.token, row.lease)
    BY DEF published, IsRow, Record, States, Absent
  <1>4. IsRow(published(row, "publish_submitted"),
              "publishing", row.key, TRUE, row.confirmed, row.token, row.lease)
    BY DEF published, IsRow, Record, States, Absent
  <1>5. IsRow(published(row, "committed"),
              "committed", FALSE, row.submitted, TRUE, row.token, row.lease)
    BY DEF published, IsRow, Record, States, Absent
  <1>6. IsRow(published(row, "publish_uncertain"),
              "uncertain", TRUE, row.submitted, row.confirmed, row.token, row.lease)
    BY DEF published, IsRow, Record, States, Absent
  <1>7. IsRow(published(row, "cleanup_pending"), "cleanup_pending",
              row.key \/ ~row.confirmed, row.submitted, row.confirmed, row.token, row.lease)
    BY DEF published, IsRow, Record, States, Absent
  <1>8. IsRow(published(row, "cleanup_confirmed"),
              IF row.confirmed THEN "complete" ELSE "unchanged",
              FALSE, row.submitted, row.confirmed, NoProc, "none")
    BY DEF published, IsRow, Record, States, Absent
  <1>9. IsRow(published(row, "abort_confirmed"),
              "unchanged", FALSE, row.submitted, row.confirmed, row.token, row.lease)
    BY DEF published, IsRow, Record, States, Absent
  <1>10. IsRow(published(row, "abort_uncertain"),
              IF row.submitted THEN "uncertain" ELSE "cleanup_pending",
              TRUE, row.submitted, row.confirmed, row.token, row.lease)
    BY DEF published, IsRow, Record, States, Absent
  <1> QED
    BY <1>1, <1>2, <1>3, <1>4, <1>5, <1>6, <1>7, <1>8, <1>9, <1>10

\* Every event a worker reports keeps the invariant.
LEMMA EventStep ==
  ASSUME IInv, NEW r \in Runs,
         \/ prepare_started(r) \/ create_failed(r) \/ staging_ready(r) \/ batch_written(r)
         \/ publish_submitted(r) \/ publish_uncertain(r) \/ committed(r) \/ cleanup_confirmed(r)
         \/ cleanup_pending(r) \/ abort_confirmed(r) \/ abort_uncertain(r) \/ abort_submitted(r)
  PROVE  IInv'
  <1>0. /\ rec[r] \in Record /\ Truthful(rec[r], effect[r])
        /\ StepTrue(work[r], rec[r], staged[r], effect[r])
        /\ work[r] \notin {"idle", "gone"} => rec[r].token = NoProc /\ rec[r].lease = "none"
    BY DEF IInv, TypeOK, RowTrue, InStep, Phases
  <1> USE DEF Record, States, Truthful, StepTrue, Harmless, Resolved
  <1>1. CASE prepare_started(r)
    <2> DEFINE row == published(rec[r], "prepare_started")
    <2>1. work[r] = "prepare" /\ Report(r, "prepare", "prepare_started", "create", "end")
      BY <1>1 DEF prepare_started, Report
    <2>2. /\ row \in Record /\ row.token = NoProc /\ row.lease = "none"
          /\ accepted(r, "prepare_started") => Truthful(row, effect[r])
          /\ \A s \in {"create", "end"} : StepTrue(s, row, staged[r], effect[r])
      BY <1>0, <2>1, EventRows DEF accepted, IsRow
    <2>3. StepTrue("end", rec[r], staged[r], effect[r])
      BY <1>0, <2>1
    <2> QED
      BY <2>1, <2>2, <2>3, ReportKeeps DEF Steps
  <1>2. CASE create_failed(r)
    <2> DEFINE row == published(rec[r], "abort_uncertain")
    <2>1. work[r] = "create_failed" /\ Report(r, "create_failed", "abort_uncertain", "end", "end")
      BY <1>2 DEF create_failed, Report
    <2>2. /\ row \in Record /\ row.token = NoProc /\ row.lease = "none"
          /\ accepted(r, "abort_uncertain") => Truthful(row, effect[r])
          /\ \A s \in {"end", "end"} : StepTrue(s, row, staged[r], effect[r])
      BY <1>0, <2>1, EventRows DEF accepted, IsRow
    <2>3. StepTrue("end", rec[r], staged[r], effect[r])
      BY <1>0, <2>1
    <2> QED
      BY <2>1, <2>2, <2>3, ReportKeeps DEF Steps
  <1>3. CASE staging_ready(r)
    <2> DEFINE row == published(rec[r], "staging_ready")
    <2>1. work[r] = "ready" /\ Report(r, "ready", "staging_ready", "load", "end")
      BY <1>3 DEF staging_ready, Report
    <2>2. /\ row \in Record /\ row.token = NoProc /\ row.lease = "none"
          /\ accepted(r, "staging_ready") => Truthful(row, effect[r])
          /\ \A s \in {"load", "end"} : StepTrue(s, row, staged[r], effect[r])
      BY <1>0, <2>1, EventRows DEF accepted, IsRow
    <2>3. StepTrue("end", rec[r], staged[r], effect[r])
      BY <1>0, <2>1
    <2> QED
      BY <2>1, <2>2, <2>3, ReportKeeps DEF Steps
  <1>4. CASE batch_written(r)
    <2> DEFINE row == published(rec[r], "batch_written")
    <2>1. work[r] = "batch" /\ Report(r, "batch", "batch_written", "verify", "abort")
      BY <1>4 DEF batch_written, Report
    <2>2. /\ row \in Record /\ row.token = NoProc /\ row.lease = "none"
          /\ accepted(r, "batch_written") => Truthful(row, effect[r])
          /\ \A s \in {"verify", "abort"} : StepTrue(s, row, staged[r], effect[r])
      BY <1>0, <2>1, EventRows DEF accepted, IsRow
    <2>3. StepTrue("abort", rec[r], staged[r], effect[r])
      BY <1>0, <2>1
    <2> QED
      BY <2>1, <2>2, <2>3, ReportKeeps DEF Steps
  <1>5. CASE publish_submitted(r)
    <2> DEFINE row == published(rec[r], "publish_submitted")
    <2>1. work[r] = "submit" /\ Report(r, "submit", "publish_submitted", "execute", "abort")
      BY <1>5 DEF publish_submitted, Report
    <2>2. /\ row \in Record /\ row.token = NoProc /\ row.lease = "none"
          /\ accepted(r, "publish_submitted") => Truthful(row, effect[r])
          /\ \A s \in {"execute", "abort"} : StepTrue(s, row, staged[r], effect[r])
      BY <1>0, <2>1, EventRows DEF accepted, IsRow
    <2>3. StepTrue("abort", rec[r], staged[r], effect[r])
      BY <1>0, <2>1
    <2> QED
      BY <2>1, <2>2, <2>3, ReportKeeps DEF Steps
  <1>6. CASE publish_uncertain(r)
    <2> DEFINE row == published(rec[r], "publish_uncertain")
    <2>1. work[r] = "unsure" /\ Report(r, "unsure", "publish_uncertain", "resubmit", "resubmit")
      BY <1>6 DEF publish_uncertain, Report
    <2>2. /\ row \in Record /\ row.token = NoProc /\ row.lease = "none"
          /\ accepted(r, "publish_uncertain") => Truthful(row, effect[r])
          /\ \A s \in {"resubmit", "resubmit"} : StepTrue(s, row, staged[r], effect[r])
      BY <1>0, <2>1, EventRows DEF accepted, IsRow
    <2>3. StepTrue("resubmit", rec[r], staged[r], effect[r])
      BY <1>0, <2>1
    <2> QED
      BY <2>1, <2>2, <2>3, ReportKeeps DEF Steps
  <1>7. CASE committed(r)
    <2> DEFINE row == published(rec[r], "committed")
    <2>1. work[r] = "commit" /\ Report(r, "commit", "committed", "drop", "resubmit")
      BY <1>7 DEF committed, Report
    <2>2. /\ row \in Record /\ row.token = NoProc /\ row.lease = "none"
          /\ accepted(r, "committed") => Truthful(row, effect[r])
          /\ \A s \in {"drop", "resubmit"} : StepTrue(s, row, staged[r], effect[r])
      BY <1>0, <2>1, EventRows DEF accepted, IsRow
    <2>3. StepTrue("resubmit", rec[r], staged[r], effect[r])
      BY <1>0, <2>1
    <2> QED
      BY <2>1, <2>2, <2>3, ReportKeeps DEF Steps
  <1>8. CASE cleanup_confirmed(r)
    <2> DEFINE row == published(rec[r], "cleanup_confirmed")
    <2>1. work[r] = "confirm" /\ Report(r, "confirm", "cleanup_confirmed", "end", "end")
      BY <1>8 DEF cleanup_confirmed, Report
    <2>2. /\ row \in Record /\ row.token = NoProc /\ row.lease = "none"
          /\ accepted(r, "cleanup_confirmed") => Truthful(row, effect[r])
          /\ \A s \in {"end", "end"} : StepTrue(s, row, staged[r], effect[r])
      BY <1>0, <2>1, EventRows DEF accepted, IsRow
    <2>3. StepTrue("end", rec[r], staged[r], effect[r])
      BY <1>0, <2>1
    <2> QED
      BY <2>1, <2>2, <2>3, ReportKeeps DEF Steps
  <1>9. CASE cleanup_pending(r)
    <2> DEFINE row == published(rec[r], "cleanup_pending")
    <2>1. work[r] = "confirm_pending" /\ Report(r, "confirm_pending", "cleanup_pending", "end", "end")
      BY <1>9 DEF cleanup_pending, Report
    <2>2. /\ row \in Record /\ row.token = NoProc /\ row.lease = "none"
          /\ accepted(r, "cleanup_pending") => Truthful(row, effect[r])
          /\ \A s \in {"end", "end"} : StepTrue(s, row, staged[r], effect[r])
      BY <1>0, <2>1, EventRows DEF accepted, IsRow
    <2>3. StepTrue("end", rec[r], staged[r], effect[r])
      BY <1>0, <2>1
    <2> QED
      BY <2>1, <2>2, <2>3, ReportKeeps DEF Steps
  <1>10. CASE abort_confirmed(r)
    <2> DEFINE row == published(rec[r], "abort_confirmed")
    <2>1. work[r] = "aborted" /\ Report(r, "aborted", "abort_confirmed", "end", "end")
      BY <1>10 DEF abort_confirmed, Report
    <2>2. /\ row \in Record /\ row.token = NoProc /\ row.lease = "none"
          /\ accepted(r, "abort_confirmed") => Truthful(row, effect[r])
          /\ \A s \in {"end", "end"} : StepTrue(s, row, staged[r], effect[r])
      BY <1>0, <2>1, EventRows DEF accepted, IsRow
    <2>3. StepTrue("end", rec[r], staged[r], effect[r])
      BY <1>0, <2>1
    <2> QED
      BY <2>1, <2>2, <2>3, ReportKeeps DEF Steps
  <1>11. CASE abort_uncertain(r)
    <2> DEFINE row == published(rec[r], "abort_uncertain")
    <2>1. work[r] = "abort_failed" /\ Report(r, "abort_failed", "abort_uncertain", "end", "end")
      BY <1>11 DEF abort_uncertain, Report
    <2>2. /\ row \in Record /\ row.token = NoProc /\ row.lease = "none"
          /\ accepted(r, "abort_uncertain") => Truthful(row, effect[r])
          /\ \A s \in {"end", "end"} : StepTrue(s, row, staged[r], effect[r])
      BY <1>0, <2>1, EventRows DEF accepted, IsRow
    <2>3. StepTrue("end", rec[r], staged[r], effect[r])
      BY <1>0, <2>1
    <2> QED
      BY <2>1, <2>2, <2>3, ReportKeeps DEF Steps
  <1>12. CASE abort_submitted(r)
    <2> DEFINE row == published(rec[r], "publish_uncertain")
    <2>1. work[r] = "resubmit" /\ Report(r, "resubmit", "publish_uncertain", "end", "end")
      BY <1>12 DEF abort_submitted, Report
    <2>2. /\ row \in Record /\ row.token = NoProc /\ row.lease = "none"
          /\ accepted(r, "publish_uncertain") => Truthful(row, effect[r])
          /\ \A s \in {"end", "end"} : StepTrue(s, row, staged[r], effect[r])
      BY <1>0, <2>1, EventRows DEF accepted, IsRow
    <2>3. StepTrue("end", rec[r], staged[r], effect[r])
      BY <1>0, <2>1
    <2> QED
      BY <2>1, <2>2, <2>3, ReportKeeps DEF Steps
  <1> QED
    BY <1>1, <1>2, <1>3, <1>4, <1>5, <1>6, <1>7, <1>8, <1>9, <1>10, <1>11, <1>12

\* The steps of a worker that report nothing: statements and decisions.
LEMMA StatementStep ==
  ASSUME IInv, NEW r \in Runs,
         \/ CreateStaging(r) \/ write_batch(r) \/ Checkpoint(r) \/ Execute(r) \/ Answer(r)
         \/ drop_after_commit(r) \/ abort_drop(r) \/ Crash(r)
  PROVE  IInv'
  <1>0. /\ TypeOK /\ rec[r] \in Record /\ Truthful(rec[r], effect[r])
        /\ StepTrue(work[r], rec[r], staged[r], effect[r])
        /\ staged[r] \in BOOLEAN /\ effect[r] \in Effects
        /\ effect[r] = "sent" => staged[r]
        /\ staged = [staged EXCEPT ![r] = staged[r]]
        /\ effect = [effect EXCEPT ![r] = effect[r]]
    BY DEF IInv, TypeOK, RowTrue, InStep, Effects, SentStaged
  <1>1. CASE CreateStaging(r)
    <2>1. /\ work[r] = "create" /\ effect[r] = "none"
          /\ UNCHANGED <<run, rec, effect, rcv, owner, creds>>
      BY <1>0, <1>1 DEF CreateStaging, StepTrue, Truthful
    <2>2. ASSUME NEW b \in BOOLEAN, NEW s \in {"ready", "end", "create_failed"},
                 s = "ready" => b, staged' = [staged EXCEPT ![r] = b], Goto(r, s)
          PROVE  IInv'
      <3>1. StepTrue(s, rec[r], b, effect[r])
        BY <1>0, <2>1, <2>2 DEF StepTrue
      <3>2. s \in Steps \ {"idle"} /\ effect' = [effect EXCEPT ![r] = effect[r]]
        BY <1>0, <2>1 DEF Steps
      <3> QED
        BY <1>0, <2>1, <2>2, <3>1, <3>2, WorkerGoes
    <2>3. CASE creds = "current" /\ staged' = [staged EXCEPT ![r] = TRUE] /\ Goto(r, "ready")
      BY <2>2, <2>3
    <2>4. CASE staged' = staged /\ Goto(r, "end")
      BY <1>0, <2>2, <2>4
    <2>5. CASE \E b \in BOOLEAN :
                  staged' = [staged EXCEPT ![r] = b] /\ Goto(r, "create_failed")
      BY <2>2, <2>5
    <2> QED
      BY <1>1, <2>3, <2>4, <2>5 DEF CreateStaging
  <1>2. ASSUME NEW s \in Steps \ {"idle"}, work[r] \notin {"idle", "gone"}, Goto(r, s),
               StepTrue(s, rec[r], staged[r], effect[r]),
               UNCHANGED <<run, rec, staged, effect, rcv, owner, creds>>
        PROVE  IInv'
    <2>1. /\ staged' = [staged EXCEPT ![r] = staged[r]]
          /\ effect' = [effect EXCEPT ![r] = effect[r]]
      BY <1>0, <1>2
    <2> QED
      BY <1>0, <1>2, <2>1, WorkerGoes
  <1>3. CASE write_batch(r)
    BY <1>0, <1>2, <1>3 DEF write_batch, StepTrue, Truthful, Steps
  <1>4. CASE Checkpoint(r)
    BY <1>0, <1>2, <1>4 DEF Checkpoint, StepTrue, Truthful, Steps
  <1>5. CASE Execute(r)
    <2>1. /\ work[r] = "execute" /\ Goto(r, "answer") /\ staged[r]
          /\ effect' = [effect EXCEPT ![r] = "sent"] /\ "sent" \in Effects
          /\ UNCHANGED <<run, rec, staged, rcv, owner, creds>>
      BY <1>0, <1>5 DEF Execute, StepTrue, Effects
    <2>2. StepTrue("answer", rec[r], staged[r], "sent") /\ Truthful(rec[r], "sent")
      BY <1>0, <2>1 DEF StepTrue, Truthful
    <2> QED
      BY <1>0, <2>1, <2>2, WorkerGoes DEF Steps
  <1>6. CASE Answer(r)
    BY <1>0, <1>2, <1>6 DEF Answer, StepTrue, Steps
  <1>7. ASSUME NEW from \in {"drop", "abort"}, NEW ok \in Steps \ {"idle"},
               NEW bad \in Steps \ {"idle"}, Drop(r, from, ok, bad),
               \A s \in {ok, bad} : StepTrue(s, rec[r], FALSE, effect[r])
                                    /\ StepTrue(s, rec[r], staged[r], effect[r])
        PROVE  IInv'
    <2>1. /\ work[r] = from /\ effect[r] # "sent"
          /\ UNCHANGED <<run, rec, effect, rcv, owner, creds>>
      BY <1>0, <1>7 DEF Drop, StepTrue, Truthful
    <2>2. PICK b \in {staged[r], FALSE}, s \in {ok, bad} :
             staged' = [staged EXCEPT ![r] = b] /\ Goto(r, s)
      BY <1>7 DEF Drop
    <2>3. /\ b \in BOOLEAN /\ s \in Steps \ {"idle"} /\ StepTrue(s, rec[r], b, effect[r])
          /\ effect' = [effect EXCEPT ![r] = effect[r]]
      BY <1>0, <1>7, <2>1, <2>2
    <2> QED
      BY <1>0, <1>7, <2>1, <2>2, <2>3, WorkerGoes
  <1>8. CASE drop_after_commit(r)
    <2>1. work[r] = "drop" /\ Drop(r, "drop", "confirm", "confirm_pending")
      BY <1>8 DEF drop_after_commit, Drop
    <2>2. \A s \in {"confirm", "confirm_pending"} :
             /\ s \in Steps \ {"idle"}
             /\ StepTrue(s, rec[r], FALSE, effect[r])
             /\ StepTrue(s, rec[r], staged[r], effect[r])
      BY <1>0, <2>1 DEF StepTrue, Steps
    <2> QED
      BY <1>7, <2>1, <2>2
  <1>9. CASE abort_drop(r)
    <2>1. work[r] = "abort" /\ Drop(r, "abort", "aborted", "abort_failed")
      BY <1>9 DEF abort_drop, Drop
    <2>2. \A s \in {"aborted", "abort_failed"} :
             /\ s \in Steps \ {"idle"}
             /\ StepTrue(s, rec[r], FALSE, effect[r])
             /\ StepTrue(s, rec[r], staged[r], effect[r])
      BY <1>0, <2>1 DEF StepTrue, Steps
    <2> QED
      BY <1>7, <2>1, <2>2
  <1>10. CASE Crash(r)
    BY <1>0, <1>2, <1>10 DEF Crash, StepTrue, Steps
  <1> QED
    BY <1>1, <1>3, <1>4, <1>5, <1>6, <1>8, <1>9, <1>10

\* A run starts, ends, loses its lease or is taken over.  Without an overrun the
\* lease is lost only when the worker has stopped.
LEMMA RunStep ==
  ASSUME IInv, ~Overrun, NEW r \in Runs,
         Start(r) \/ EndRun(r) \/ LeaseExpires(r) \/ TakeOver(r)
  PROVE  IInv'
  <1>0. TypeOK /\ Phases /\ InStep
    BY DEF IInv
  <1>1. UNCHANGED <<rec, staged, effect, rcv, owner, creds>>
    BY DEF Start, EndRun, LeaseExpires, TakeOver
  <1>2. PICK t \in {"live", "expired", "ended"}, s \in {"prepare", "gone"} :
           /\ run' = [run EXCEPT ![r] = t] /\ work' = [work EXCEPT ![r] = s]
           /\ s = "prepare" => work[r] = "idle" /\ t = "live" /\ run[r] = "queued"
           /\ s = "gone" => t \in Resting
    <2>1. CASE Start(r)
      BY <1>0, <2>1 DEF Start, Goto, Phases
    <2>2. CASE EndRun(r)
      <3>1. run[r] = "live"
        BY <1>0, <2>2 DEF EndRun, TypeOK, Phases, Resting
      <3> QED
        BY <2>2, <3>1 DEF EndRun, Goto, Resting
    <2>3. CASE LeaseExpires(r) \/ TakeOver(r)
      <3>1. work[r] = "gone" /\ UNCHANGED work
        BY <1>0, <2>3 DEF LeaseExpires, TakeOver, Phases, Resting
      <3>2. work' = [work EXCEPT ![r] = "gone"]
        BY <1>0, <3>1 DEF TypeOK
      <3> QED
        BY <2>3, <3>2 DEF LeaseExpires, TakeOver, Resting
    <2> QED
      BY <2>1, <2>2, <2>3
  <1>3. /\ run'[r] = t /\ work'[r] = s
        /\ \A q \in Runs \ {r} : run'[q] = run[q] /\ work'[q] = work[q]
    BY <1>0, <1>2 DEF TypeOK
  <1>4. TypeOK'
    BY <1>0, <1>1, <1>2 DEF TypeOK, Steps
  <1>5. Phases'
    BY <1>0, <1>1, <1>2, <1>3 DEF Phases, Resting
  <1>6. InStep'
    <2>1. StepTrue(work[r], rec[r], staged[r], effect[r])
      BY <1>0 DEF InStep
    <2>2. StepTrue(s, rec[r], staged[r], effect[r])
      BY <1>2, <2>1 DEF StepTrue
    <2> QED
      BY <1>0, <1>1, <1>3, <2>2 DEF InStep
  <1>7. RowTrue' /\ FenceUnique' /\ SentStaged'
    BY <1>1 DEF IInv, RowTrue, FenceUnique, SentStaged, Truthful, Harmless
  <1>8. Recovering'
    <2>1. \A q \in Runs : run[q] \in Resting => run'[q] \in Resting
      BY <1>2, <1>3 DEF Resting
    <2> QED
      BY <1>1, <2>1 DEF IInv, Recovering, Knows, Harmless
  <1> QED
    BY <1>4, <1>5, <1>6, <1>7, <1>8 DEF IInv

\* The warehouse applies or rejects a statement, at any time.
LEMMA LandStep ==
  ASSUME IInv, NEW r \in Runs, Land(r)
  PROVE  IInv'
  <1>0. TypeOK /\ effect[r] = "sent" /\ UNCHANGED <<run, work, rec, staged, rcv, owner, creds>>
    BY DEF IInv, Land
  <1>1. PICK e \in {"applied", "rejected"} : effect' = [effect EXCEPT ![r] = e]
    BY DEF Land
  <1>2. effect'[r] = e /\ \A q \in Runs \ {r} : effect'[q] = effect[q]
    BY <1>0, <1>1 DEF TypeOK
  <1>3. TypeOK'
    BY <1>0, <1>1 DEF TypeOK
  <1>4. /\ StepTrue(work[r], rec[r], staged[r], e) /\ Truthful(rec[r], e)
    BY <1>0 DEF IInv, InStep, RowTrue, StepTrue, Truthful
  <1>5. InStep' /\ RowTrue'
    BY <1>0, <1>2, <1>4 DEF IInv, InStep, RowTrue
  <1>6. Recovering'
    BY <1>0, <1>2 DEF IInv, Recovering, Knows
  <1>7. Phases' /\ FenceUnique' /\ SentStaged'
    BY <1>0, <1>2 DEF IInv, Phases, FenceUnique, SentStaged
  <1> QED
    BY <1>3, <1>5, <1>6, <1>7 DEF IInv

------------------------------------------------------------------------------
(* Steps of recovery: they touch one record whose worker has stopped.       *)

Operation == [pc : {"idle", "load", "ask", "found", "unknown", "cleanup", "finish", "failed"},
              run : Runs \cup {NoProc}, state : States]

\* A record becomes row and its staging table b; whoever works on it knows at
\* least as much about it as before.
LEMMA RecordMoves ==
  ASSUME IInv, NEW q \in Runs, run[q] \in Resting, rec[q].state # "absent",
         NEW row \in Record, NEW b \in BOOLEAN,
         rec' = [rec EXCEPT ![q] = row], staged' = [staged EXCEPT ![q] = b],
         UNCHANGED <<run, work, effect, owner, creds>>,
         row.key => rec[q].key, row.state # "absent", Truthful(row, effect[q]),
         Harmless(rec[q]) => Harmless(row), rec[q].submitted => row.submitted, effect[q] = "sent" => b,
         rcv' \in [Procs -> Operation],
         \A p \in Procs : rcv'[p].pc # "idle" =>
            rcv'[p] = rcv[p] \/ (rcv'[p].run = q /\ Knows(rcv'[p], row, effect[q]))
  PROVE  IInv'
  <1>0. TypeOK /\ work[q] = "gone"
    BY DEF IInv, Phases
  <1>1. /\ rec'[q] = row /\ staged'[q] = b
        /\ \A r \in Runs \ {q} : rec'[r] = rec[r] /\ staged'[r] = staged[r]
    BY <1>0 DEF TypeOK
  <1>2. TypeOK'
    BY <1>0 DEF TypeOK, Operation
  <1>3. Phases'
    BY <1>1 DEF IInv, Phases
  <1>4. InStep' /\ RowTrue'
    <2>1. StepTrue("gone", row, b, effect[q])
      BY DEF StepTrue
    <2> QED
      BY <1>0, <1>1, <2>1 DEF IInv, InStep, RowTrue
  <1>5. FenceUnique'
    BY <1>1 DEF IInv, FenceUnique
  <1>6. Recovering'
    <2> SUFFICES ASSUME NEW p \in Procs, rcv'[p].pc # "idle"
                 PROVE  /\ rcv'[p].run \in Runs /\ run'[rcv'[p].run] \in Resting
                        /\ Knows(rcv[p], rec[rcv[p].run], effect[rcv[p].run])'
      BY DEF Recovering
    <2>1. CASE rcv'[p].run = q /\ Knows(rcv'[p], row, effect[q])
      BY <1>1, <2>1
    <2>2. CASE rcv'[p] = rcv[p]
      <3>1. /\ rcv[p].run \in Runs /\ run[rcv[p].run] \in Resting
            /\ Knows(rcv[p], rec[rcv[p].run], effect[rcv[p].run])
        BY <2>2 DEF IInv, Recovering
      <3> QED
        BY <1>1, <2>2, <3>1 DEF Knows
    <2> QED
      BY <2>1, <2>2
  <1>7. SentStaged'
    BY <1>1 DEF IInv, SentStaged
  <1> QED
    BY <1>2, <1>3, <1>4, <1>5, <1>6, <1>7 DEF IInv

\* Only process p changes what it is doing, to pc with the copied state.
Turns(p, pc, state) ==
    /\ rcv' \in [Procs -> Operation]
    /\ \A o \in Procs \ {p} : rcv'[o] = rcv[o]
    /\ rcv'[p].pc = pc /\ rcv'[p].state = state
    /\ pc # "idle" => rcv'[p].run = rcv[p].run

\* How the steps of recovery write what they are doing.
LEMMA OperationMoves ==
  ASSUME IInv, NEW p \in Procs, NEW pc \in {"ask", "found", "unknown", "cleanup", "finish", "failed"}
  PROVE  /\ Idle(p) => Turns(p, "idle", "absent")
         /\ rcv' = [rcv EXCEPT ![p].pc = pc] => Turns(p, pc, rcv[p].state)
         /\ \A state \in States :
              rcv' = [rcv EXCEPT ![p].pc = pc, ![p].state = state] => Turns(p, pc, state)
  <1>0. rcv \in [Procs -> Operation]
    BY DEF IInv, TypeOK, Operation
  <1>1. ASSUME Idle(p) PROVE Turns(p, "idle", "absent")
    BY <1>0, <1>1 DEF Idle, NoOperation, Operation, States, Turns
  <1>2. ASSUME rcv' = [rcv EXCEPT ![p].pc = pc] PROVE Turns(p, pc, rcv[p].state)
    BY <1>0, <1>2 DEF Operation, Turns
  <1>3. ASSUME NEW state \in States, rcv' = [rcv EXCEPT ![p].pc = pc, ![p].state = state]
        PROVE  Turns(p, pc, state)
    BY <1>0, <1>3 DEF Operation, Turns
  <1> QED
    BY <1>1, <1>2, <1>3

\* Process p, which works on the record of run q, writes it and goes on.
LEMMA RecoveryMoves ==
  ASSUME IInv, NEW p \in Procs, rcv[p].pc # "idle", NEW q \in Runs, q = rcv[p].run,
         NEW row \in Record, NEW b \in BOOLEAN, NEW pc, NEW state, Turns(p, pc, state),
         rec' = [rec EXCEPT ![q] = row], staged' = [staged EXCEPT ![q] = b],
         UNCHANGED <<run, work, effect, owner, creds>>,
         row.key => rec[q].key, row.state # "absent", Truthful(row, effect[q]),
         Harmless(rec[q]) => Harmless(row), rec[q].submitted => row.submitted,
         effect[q] = "sent" => b,
         pc # "idle" => Knows([pc |-> pc, state |-> state], row, effect[q])
  PROVE  IInv'
  <1>1. run[q] \in Resting /\ rec[q].state # "absent"
    BY DEF IInv, Recovering, Knows
  <1>2. /\ rcv' \in [Procs -> Operation]
        /\ \A o \in Procs : rcv'[o].pc # "idle" =>
             rcv'[o] = rcv[o] \/ (rcv'[o].run = q /\ Knows(rcv'[o], row, effect[q]))
    BY DEF Turns, Knows
  <1> QED
    BY <1>1, <1>2, RecordMoves

\* Process p learns something and writes nothing.
LEMMA RecoveryGoes ==
  ASSUME IInv, NEW p \in Procs, rcv[p].pc # "idle", NEW pc, NEW state, Turns(p, pc, state),
         UNCHANGED <<run, work, rec, staged, effect, owner, creds>>,
         pc # "idle" => Knows([pc |-> pc, state |-> state], rec[rcv[p].run], effect[rcv[p].run])
  PROVE  IInv'
  <1>1. rcv[p].run \in Runs /\ rec[rcv[p].run].state # "absent"
    BY DEF IInv, Recovering, Knows
  <1>2. /\ rec[rcv[p].run] \in Record /\ staged[rcv[p].run] \in BOOLEAN
        /\ rec' = [rec EXCEPT ![rcv[p].run] = rec[rcv[p].run]]
        /\ staged' = [staged EXCEPT ![rcv[p].run] = staged[rcv[p].run]]
        /\ Truthful(rec[rcv[p].run], effect[rcv[p].run])
        /\ effect[rcv[p].run] = "sent" => staged[rcv[p].run]
    BY <1>1 DEF IInv, TypeOK, RowTrue, SentStaged
  <1> QED
    BY <1>1, <1>2, RecoveryMoves

\* The rows that recovery writes.
LEMMA RecoveryRows ==
  ASSUME NEW row \in Record, NEW state \in States
  PROVE  /\ IsRow(defer_recovery(row, state),
                  state, row.key, row.submitted, row.confirmed, NoProc, "live")
         /\ IsRow(finished(row), IF row.confirmed THEN "complete" ELSE "unchanged",
                  FALSE, row.submitted, row.confirmed, NoProc, "none")
  <1>1. IsRow(defer_recovery(row, state),
              state, row.key, row.submitted, row.confirmed, NoProc, "live")
    BY DEF defer_recovery, IsRow, Record
  <1>2. IsRow(finished(row), IF row.confirmed THEN "complete" ELSE "unchanged",
              FALSE, row.submitted, row.confirmed, NoProc, "none")
    BY DEF finished, IsRow, Record, States
  <1> QED
    BY <1>1, <1>2

\* A process claims a record whose worker has stopped.
LEMMA ClaimStep ==
  ASSUME IInv, NEW p \in Procs, NEW r \in Runs, claim_recovery(p, r)
  PROVE  IInv'
  <1> DEFINE row == [rec[r] EXCEPT !.token = p, !.lease = "live"]
             op  == [pc |-> "load", run |-> r, state |-> "absent"]
  <1>0. /\ TypeOK /\ rec[r] \in Record /\ Truthful(rec[r], effect[r])
        /\ rec[r].state \in recoverable /\ run[r] \in Resting
        /\ staged[r] \in BOOLEAN
        /\ effect[r] = "sent" => staged[r]
    BY DEF IInv, TypeOK, RowTrue, SentStaged, claim_recovery, candidate, Resting
  <1>1. IsRow(row, rec[r].state, rec[r].key, rec[r].submitted, rec[r].confirmed, p, "live")
    BY <1>0 DEF IsRow, Record
  <1>2. op \in Operation /\ Knows(op, row, effect[r])
    BY <1>0, <1>1 DEF Operation, Knows, States, IsRow, recoverable
  <1>3. rec' = [rec EXCEPT ![r] = row] /\ rcv' = [rcv EXCEPT ![p] = op]
    BY <1>0 DEF claim_recovery, TypeOK, Record
  <1>4. staged' = [staged EXCEPT ![r] = staged[r]]
    BY <1>0 DEF claim_recovery, TypeOK
  <1>5. /\ Truthful(row, effect[r]) /\ (Harmless(rec[r]) => Harmless(row))
        /\ rec[r].submitted => row.submitted
    BY <1>0, <1>1 DEF IsRow, Truthful, Harmless, recoverable, Resolved
  <1>6. /\ row \in Record
        /\ row.key => rec[r].key
        /\ row.state # "absent" /\ rec[r].state # "absent"
    BY <1>0, <1>1 DEF IsRow, recoverable
  <1>7. UNCHANGED <<run, work, effect, owner, creds>> /\ op.run = r
    BY DEF claim_recovery
  <1>8. /\ rcv' \in [Procs -> Operation] /\ rcv'[p] = op
        /\ \A o \in Procs \ {p} : rcv'[o] = rcv[o]
    BY <1>0, <1>2, <1>3 DEF TypeOK, Operation
  <1> HIDE DEF row, op
  <1> QED
    BY <1>0, <1>2, <1>3, <1>4, <1>5, <1>6, <1>7, <1>8, RecordMoves

\* The later steps of a recovery, and its crash.
LEMMA RecoveryStep ==
  ASSUME IInv, NoProc \notin Procs, NEW p \in Procs,
         \/ LostRecovery(p) \/ CannotRecover(p) \/ LoadOperation(p) \/ Confirm(p)
         \/ CannotConfirm(p) \/ RecordCommitted(p) \/ DeferRecovery(p)
         \/ cleanup_staging(p) \/ cleanup_fails(p) \/ FinishRecovery(p) \/ CrashRecovery(p)
  PROVE  IInv'
  <1> DEFINE q == rcv[p].run
  <1>0. /\ TypeOK /\ rcv[p] \in Operation /\ rcv[p].pc # "idle" /\ q \in Runs
        /\ rcv \in [Procs -> Operation]
        /\ run[q] \in Resting /\ Knows(rcv[p], rec[q], effect[q])
        /\ rec[q].state # "absent" /\ rec[q] \in Record /\ Truthful(rec[q], effect[q])
        /\ staged[q] \in BOOLEAN
        /\ effect[q] = "sent" => staged[q]
        /\ mine(p) => rec[q].state \notin Resolved \cup {"cleanup_required"}
    <2>1. TypeOK /\ rcv \in [Procs -> Operation] /\ rcv[p].pc # "idle"
      BY DEF IInv, TypeOK, Operation, LostRecovery, CannotRecover, LoadOperation, Confirm,
             CannotConfirm, RecordCommitted, DeferRecovery, cleanup_staging, cleanup_fails,
             FinishRecovery, CrashRecovery
    <2>2. q \in Runs /\ run[q] \in Resting /\ Knows(rcv[p], rec[q], effect[q])
      BY <2>1 DEF IInv, Recovering
    <2>3. rec[q] \in Record /\ Truthful(rec[q], effect[q]) /\ staged[q] \in BOOLEAN
      BY <2>1, <2>2 DEF IInv, TypeOK, RowTrue
    <2>4. effect[q] = "sent" => staged[q]
      BY <2>2 DEF IInv, SentStaged
    <2>5. mine(p) => rec[q].state \notin Resolved \cup {"cleanup_required"}
      BY <2>3 DEF mine, Truthful
    <2> QED
      BY <2>1, <2>2, <2>3, <2>4, <2>5 DEF Knows
  <1>1. CASE LostRecovery(p) \/ CrashRecovery(p)
    BY <1>0, <1>1, OperationMoves, RecoveryGoes DEF LostRecovery, CrashRecovery
  <1>2. CASE LoadOperation(p)
    <2> DEFINE state == rec[q].state
               pc    == first_step(state)
    <2>1. state \in States \ (Resolved \cup {"cleanup_required"}) /\ pc \in {"ask", "cleanup"}
      BY <1>0, <1>2 DEF Record, LoadOperation, first_step
    <2>2. Knows([pc |-> pc, state |-> state], rec[q], effect[q])
      BY <1>0, <2>1 DEF Knows, first_step, Truthful, Harmless, States, Resolved
    <2>3. rcv' = [rcv EXCEPT ![p].pc = pc, ![p].state = state]
      BY <1>2 DEF LoadOperation
    <2> HIDE DEF pc, state
    <2>4. Turns(p, pc, state)
      BY <2>1, <2>3, OperationMoves
    <2>5. UNCHANGED <<run, work, rec, staged, effect, owner, creds>>
      BY <1>2 DEF LoadOperation
    <2> QED
      BY <1>0, <2>2, <2>4, <2>5, RecoveryGoes
  <1>3. CASE Confirm(p)
    <2>1. Turns(p, "found", rcv[p].state)
      BY <1>3, OperationMoves DEF Confirm
    <2>2. Knows([pc |-> "found", state |-> rcv[p].state], rec[q], effect[q])
      BY <1>0, <1>3 DEF Confirm, Knows
    <2> QED
      BY <1>0, <1>3, <2>1, <2>2, RecoveryGoes DEF Confirm
  <1>4. CASE CannotConfirm(p)
    <2>1. PICK pc \in {"unknown", "failed"} : rcv' = [rcv EXCEPT ![p].pc = pc]
      BY <1>4 DEF CannotConfirm
    <2>2. Turns(p, pc, rcv[p].state)
      BY <2>1, OperationMoves
    <2>3. Knows([pc |-> pc, state |-> rcv[p].state], rec[q], effect[q])
      BY <1>0, <1>4 DEF CannotConfirm, Knows
    <2> QED
      BY <1>0, <1>4, <2>2, <2>3, RecoveryGoes DEF CannotConfirm
  \* Steps that drop the staging table: no statement can need it.
  <1>5. ASSUME NEW pc \in {"finish", "failed"}, NEW b \in {staged[q], FALSE},
               rcv[p].pc = "cleanup", staged' = [staged EXCEPT ![q] = b],
               rcv' = [rcv EXCEPT ![p].pc = pc], UNCHANGED <<run, work, rec, effect, owner, creds>>
        PROVE  IInv'
    <2>1. Turns(p, pc, rcv[p].state)
      BY <1>5, OperationMoves
    <2>2. Harmless(rec[q]) /\ effect[q] # "sent"
      BY <1>0, <1>5 DEF Knows, Harmless, Truthful
    <2>3. Knows([pc |-> pc, state |-> rcv[p].state], rec[q], effect[q])
      BY <1>0, <2>2 DEF Knows
    <2>4. rec' = [rec EXCEPT ![q] = rec[q]] /\ b \in BOOLEAN
      BY <1>0, <1>5 DEF TypeOK
    <2> QED
      BY <1>0, <1>5, <2>1, <2>2, <2>3, <2>4, RecoveryMoves
  <1>6. CASE cleanup_staging(p)
    BY <1>5, <1>6 DEF cleanup_staging
  <1>7. CASE cleanup_fails(p)
    BY <1>5, <1>7 DEF cleanup_fails
  \* Steps that write the record, under the recovery lease.
  <1>8. ASSUME NEW row \in Record, NEW pc, NEW state, Turns(p, pc, state),
               rec' = [rec EXCEPT ![q] = row],
               UNCHANGED <<run, work, staged, effect, owner, creds>>,
               row.key => rec[q].key, row.state # "absent", Truthful(row, effect[q]),
               Harmless(rec[q]) => Harmless(row), rec[q].submitted => row.submitted,
               pc # "idle" => Knows([pc |-> pc, state |-> state], row, effect[q])
        PROVE  IInv'
    <2>1. staged' = [staged EXCEPT ![q] = staged[q]]
      BY <1>0, <1>8 DEF TypeOK
    <2> QED
      BY <1>0, <1>8, <2>1, RecoveryMoves
  <1>9. ASSUME NEW state \in States, mine(p),
               \/ state = rec[q].state
               \/ state = "uncertain" /\ rec[q].submitted
               \/ state = "cleanup_pending" /\ Harmless(rec[q])
               \/ state = "cleanup_required",
               rec' = [rec EXCEPT ![q] = defer_recovery(@, state)], Idle(p),
               UNCHANGED <<run, work, staged, effect, owner, creds>>
        PROVE  IInv'
    <2> DEFINE row == defer_recovery(rec[q], state)
    <2>1. IsRow(row, state, rec[q].key, rec[q].submitted, rec[q].confirmed, NoProc, "live")
      BY <1>0, RecoveryRows
    <2>2. rec' = [rec EXCEPT ![q] = row]
      BY <1>9
    <2> HIDE DEF row
    <2>3. /\ Truthful(row, effect[q]) /\ row.state # "absent"
          /\ (Harmless(rec[q]) => Harmless(row)) /\ (rec[q].submitted => row.submitted)
      BY <1>0, <1>9, <2>1 DEF IsRow, Truthful, Harmless, Resolved
    <2>4. Turns(p, "idle", "absent")
      BY <1>9, OperationMoves
    <2> QED
      BY <1>8, <1>9, <2>1, <2>2, <2>3, <2>4 DEF IsRow
  <1>10. CASE CannotRecover(p)
    <2> DEFINE state == IF ~owner THEN rec[q].state ELSE blocked_state(rec[q])
    <2>1. rec' = [rec EXCEPT ![q] = defer_recovery(@, state)]
      BY <1>0, <1>10 DEF CannotRecover, TypeOK
    <2>2. /\ state \in States
          /\ \/ state = rec[q].state
             \/ state = "cleanup_pending" /\ Harmless(rec[q])
             \/ state = "cleanup_required"
      BY <1>0 DEF blocked_state, Harmless, Record, States
    <2> HIDE DEF state
    <2> QED
      BY <1>9, <1>10, <2>1, <2>2 DEF CannotRecover
  <1>11. CASE DeferRecovery(p)
    <2> DEFINE state == IF rcv[p].state \in {"publishing", "uncertain"}
                        THEN "uncertain" ELSE "cleanup_pending"
    <2>1. rec' = [rec EXCEPT ![q] = defer_recovery(@, state)]
      BY <1>0, <1>11 DEF DeferRecovery, TypeOK
    <2>2. rcv[p].state \in {"publishing", "uncertain"} => rec[q].submitted
      BY <1>0 DEF Knows
    <2>3. rcv[p].state \notin {"publishing", "uncertain"} => Harmless(rec[q])
      BY <1>0, <1>11 DEF DeferRecovery, Knows
    <2>4. state \in States
      BY DEF States
    <2> HIDE DEF state
    <2> QED
      BY <1>9, <1>11, <2>1, <2>2, <2>3, <2>4 DEF DeferRecovery, state
  <1>12. CASE RecordCommitted(p)
    <2> DEFINE row == [rec[q] EXCEPT !.state = "cleanup_pending", !.key = FALSE,
                                     !.confirmed = TRUE]
    <2>1. IsRow(row, "cleanup_pending", FALSE, rec[q].submitted, TRUE, rec[q].token, rec[q].lease)
      BY <1>0 DEF IsRow, Record, States
    <2>2. Turns(p, "cleanup", "cleanup_pending")
      BY <1>12, OperationMoves DEF RecordCommitted, States
    <2>3. rec' = [rec EXCEPT ![q] = row] /\ UNCHANGED <<run, work, staged, effect, owner, creds>>
      BY <1>0, <1>12 DEF RecordCommitted, TypeOK
    <2> HIDE DEF row
    <2>4. /\ effect[q] = "applied" /\ Truthful(row, effect[q]) /\ Harmless(row) /\ row.submitted
          /\ Knows([pc |-> "cleanup", state |-> "cleanup_pending"], row, effect[q])
      BY <1>0, <1>12, <2>1 DEF RecordCommitted, Knows, IsRow, Truthful, Harmless, Resolved
    <2> QED
      BY <1>8, <2>1, <2>2, <2>3, <2>4 DEF IsRow
  <1>13. CASE FinishRecovery(p)
    <2> DEFINE row == finished(rec[q])
    <2>1. IsRow(row, IF rec[q].confirmed THEN "complete" ELSE "unchanged",
                FALSE, rec[q].submitted, rec[q].confirmed, NoProc, "none")
      BY <1>0, RecoveryRows DEF States
    <2>2. rec' = [rec EXCEPT ![q] = row] /\ UNCHANGED <<run, work, staged, effect, owner, creds>>
      BY <1>13 DEF FinishRecovery
    <2> HIDE DEF row
    <2>3. /\ Truthful(row, effect[q]) /\ Harmless(row) /\ row.state # "absent"
          /\ rec[q].submitted => row.submitted
      BY <1>0, <1>13, <2>1 DEF FinishRecovery, Knows, IsRow, Truthful, Harmless, Resolved
    <2>4. Turns(p, "idle", "absent")
      BY <1>13, OperationMoves DEF FinishRecovery
    <2> QED
      BY <1>8, <2>1, <2>2, <2>3, <2>4 DEF IsRow
  <1> QED
    BY <1>1, <1>2, <1>3, <1>4, <1>6, <1>7, <1>10, <1>11, <1>12, <1>13

\* The lease of a recovery runs out.
LEMMA DueStep ==
  ASSUME IInv, NEW r \in Runs, RecoveryDue(r)
  PROVE  IInv'
  <1> DEFINE row == [rec[r] EXCEPT !.lease = "due"]
  <1>0. /\ TypeOK /\ rec[r] \in Record /\ Truthful(rec[r], effect[r]) /\ rec[r].lease = "live"
        /\ run[r] \in Resting /\ staged[r] \in BOOLEAN /\ rcv \in [Procs -> Operation]
        /\ effect[r] = "sent" => staged[r]
    BY DEF IInv, TypeOK, RowTrue, SentStaged, RecoveryDue, Phases, Operation
  <1>1. rec[r].state # "absent"
    BY <1>0 DEF Truthful
  <1>2. IsRow(row, rec[r].state, rec[r].key, rec[r].submitted, rec[r].confirmed,
              rec[r].token, "due")
    BY <1>0 DEF IsRow, Record
  <1>3. /\ rec' = [rec EXCEPT ![r] = row] /\ staged' = [staged EXCEPT ![r] = staged[r]]
        /\ UNCHANGED <<run, work, effect, rcv, owner, creds>>
    BY <1>0 DEF RecoveryDue, TypeOK
  <1> HIDE DEF row
  <1>4. /\ Truthful(row, effect[r]) /\ (Harmless(rec[r]) => Harmless(row))
        /\ rec[r].submitted => row.submitted
    BY <1>0, <1>2 DEF IsRow, Truthful, Harmless
  <1> QED
    BY <1>0, <1>1, <1>2, <1>3, <1>4, RecordMoves DEF IsRow

------------------------------------------------------------------------------
(* The theorems.                                                            *)

\* Every step preserves the invariant.
LEMMA NextInv ==
  ASSUME IInv, ~Overrun, NoProc \notin Procs, [Next]_vars
  PROVE  IInv'
  <1>1. CASE UNCHANGED vars
    BY <1>1 DEF vars, IInv, TypeOK, Phases, InStep, RowTrue, FenceUnique, Recovering, SentStaged,
                StepTrue, Truthful, Knows, Harmless
  <1>2. CASE SetOwner \/ Rotate
    <2>1. UNCHANGED <<run, work, rec, staged, effect, rcv>>
      BY <1>2 DEF SetOwner, Rotate
    <2>2. owner' \in BOOLEAN /\ creds' \in {"current", "rotated", "missing"}
      BY <1>2 DEF SetOwner, Rotate, IInv, TypeOK
    <2>3. TypeOK'
      BY <2>1, <2>2 DEF IInv, TypeOK
    <2> QED
      BY <2>1, <2>3 DEF IInv, Phases, InStep, RowTrue, FenceUnique, Recovering, SentStaged,
                        StepTrue, Truthful, Knows, Harmless
  <1>3. ASSUME NEW r \in Runs,
               \/ Start(r) \/ Writer(r) \/ Crash(r) \/ Land(r) \/ LeaseExpires(r)
               \/ TakeOver(r) \/ RecoveryDue(r)
        PROVE  IInv'
    BY <1>3, EventStep, StatementStep, RunStep, LandStep, DueStep DEF Writer
  <1>4. ASSUME NEW p \in Procs, Recovery(p) \/ CrashRecovery(p)
        PROVE  IInv'
    BY <1>4, ClaimStep, RecoveryStep DEF Recovery
  <1> QED
    BY <1>1, <1>2, <1>3, <1>4 DEF Next

\* The inductive invariant of the ledger.
THEOREM LedgerInvariant ==
  ASSUME ~Overrun, NoProc \notin Procs
  PROVE  Spec => []IInv
  <1>1. IInv /\ [Next]_vars => IInv'
    BY NextInv
  <1> QED
    BY <1>1, InitInv, PTL DEF Spec

\* The ledger claims "complete" only for a statement that was applied and
\* "unchanged" only for one that was not (record_publication_event and the recovery);
\* no two statements for the table are under way together (active_target_key);
\* recovery never drops a staging table that a statement may still read.
THEOREM LedgerSafe ==
  ASSUME ~Overrun, NoProc \notin Procs
  PROVE  Spec => []PublicationSafe
  <1>1. IInv => PublicationSafe
    <2> SUFFICES ASSUME IInv PROVE PublicationSafe
      OBVIOUS
    <2>1. LedgerTrue
      BY DEF IInv, RowTrue, Truthful, LedgerTrue
    <2>2. OnePublisher
      <3> SUFFICES ASSUME NEW q \in Runs, NEW r \in Runs, q # r, work[r] = "execute"
                   PROVE  /\ effect[q] # "sent"
                          /\ ~(rec[q].submitted /\ ~rec[q].confirmed
                                 /\ rec[q].state \notin Resolved)
        BY DEF OnePublisher
      <3>1. Truthful(rec[q], effect[q]) /\ Truthful(rec[r], effect[r])
        BY DEF IInv, RowTrue
      <3>2. rec[r].state = "publishing" /\ effect[r] = "none"
        BY DEF IInv, InStep, StepTrue
      <3>3. rec[r].key
        BY <3>1, <3>2 DEF Truthful, Resolved
      <3>4. ~rec[q].key
        BY <3>3 DEF IInv, FenceUnique
      <3> QED
        BY <3>1, <3>4 DEF Truthful, Resolved
    <2>3. StagingKept
      BY DEF IInv, SentStaged, InStep, StepTrue, StagingKept
    <2> QED
      BY <2>1, <2>2, <2>3 DEF IInv, PublicationSafe
  <1> QED
    BY <1>1, LedgerInvariant, PTL

\* A resolved record is final: no late event of its worker and no slower recovery
\* process changes it (record_publication_event, process_pending_publication_recovery).
THEOREM ResolvedIsFinal ==
  ASSUME ~Overrun, NoProc \notin Procs
  PROVE  Spec => NothingReopened
  <1>1. ASSUME IInv, [Next]_vars, NEW r \in Runs, rec[r].state \in Resolved
        PROVE  rec'[r] = rec[r]
    <2>0. /\ rec \in [Runs -> Record] /\ Truthful(rec[r], effect[r])
          /\ StepTrue(work[r], rec[r], staged[r], effect[r])
      BY <1>1 DEF IInv, TypeOK, RowTrue, InStep
    <2>1. work[r] \in {"end", "gone"} /\ rec[r].token = NoProc /\ rec[r].lease = "none"
      BY <1>1, <2>0 DEF IInv, TypeOK, Steps, StepTrue, Truthful, Resolved
    <2>2. ASSUME NEW q \in Runs, Writer(q)
          PROVE  rec'[r] = rec[r]
      <3>1. ASSUME NEW from, from \notin {"end", "gone"}, NEW event, NEW ok, NEW bad,
                   Report(q, from, event, ok, bad)
            PROVE  rec'[r] = rec[r]
        BY <2>0, <2>1, <3>1 DEF Report
      <3> QED
        BY <2>2, <3>1
           DEF Writer, prepare_started, CreateStaging, create_failed, staging_ready,
               write_batch, batch_written, Checkpoint, publish_submitted, Execute, Answer,
               publish_uncertain, committed, drop_after_commit, Drop, cleanup_confirmed,
               cleanup_pending, abort_drop, abort_confirmed, abort_uncertain,
               abort_submitted, EndRun
    <2>3. ASSUME NEW p \in Procs, Recovery(p) \/ CrashRecovery(p)
          PROVE  rec'[r] = rec[r]
      <3>1. ASSUME NEW q \in Runs, claim_recovery(p, q) PROVE rec'[r] = rec[r]
        BY <1>1, <2>0, <3>1 DEF claim_recovery, candidate, recoverable, Resolved
      <3>2. CASE mine(p) /\ \E row : rec' = [rec EXCEPT ![rcv[p].run] = row]
        BY <2>0, <2>1, <3>2 DEF mine
      <3> QED
        BY <2>3, <3>1, <3>2
           DEF Recovery, CrashRecovery, LostRecovery, CannotRecover, LoadOperation, Confirm,
               CannotConfirm, RecordCommitted, DeferRecovery, cleanup_staging, cleanup_fails,
               FinishRecovery
    <2>4. ASSUME NEW q \in Runs, RecoveryDue(q) PROVE rec'[r] = rec[r]
      BY <2>0, <2>1, <2>4 DEF RecoveryDue
    <2> QED
      BY <1>1, <2>2, <2>3, <2>4
         DEF Next, vars, Start, Crash, Land, LeaseExpires, TakeOver, SetOwner, Rotate
  <1>2. IInv /\ [Next]_vars => [ResolvedStays]_vars
    BY <1>1 DEF ResolvedStays
  <1> QED
    BY <1>2, LedgerInvariant, PTL DEF Spec, NothingReopened
=============================================================================
