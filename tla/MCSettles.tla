------------------------------ MODULE MCSettles -----------------------------
(***************************************************************************)
(* What must come to an end. A behaviour is one part, chosen by Init, and  *)
(* is fair to the processes of that part: a supervisor that dies, the      *)
(* publication ledger and its two recoverers, a run that waits for         *)
(* compute, two deliverers of the outbox, two loads of one table beside a  *)
(* client, a runtime that is shut down, and an account whose lock runs     *)
(* out.                                                                    *)
(***************************************************************************)
EXTENDS Integers, TLC

CONSTANTS r1, r2, p1, p2, a1, o1, o2, m1, m2, s1, none, noitem

VARIABLES
    part,  \* the part at work
    state, due, holder, active, pc, conn, note, look, listening, timer, item, retries, changes,
    failures, crashes, run, work, rec, staged, effect, rcv, owner, creds, attempts, compute,
    start, poll, box, proc, accepted, excuse, timeouts, mode, source, order, removed, casts,
    step, grants, table, seq, seen, tlock, slock, tx, result, draw, draws, rt, slot, app, op,
    user, login, admin, sess, jar, req, reset, epoch, wrong, tries

vars == <<part, state, due, holder, active, pc, conn, note, look, listening, timer, item,
          retries, changes, failures, crashes, run, work, rec, staged, effect, rcv, owner,
          creds, attempts, compute, start, poll, box, proc, accepted, excuse, timeouts, mode,
          source, order, removed, casts, step, grants, table, seq, seen, tlock, slock, tx,
          result, draw, draws, rt, slot, app, op, user, login, admin, sess, jar, req, reset,
          epoch, wrong, tries>>

\* Privileges of the account that loads, and the table it loads.
Grants == {"create", "insert", "update", "select", "delete", "owner", "sequence",
           "sequence_owner"}
Serial == [oid |-> 1, rows |-> {}, uniq |-> {"id"}, cols |-> {"id", "extra"}, serial |-> TRUE]

Queues == INSTANCE QueueWakeups
    WITH Procs <- {p1}, NoProc <- none, NoItem <- noitem, Runs <- {r1}, Attempts <- {a1},
         Lease <- 2, Poll <- 2, Retry <- 1, MaxRetries <- 1, MaxChanges <- 2, MaxFaults <- 1

Ledger == INSTANCE DatabricksPublication
    WITH Runs <- {r1}, Procs <- {p1, p2}, NoProc <- none, Overrun <- FALSE, Disturb <- FALSE

Compute == INSTANCE DatabricksCompute
    WITH Owners <- {o1}, Manual <- {}, Runs <- {r1}, OwnerOf <- (r1 :> o1), Pollers <- {p1},
         NoPoller <- none, MaxAttempts <- 1, MaxGen <- 1, Overrun <- FALSE, MaxCrashes <- 1

Mail == INSTANCE MailOutbox
    WITH Messages <- {m1, m2}, Deliverers <- {p1, p2}, Batch <- 1, MaxAttempts <- 2,
         MaxSends <- 4, MaxCrashes <- 1, MaxTimeouts <- 0, MaxRetries <- 0

Load == INSTANCE PostgresLoad
    WITH Loads <- {r1, r2}, Modes <- {"append", "replace"}, Sources <- {<<2>>}, Steps <- {1},
         Tables <- {Serial}, GrantSets <- {Grants}, KeyOrders <- {"same"}, Removing <- {},
         TextLoads <- {}, Outside <- {"insert"}, MaxDraws <- 1, MaxFailures <- 1

Runtime == INSTANCE RuntimeLifetime
    WITH Apps <- {a1}, Ops <- {o1, o2}, MaxGen <- 2

Login == INSTANCE Sessions
    WITH Logins <- {p1, p2}, SessionIds <- {s1}, Requests <- {}, ResetIds <- {}, Ops <- {},
         AdminOps <- {"toggle"}, TrustedHeader <- FALSE, Limit <- 2, Legacy <- TRUE,
         Prompt <- FALSE, MaxVersion <- 2, MaxGen <- 1, MaxWrong <- 3

\* A variable that the part at work does not have.
Off(v) == v = "off"

Init ==
    \/ /\ part = "queues" /\ Queues!Init
       /\ Off(run) /\ Off(work) /\ Off(rec) /\ Off(staged) /\ Off(effect) /\ Off(rcv)
       /\ Off(owner) /\ Off(creds) /\ Off(attempts) /\ Off(compute) /\ Off(start) /\ Off(poll)
       /\ Off(box) /\ Off(proc) /\ Off(accepted) /\ Off(excuse) /\ Off(timeouts) /\ Off(mode)
       /\ Off(source) /\ Off(order) /\ Off(removed) /\ Off(casts) /\ Off(step) /\ Off(grants)
       /\ Off(table) /\ Off(seq) /\ Off(seen) /\ Off(tlock) /\ Off(slock) /\ Off(tx)
       /\ Off(result) /\ Off(draw) /\ Off(draws) /\ Off(rt) /\ Off(slot) /\ Off(app) /\ Off(op)
       /\ Off(user) /\ Off(login) /\ Off(admin) /\ Off(sess) /\ Off(jar) /\ Off(req)
       /\ Off(reset) /\ Off(epoch) /\ Off(wrong) /\ Off(tries)
    \/ /\ part = "ledger" /\ Ledger!Init
       /\ Off(state) /\ Off(due) /\ Off(holder) /\ Off(active) /\ Off(pc) /\ Off(conn)
       /\ Off(note) /\ Off(look) /\ Off(listening) /\ Off(timer) /\ Off(item) /\ Off(retries)
       /\ Off(changes) /\ Off(failures) /\ Off(crashes) /\ Off(attempts) /\ Off(compute)
       /\ Off(start) /\ Off(poll) /\ Off(box) /\ Off(proc) /\ Off(accepted) /\ Off(excuse)
       /\ Off(timeouts) /\ Off(mode) /\ Off(source) /\ Off(order) /\ Off(removed) /\ Off(casts)
       /\ Off(step) /\ Off(grants) /\ Off(table) /\ Off(seq) /\ Off(seen) /\ Off(tlock)
       /\ Off(slock) /\ Off(tx) /\ Off(result) /\ Off(draw) /\ Off(draws) /\ Off(rt)
       /\ Off(slot) /\ Off(app) /\ Off(op) /\ Off(user) /\ Off(login) /\ Off(admin) /\ Off(sess)
       /\ Off(jar) /\ Off(req) /\ Off(reset) /\ Off(epoch) /\ Off(wrong) /\ Off(tries)
    \/ /\ part = "compute" /\ Compute!Init
       /\ Off(state) /\ Off(due) /\ Off(holder) /\ Off(active) /\ Off(pc) /\ Off(note)
       /\ Off(look) /\ Off(listening) /\ Off(timer) /\ Off(item) /\ Off(retries) /\ Off(changes)
       /\ Off(failures) /\ Off(work) /\ Off(rec) /\ Off(staged) /\ Off(effect) /\ Off(rcv)
       /\ Off(owner) /\ Off(creds) /\ Off(box) /\ Off(proc) /\ Off(accepted) /\ Off(excuse)
       /\ Off(timeouts) /\ Off(mode) /\ Off(source) /\ Off(order) /\ Off(removed) /\ Off(casts)
       /\ Off(step) /\ Off(grants) /\ Off(table) /\ Off(seq) /\ Off(seen) /\ Off(tlock)
       /\ Off(slock) /\ Off(tx) /\ Off(result) /\ Off(draw) /\ Off(draws) /\ Off(rt)
       /\ Off(slot) /\ Off(app) /\ Off(op) /\ Off(user) /\ Off(login) /\ Off(admin) /\ Off(sess)
       /\ Off(jar) /\ Off(req) /\ Off(reset) /\ Off(epoch) /\ Off(wrong) /\ Off(tries)
    \/ /\ part = "mail" /\ Mail!Init
       /\ Off(state) /\ Off(due) /\ Off(holder) /\ Off(active) /\ Off(pc) /\ Off(conn)
       /\ Off(note) /\ Off(look) /\ Off(listening) /\ Off(timer) /\ Off(item) /\ Off(changes)
       /\ Off(failures) /\ Off(run) /\ Off(work) /\ Off(rec) /\ Off(staged) /\ Off(effect)
       /\ Off(rcv) /\ Off(owner) /\ Off(creds) /\ Off(attempts) /\ Off(compute) /\ Off(start)
       /\ Off(poll) /\ Off(mode) /\ Off(source) /\ Off(order) /\ Off(removed) /\ Off(casts)
       /\ Off(step) /\ Off(grants) /\ Off(table) /\ Off(seq) /\ Off(seen) /\ Off(tlock)
       /\ Off(slock) /\ Off(tx) /\ Off(result) /\ Off(draw) /\ Off(draws) /\ Off(rt)
       /\ Off(slot) /\ Off(app) /\ Off(op) /\ Off(user) /\ Off(login) /\ Off(admin) /\ Off(sess)
       /\ Off(jar) /\ Off(req) /\ Off(reset) /\ Off(epoch) /\ Off(wrong) /\ Off(tries)
    \/ /\ part = "loads" /\ Load!Init
       /\ Off(state) /\ Off(due) /\ Off(holder) /\ Off(active) /\ Off(conn) /\ Off(note)
       /\ Off(look) /\ Off(listening) /\ Off(timer) /\ Off(item) /\ Off(retries) /\ Off(changes)
       /\ Off(crashes) /\ Off(run) /\ Off(work) /\ Off(rec) /\ Off(staged) /\ Off(effect)
       /\ Off(rcv) /\ Off(owner) /\ Off(creds) /\ Off(attempts) /\ Off(compute) /\ Off(start)
       /\ Off(poll) /\ Off(box) /\ Off(proc) /\ Off(accepted) /\ Off(excuse) /\ Off(timeouts)
       /\ Off(rt) /\ Off(slot) /\ Off(app) /\ Off(op) /\ Off(user) /\ Off(login) /\ Off(admin)
       /\ Off(sess) /\ Off(jar) /\ Off(req) /\ Off(reset) /\ Off(epoch) /\ Off(wrong)
       /\ Off(tries)
    \/ /\ part = "drain" /\ Runtime!Init
       /\ Off(state) /\ Off(due) /\ Off(holder) /\ Off(active) /\ Off(pc) /\ Off(conn)
       /\ Off(note) /\ Off(look) /\ Off(listening) /\ Off(timer) /\ Off(item) /\ Off(retries)
       /\ Off(changes) /\ Off(failures) /\ Off(crashes) /\ Off(run) /\ Off(work) /\ Off(rec)
       /\ Off(staged) /\ Off(effect) /\ Off(rcv) /\ Off(owner) /\ Off(creds) /\ Off(attempts)
       /\ Off(compute) /\ Off(start) /\ Off(poll) /\ Off(box) /\ Off(proc) /\ Off(accepted)
       /\ Off(excuse) /\ Off(timeouts) /\ Off(mode) /\ Off(source) /\ Off(order) /\ Off(removed)
       /\ Off(casts) /\ Off(step) /\ Off(grants) /\ Off(table) /\ Off(seq) /\ Off(seen)
       /\ Off(tlock) /\ Off(slock) /\ Off(tx) /\ Off(result) /\ Off(draw) /\ Off(draws)
       /\ Off(user) /\ Off(login) /\ Off(admin) /\ Off(sess) /\ Off(jar) /\ Off(req)
       /\ Off(reset) /\ Off(epoch) /\ Off(wrong) /\ Off(tries)
    \/ /\ part = "login" /\ Login!Init
       /\ Off(state) /\ Off(due) /\ Off(holder) /\ Off(active) /\ Off(pc) /\ Off(conn)
       /\ Off(note) /\ Off(look) /\ Off(listening) /\ Off(timer) /\ Off(item) /\ Off(retries)
       /\ Off(changes) /\ Off(failures) /\ Off(crashes) /\ Off(run) /\ Off(work) /\ Off(rec)
       /\ Off(staged) /\ Off(effect) /\ Off(rcv) /\ Off(owner) /\ Off(creds) /\ Off(attempts)
       /\ Off(compute) /\ Off(start) /\ Off(poll) /\ Off(box) /\ Off(proc) /\ Off(accepted)
       /\ Off(excuse) /\ Off(timeouts) /\ Off(mode) /\ Off(source) /\ Off(order) /\ Off(removed)
       /\ Off(casts) /\ Off(step) /\ Off(grants) /\ Off(table) /\ Off(seq) /\ Off(seen)
       /\ Off(tlock) /\ Off(slock) /\ Off(tx) /\ Off(result) /\ Off(draw) /\ Off(draws)
       /\ Off(rt) /\ Off(slot) /\ Off(app) /\ Off(op)

Next ==
    \/ /\ part = "queues" /\ Queues!Next
       /\ UNCHANGED <<part, run, work, rec, staged, effect, rcv, owner, creds, attempts,
                      compute, start, poll, box, proc, accepted, excuse, timeouts, mode, source,
                      order, removed, casts, step, grants, table, seq, seen, tlock, slock, tx,
                      result, draw, draws, rt, slot, app, op, user, login, admin, sess, jar,
                      req, reset, epoch, wrong, tries>>
    \/ /\ part = "ledger" /\ Ledger!Next
       /\ UNCHANGED <<part, state, due, holder, active, pc, conn, note, look, listening,
                      timer, item, retries, changes, failures, crashes, attempts, compute,
                      start, poll, box, proc, accepted, excuse, timeouts, mode, source, order,
                      removed, casts, step, grants, table, seq, seen, tlock, slock, tx, result,
                      draw, draws, rt, slot, app, op, user, login, admin, sess, jar, req, reset,
                      epoch, wrong, tries>>
    \/ /\ part = "compute" /\ Compute!Next
       /\ UNCHANGED <<part, state, due, holder, active, pc, note, look, listening, timer,
                      item, retries, changes, failures, work, rec, staged, effect, rcv, owner,
                      creds, box, proc, accepted, excuse, timeouts, mode, source, order,
                      removed, casts, step, grants, table, seq, seen, tlock, slock, tx, result,
                      draw, draws, rt, slot, app, op, user, login, admin, sess, jar, req, reset,
                      epoch, wrong, tries>>
    \/ /\ part = "mail" /\ Mail!Next
       /\ UNCHANGED <<part, state, due, holder, active, pc, conn, note, look, listening,
                      timer, item, changes, failures, run, work, rec, staged, effect, rcv,
                      owner, creds, attempts, compute, start, poll, mode, source, order,
                      removed, casts, step, grants, table, seq, seen, tlock, slock, tx, result,
                      draw, draws, rt, slot, app, op, user, login, admin, sess, jar, req, reset,
                      epoch, wrong, tries>>
    \/ /\ part = "loads" /\ Load!Next
       /\ UNCHANGED <<part, state, due, holder, active, conn, note, look, listening, timer,
                      item, retries, changes, crashes, run, work, rec, staged, effect, rcv,
                      owner, creds, attempts, compute, start, poll, box, proc, accepted, excuse,
                      timeouts, rt, slot, app, op, user, login, admin, sess, jar, req, reset,
                      epoch, wrong, tries>>
    \/ /\ part = "drain" /\ Runtime!Next
       /\ UNCHANGED <<part, state, due, holder, active, pc, conn, note, look, listening,
                      timer, item, retries, changes, failures, crashes, run, work, rec, staged,
                      effect, rcv, owner, creds, attempts, compute, start, poll, box, proc,
                      accepted, excuse, timeouts, mode, source, order, removed, casts, step,
                      grants, table, seq, seen, tlock, slock, tx, result, draw, draws, user,
                      login, admin, sess, jar, req, reset, epoch, wrong, tries>>
    \/ /\ part = "login" /\ Login!Next
       /\ UNCHANGED <<part, state, due, holder, active, pc, conn, note, look, listening,
                      timer, item, retries, changes, failures, crashes, run, work, rec, staged,
                      effect, rcv, owner, creds, attempts, compute, start, poll, box, proc,
                      accepted, excuse, timeouts, mode, source, order, removed, casts, step,
                      grants, table, seq, seen, tlock, slock, tx, result, draw, draws, rt, slot,
                      app, op>>

Spec == Init /\ [][Next]_vars

QueuesVars == Queues!vars
LedgerVars == Ledger!vars
ComputeVars == Compute!vars
MailVars == Mail!vars
LoadVars == Load!vars
RuntimeVars == Runtime!vars
LoginVars == Login!vars

-----------------------------------------------------------------------------
\* What each part may rely on.
\* The supervisor runs its loop and is restarted after it died, a wait ends when its
\* delay is over, and a readable socket is not overlooked for ever although the
\* janitor's timer may end a wait first.
SupervisorRuns ==
    /\ WF_QueuesVars(part = "queues" /\ Queues!Tick)
    /\ WF_QueuesVars(part = "queues" /\ Queues!Inspect(p1))
    /\ WF_QueuesVars(part = "queues" /\ Queues!Restart(p1))
    /\ WF_QueuesVars(part = "queues" /\ (timer[p1] = 0 \/ ~listening[p1]) /\ Queues!wait_ends(p1))
    /\ SF_QueuesVars(part = "queues" /\ Queues!wait_news(p1))

\* Workers and recovery keep running. A recovery that is attempted again and again
\* is at last not interrupted, and its remote calls succeed within its lease.
RecoveryRuns ==
    /\ WF_LedgerVars(part = "ledger" /\ Ledger!Writer(r1))
    /\ WF_LedgerVars(part = "ledger" /\ Ledger!Land(r1))
    /\ WF_LedgerVars(part = "ledger" /\ Ledger!LeaseExpires(r1))
    /\ WF_LedgerVars(part = "ledger" /\ Ledger!TakeOver(r1))
    /\ WF_LedgerVars(part = "ledger" /\ Ledger!RecoveryDue(r1))
    /\ SF_LedgerVars(part = "ledger" /\ \E p \in {p1, p2} : Ledger!claim_recovery(p, r1))
    /\ \A p \in {p1, p2} : WF_LedgerVars(part = "ledger" /\ Ledger!Recovery(p))
    /\ SF_LedgerVars(part = "ledger" /\ \E p \in {p1, p2} : Ledger!LoadOperation(p))
    /\ SF_LedgerVars(part = "ledger" /\ \E p \in {p1, p2} : Ledger!Confirm(p) /\ Ledger!mine(p))
    /\ SF_LedgerVars(part = "ledger" /\ \E p \in {p1, p2} : Ledger!RecordCommitted(p))
    /\ SF_LedgerVars(part = "ledger" /\ \E p \in {p1, p2} : Ledger!cleanup_staging(p) /\ Ledger!mine(p))
    /\ SF_LedgerVars(part = "ledger" /\ \E p \in {p1, p2} : Ledger!FinishRecovery(p))

\* Pollers and workers are woken for due work and clocks advance; nothing is assumed
\* of the owner, the operator or the provider.
PollersRun ==
    /\ WF_ComputeVars(part = "compute" /\ Compute!RunStep(r1))
    /\ WF_ComputeVars(part = "compute" /\ Compute!PollStep(p1))
    /\ WF_ComputeVars(part = "compute" /\ 1 \in DOMAIN attempts /\ Compute!DeadlineComes(1))
    /\ WF_ComputeVars(part = "compute" /\ 1 \in DOMAIN attempts /\ Compute!PollComes(1))
    /\ WF_ComputeVars(part = "compute" /\ 1 \in DOMAIN attempts /\ Compute!LeaseExpires(1))

\* Later email-producing requests, or send-email, keep draining the outbox.
OutboxDrained ==
    /\ \A d \in {p1, p2} : WF_MailVars(part = "mail" /\ Mail!deliver_pending_with_metrics(d))
    /\ \A m \in {m1, m2} : /\ WF_MailVars(part = "mail" /\ Mail!BecomesDue(m))
                           /\ WF_MailVars(part = "mail" /\ Mail!ClaimTimesOut(m))

\* Workers go on, the server's deadlock detector runs, and a client that drew a key
\* ends its transaction.
ServerRuns ==
    /\ \A l \in {r1, r2} : /\ WF_LoadVars(part = "loads" /\ Load!LoadStep(l))
                           /\ WF_LoadVars(part = "loads" /\ Load!DeadlockDetected(l))
    /\ WF_LoadVars(part = "loads" /\ Load!ClientInserts)

\* An operation that was admitted comes to its end, a supervisor that was told to
\* stop leaves its loop, and the event loop goes on with a drain.
OperationsReturn ==
    /\ \A o \in {o1, o2} :
        WF_RuntimeVars(part = "drain" /\ (Runtime!ThreadEnds(o) \/ Runtime!CloseScope(o)))
    /\ SF_RuntimeVars(part = "drain" /\ \E o \in {o1, o2} : Runtime!Release(o))
    /\ \A g \in 1..2 :
        WF_RuntimeVars(part = "drain" /\ ~rt[g].accepting /\ Runtime!SupervisorEnds(g))
    /\ WF_RuntimeVars(part = "drain" /\ Runtime!Drain(a1))

\* Time passes, the owner of the account keeps trying the right password and
\* finishes a sign-in whose password was accepted, administrators finish.
OwnerTries ==
    /\ WF_LoginVars(part = "login" /\ Login!LockElapses)
    /\ \A l \in {p1, p2} : /\ WF_LoginVars(part = "login" /\ Login!authenticate_user(l, TRUE))
                           /\ WF_LoginVars(part = "login" /\ Login!create_session(l, s1))
    /\ WF_LoginVars(part = "login" /\ Login!AdminRevoke)
    /\ WF_LoginVars(part = "login" /\ Login!AdminCommit)

-----------------------------------------------------------------------------
\* Work is found: a row that is due is claimed, ended by its owner or withheld with
\* its owner, although notifications are lost, connections break, and the process
\* dies while it waits or holds the row (inspect_queues, listener.wait).
WorkIsFound ==
    SupervisorRuns =>
        \A i \in {r1, a1} : (part = "queues" /\ Queues!is_due(i)) ~> (part = "queues" /\ ~Queues!is_due(i))

\* Once a run ended, a publication whose outcome can be known (never submitted, or
\* applied) is resolved; a start of compute is resolved or cancelled, and a run that
\* waits for compute meets it or is blocked: crashes, transient errors and a silent
\* provider only delay it (recover_publications, poll_due_attempts).
DatabricksResolves ==
    /\ RecoveryRuns => ((part = "ledger" /\ Ledger!Knowable(r1))
                         ~> (part = "ledger" /\ rec[r1].state \in Ledger!Resolved))
    /\ PollersRun =>
        /\ (part = "compute" /\ 1 \in DOMAIN attempts /\ attempts[1].status = "starting")
             ~> (part = "compute" /\ 1 \in DOMAIN attempts /\ attempts[1].status # "starting")
        /\ (part = "compute" /\ run[r1].state \in {"queued", "working"})
             ~> (part = "compute" /\ run[r1].state \in {"done", "blocked"})

\* Every queued message is sent or dead-lettered: a claim whose holder died does not
\* keep it for ever (_claim_pending).
MailSettles ==
    OutboxDrained =>
        \A m \in {m1, m2} : (part = "mail" /\ box[m].state = "pending")
                            ~> (part = "mail" /\ box[m].state \in {"sent", "failed"})

\* What was begun comes to an end: two loads that wait for each other's locks and for
\* a client (finalize, abort_destination), and a shutdown that waits for operations
\* and their threads (wait_until_idle).
OperationsEnd ==
    /\ ServerRuns =>
        \A l \in {r1, r2} : (part = "loads") ~> (part = "loads" /\ pc[l] = "done")
    /\ OperationsReturn =>
        (part = "drain" /\ app[a1].pc = "draining") ~> (part = "drain" /\ app[a1].pc \in {"down", "failed"})

\* An account that nobody disables and nobody guesses at any more lets its owner in
\* again: no history of failures, the row without a deadline included, locks it for
\* ever (authenticate_user).
OwnerGetsIn ==
    OwnerTries =>
        (part = "login") ~> (part = "login" /\ (\/ user.status = "disabled"
                                                \/ sess[s1].state # "absent"
                                                \/ \E l \in {p1, p2} : login[l].pc = "done"))
=============================================================================
