---------------------------- MODULE QueueWakeups ----------------------------
(***************************************************************************)
(* How a process of Data Mover finds out that there is work: the loop of   *)
(* run_background_runtime, its PostgreSQL QueueListener, the deadline that *)
(* next_background_work_delay computes, and the triggers of migration 0027 *)
(* that notify every listener when a queue row changes.                    *)
(*                                                                         *)
(* A notification is not a durable queue: it is lost while a process has   *)
(* no live LISTEN connection, and nothing is sent when a lease expires or a*)
(* retry becomes due.  Each process therefore combines three sources, the  *)
(* socket, a timer, and polling without a listener; the properties say that*)
(* together they miss nothing and, when idle, ask for nothing.             *)
(*                                                                         *)
(* Time is kept as countdowns.  due[i] is the time until the row wants     *)
(* attention (next_attempt_at or next_poll_at when it waits, the expiry of *)
(* its lease when it is owned), timer[p] the time until next_work.         *)
(* The janitor's timer and the poll delay are left open: a wait may return *)
(* without news at any time.  So is _retry_at: a connection attempt may be *)
(* refused at any time.  Publication records, the third queue inspected,   *)
(* are left out; they follow the pattern of the compute attempts.          *)
(***************************************************************************)
EXTENDS Integers

CONSTANTS Procs,       \* processes that run the supervisor loop
          NoProc,      \* no process
          NoItem,      \* no row
          Runs,        \* rows of pipeline_runs
          Attempts,    \* rows of databricks_compute_attempts
          Lease,       \* pipeline_lease_seconds, in ticks
          Poll,        \* pipeline_background_poll_seconds
          Retry,       \* pipeline_databricks_startup_poll_seconds
          MaxRetries,  \* bound: deferrals and rescheduled polls
          MaxChanges,  \* bound: changes by users
          MaxFaults    \* bound: crashes and failed inspections

Items == Runs \cup Attempts

ASSUME ProcAssumption == NoProc \notin Procs
ASSUME ItemAssumption == Runs \cap Attempts = {} /\ NoItem \notin Items
ASSUME DelayAssumption == /\ Lease \in Nat \ {0}
                          /\ Poll \in Nat \ {0}
                          /\ Retry \in Nat \ {0}
ASSUME BudgetAssumption == /\ MaxRetries \in Nat
                           /\ MaxChanges \in Nat
                           /\ MaxFaults \in Nat

VARIABLES state,      \* per row: not there, waiting, under a lease, ended
          due,        \* per row: ticks until it wants attention
          holder,     \* per row: the process whose lease it is
          active,     \* users.status of the runs' owner is "active"
          pc,         \* per process: where its loop is
          conn,       \* per process: its LISTEN connection
          note,       \* per process: a notification waits in its socket
          look,       \* per process: inspect_queues
          listening,  \* per process: the local variable of that name
          timer,      \* per process: ticks until next_work, NoTimer for None
          item,       \* per process: the row it works on
          retries, changes, failures, crashes

rows   == <<state, due, holder, active>>
loop   == <<pc, look, listening, timer, item>>
link   == <<conn, note>>
budget == <<retries, changes, failures, crashes>>
vars   == <<rows, loop, link, budget>>

NoTimer == -1

\* "closed": a run has ended, an attempt is finished.  A cancelled attempt
\* keeps its active_key and may be resumed.
States == {"absent", "queued", "owned", "cancelled", "closed"}

Init == /\ state = [i \in Items |-> "absent"]
        /\ due = [i \in Items |-> 0]
        /\ holder = [i \in Items |-> NoProc]
        /\ active = TRUE
        /\ pc = [p \in Procs |-> "connect"]
        /\ conn = [p \in Procs |-> "none"]
        /\ note = [p \in Procs |-> FALSE]
        /\ look = [p \in Procs |-> TRUE]
        /\ listening = [p \in Procs |-> FALSE]
        /\ timer = [p \in Procs |-> NoTimer]
        /\ item = [p \in Procs |-> NoItem]
        /\ retries = 0 /\ changes = 0 /\ failures = 0 /\ crashes = 0

\* A row the process would act on now or later: the rows both the claims and
\* the deadline query select, before their condition on time.
pending(i) == state[i] \in {"queued", "owned"} /\ (i \in Runs => active)

is_due(i) == pending(i) /\ due[i] = 0

\* datamover_queue_notify, at the commit of the change.
Notify == note' = [p \in Procs |-> note[p] \/ conn[p] = "live"]

Goto(p, where) == pc' = [pc EXCEPT ![p] = where]

SetRow(i, s, d, h) == /\ state' = [state EXCEPT ![i] = s]
                      /\ due' = [due EXCEPT ![i] = d]
                      /\ holder' = [holder EXCEPT ![i] = h]
                      /\ UNCHANGED active

------------------------------------------------------------------------------
(* Changes made outside the loop.                                           *)

\* enqueue_run, and create_compute_attempt with its first poll in the future.
Enqueue(i) ==
    /\ state[i] = "absent"
    /\ SetRow(i, "queued", IF i \in Attempts THEN Retry ELSE 0, NoProc)
    /\ Notify
    /\ UNCHANGED <<loop, conn, budget>>

UserChange == /\ changes < MaxChanges
              /\ changes' = changes + 1
              /\ Notify
              /\ UNCHANGED <<loop, conn, retries, failures, crashes>>

\* request_cancel of a queued run, cancel_compute_observation of an attempt.
Cancel(i) ==
    /\ \/ i \in Runs /\ state[i] = "queued" /\ SetRow(i, "closed", 0, NoProc)
       \/ i \in Attempts /\ pending(i) /\ SetRow(i, "cancelled", 0, NoProc)
    /\ UserChange

\* resume_compute_observation: polled at once, or timed out meanwhile.
Resume(i) == /\ i \in Attempts /\ state[i] = "cancelled"
             /\ \E s \in {"queued", "closed"} : SetRow(i, s, 0, NoProc)
             /\ UserChange

\* Without the trigger dm_queue_owner.
wrong_SetOwnerStatus ==
    /\ changes < MaxChanges
    /\ active' = ~active
    /\ changes' = changes + 1
    /\ UNCHANGED <<state, due, holder, loop, link, retries, failures, crashes>>

\* An administrator disables or activates the owner.
SetOwnerStatus == /\ active' = ~active
                  /\ UNCHANGED <<state, due, holder>>
                  /\ UserChange

\* Time passes.  No row changes, so nobody is notified.
Tick ==
    /\ due' = [i \in Items |-> IF due[i] > 0 THEN due[i] - 1 ELSE 0]
    /\ timer' = [p \in Procs |-> IF timer[p] > 0 THEN timer[p] - 1 ELSE timer[p]]
    /\ UNCHANGED <<state, holder, active, pc, look, listening, item, link, budget>>

\* The connection breaks; its owner has not noticed yet.
Drop(p) == /\ conn[p] = "live"
           /\ conn' = [conn EXCEPT ![p] = "broken"]
           /\ note' = [note EXCEPT ![p] = FALSE]
           /\ UNCHANGED <<rows, loop, budget>>

------------------------------------------------------------------------------
(* The loop of one process.                                                 *)

\* listener.connect.  LISTEN commits before anything is inspected.
connect(p) ==
    /\ pc[p] = "connect"
    /\ \/ /\ conn[p] # "none"
          /\ listening' = [listening EXCEPT ![p] = TRUE]
          /\ UNCHANGED <<conn, note, look>>
       \/ /\ conn[p] = "none"
          /\ conn' = [conn EXCEPT ![p] = "live"]
          /\ note' = [note EXCEPT ![p] = FALSE]
          /\ listening' = [listening EXCEPT ![p] = TRUE]
          /\ look' = [look EXCEPT ![p] = TRUE]
       \/ /\ conn[p] = "none"
          /\ listening' = [listening EXCEPT ![p] = FALSE]
          /\ UNCHANGED <<conn, note, look>>
    /\ Goto(p, IF look'[p] THEN "runs" ELSE "wait")
    /\ UNCHANGED <<rows, timer, item, budget>>

\* Process p takes row i under a new lease.
take(p, i) == /\ SetRow(i, "owned", Lease, p)
              /\ item' = [item EXCEPT ![p] = i]
              /\ Goto(p, "work")

\* process_pending_pipeline_run_background: one run at most.  A stale run is
\* ended or taken over; when its status was validating already, autoflush
\* being off, the takeover changes no column that a trigger watches.
claim_run(p) ==
    /\ pc[p] = "runs"
    /\ \/ \E i \in Runs :
             /\ is_due(i)
             /\ \/ take(p, i) /\ Notify
                \/ take(p, i) /\ state[i] = "owned" /\ UNCHANGED note
                \/ /\ state[i] = "owned"
                   /\ SetRow(i, "closed", 0, NoProc)
                   /\ Goto(p, "attempts")
                   /\ Notify
                   /\ UNCHANGED item
       \/ /\ \A i \in Runs : ~is_due(i)
          /\ Goto(p, "attempts")
          /\ UNCHANGED <<rows, item, note>>
    /\ UNCHANGED <<look, listening, timer, conn, budget>>

\* process_pending_databricks_compute_attempt_background, up to the claim.
claim_due_attempt(p) ==
    /\ pc[p] = "attempts"
    /\ \/ \E i \in Attempts : is_due(i) /\ take(p, i) /\ Notify
       \/ /\ \A i \in Attempts : ~is_due(i)
          /\ Goto(p, "deadline")
          /\ UNCHANGED <<rows, item, note>>
    /\ UNCHANGED <<look, listening, timer, conn, budget>>

\* The loop goes on after the work on a run, or on an attempt.
leave(p) == /\ Goto(p, IF item[p] \in Runs THEN "attempts" ELSE "deadline")
            /\ item' = [item EXCEPT ![p] = NoItem]

\* The claim is still good: a run's needs an unexpired lease, an attempt's
\* only the token (observe_attempt).
owns(p) == /\ state[item[p]] = "owned" /\ holder[item[p]] = p
           /\ item[p] \in Runs => due[item[p]] > 0

\* Every ending of a run; an observation that finishes an attempt.
finish(p) ==
    /\ pc[p] = "work" /\ owns(p)
    /\ SetRow(item[p], "closed", 0, NoProc)
    /\ leave(p)
    /\ Notify
    /\ UNCHANGED <<look, listening, timer, conn, budget>>

wrong_defer(p) ==
    /\ pc[p] = "work" /\ owns(p)
    /\ retries < MaxRetries
    /\ SetRow(item[p], "waiting_for_compute", Retry, NoProc)
    /\ retries' = retries + 1
    /\ leave(p)
    /\ Notify
    /\ UNCHANGED <<look, listening, timer, conn, changes, failures, crashes>>

\* defer_run_for_databricks_compute; an observation that polls again later.
defer(p) ==
    /\ pc[p] = "work" /\ owns(p)
    /\ retries < MaxRetries
    /\ SetRow(item[p], "queued", Retry, NoProc)
    /\ retries' = retries + 1
    /\ leave(p)
    /\ Notify
    /\ UNCHANGED <<look, listening, timer, conn, changes, failures, crashes>>

\* The lease is gone: the work ends without a change.
abandon(p) ==
    /\ pc[p] = "work" /\ ~owns(p)
    /\ leave(p)
    /\ UNCHANGED <<rows, look, listening, timer, link, budget>>

\* renew_lease touches no column a trigger watches.
renew_lease(p) ==
    /\ pc[p] = "work" /\ owns(p) /\ item[p] \in Runs
    /\ due' = [due EXCEPT ![item[p]] = Lease]
    /\ UNCHANGED <<state, holder, active, loop, link, budget>>

\* transition: the status of an owned run changes.
transition(p) ==
    /\ pc[p] = "work" /\ owns(p) /\ item[p] \in Runs
    /\ Notify
    /\ UNCHANGED <<rows, loop, conn, budget>>

\* A claim or an observation raises; the loop logs it and goes on.
inspection_fails(p) ==
    /\ failures < MaxFaults
    /\ failures' = failures + 1
    /\ \/ pc[p] = "runs" /\ Goto(p, "attempts") /\ UNCHANGED item
       \/ pc[p] = "attempts" /\ Goto(p, "deadline") /\ UNCHANGED item
       \/ pc[p] = "work" /\ leave(p)
    /\ UNCHANGED <<rows, look, listening, timer, link, retries, changes, crashes>>

wrong_deadline_rows == {i \in Items : pending(i) /\ state[i] = "queued"}

\* The rows of the deadline query.
deadline_rows == {i \in Items : pending(i)}

\* next_background_work_delay: the earliest deadline, at least half a second
\* away (one tick).
next_work(p) ==
    \/ deadline_rows = {} /\ timer' = [timer EXCEPT ![p] = NoTimer]
    \/ \E i \in deadline_rows :
          /\ \A j \in deadline_rows : due[i] <= due[j]
          /\ timer' = [timer EXCEPT ![p] = IF due[i] > 1 THEN due[i] ELSE 1]

deadline(p) ==
    /\ pc[p] = "deadline"
    /\ \/ listening[p] /\ next_work(p) /\ UNCHANGED failures
       \/ /\ listening[p] /\ failures < MaxFaults      \* the query fails
          /\ timer' = [timer EXCEPT ![p] = Poll]
          /\ failures' = failures + 1
       \/ ~listening[p] /\ UNCHANGED <<timer, failures>>
    /\ Goto(p, "wait")
    /\ UNCHANGED <<rows, look, listening, item, link, retries, changes, crashes>>

wrong_inspect_queues(p, notified) == notified \/ timer[p] = 0

\* The value of inspect_queues after a wait.
inspect_queues(p, notified) == ~listening[p] \/ notified \/ timer[p] = 0

returns(p, notified) ==
    /\ look' = [look EXCEPT ![p] = inspect_queues(p, notified)]
    /\ Goto(p, "connect")
    /\ UNCHANGED <<rows, listening, timer, item, budget>>

\* listener.wait with a readable socket: a notification, or a broken
\* connection, which _unavailable closes.
wait_news(p) ==
    /\ pc[p] = "wait"
    /\ \/ /\ conn[p] = "live" /\ note[p]
          /\ note' = [note EXCEPT ![p] = FALSE]
          /\ UNCHANGED conn
       \/ /\ conn[p] = "broken"
          /\ conn' = [conn EXCEPT ![p] = "none"]
          /\ UNCHANGED note
    /\ returns(p, TRUE)

\* wait returns False: the deadline, the poll delay or the janitor's timer.
wait_ends(p) == pc[p] = "wait" /\ UNCHANGED link /\ returns(p, FALSE)

\* The process stops or dies, with everything it kept in memory.
Crash(p) ==
    /\ pc[p] # "down" /\ crashes < MaxFaults
    /\ crashes' = crashes + 1
    /\ Goto(p, "down")
    /\ conn' = [conn EXCEPT ![p] = "none"]
    /\ note' = [note EXCEPT ![p] = FALSE]
    /\ look' = [look EXCEPT ![p] = TRUE]
    /\ listening' = [listening EXCEPT ![p] = FALSE]
    /\ timer' = [timer EXCEPT ![p] = NoTimer]
    /\ item' = [item EXCEPT ![p] = NoItem]
    /\ UNCHANGED <<rows, retries, changes, failures>>

\* A new process starts the loop.
Restart(p) == /\ pc[p] = "down"
              /\ Goto(p, "connect")
              /\ UNCHANGED <<rows, look, listening, timer, item, link, budget>>

------------------------------------------------------------------------------

Inspect(p) == \/ connect(p) \/ claim_run(p) \/ claim_due_attempt(p)
              \/ finish(p) \/ defer(p) \/ abandon(p) \/ deadline(p)

Process(p) == \/ Inspect(p) \/ wait_news(p) \/ wait_ends(p)
              \/ renew_lease(p) \/ transition(p) \/ inspection_fails(p)
              \/ Crash(p) \/ Restart(p) \/ Drop(p)

Environment == \/ \E i \in Items : \/ Enqueue(i)
                                   \/ changes < MaxChanges /\ (Cancel(i) \/ Resume(i))
               \/ SetOwnerStatus

Next == Environment \/ Tick \/ \E p \in Procs : Process(p)

Spec == Init /\ [][Next]_vars

------------------------------------------------------------------------------

\* The table and the loops stay well formed.
TypeOK == /\ state \in [Items -> States]
          /\ due \in [Items -> Nat]
          /\ holder \in [Items -> Procs \cup {NoProc}]
          /\ active \in BOOLEAN
          /\ pc \in [Procs -> {"connect", "runs", "attempts", "work", "deadline",
                               "wait", "down"}]
          /\ conn \in [Procs -> {"none", "live", "broken"}]
          /\ note \in [Procs -> BOOLEAN]
          /\ look \in [Procs -> BOOLEAN]
          /\ listening \in [Procs -> BOOLEAN]
          /\ timer \in [Procs -> Nat \cup {NoTimer}]
          /\ item \in [Procs -> Items \cup {NoItem}]
          /\ retries \in Nat /\ changes \in Nat /\ failures \in Nat /\ crashes \in Nat

\* Process p sleeps on a working connection with nothing in its socket.
Asleep(p) == pc[p] = "wait" /\ conn[p] = "live" /\ ~note[p]

\* The slack of a timer: half a second for work that was due already, the
\* polling interval once a deadline query has failed.
Slack == IF failures = 0 THEN 1 ELSE Poll

\* The timer of p goes off no later than row i wants attention, or than the
\* slack allows.
covers(p, i) == timer[p] # NoTimer /\ (timer[p] <= due[i] \/ timer[p] <= Slack)

\* No missed wakeup: a process that sleeps (listener.wait) without news has a
\* timer for every row that is, or silently becomes, claimable, whatever
\* commits, lease renewals, disconnects and failures lie between its inspection
\* of the queues and its sleep.
NoMissedWakeup == \A p \in Procs : Asleep(p) => \A i \in Items : pending(i) => covers(p, i)

\* Idle processes ask nothing of the database: one that sleeps without news has
\* a timer only if some row waits for one, unless a deadline query failed
\* (next_background_work_delay, "None when all work queues are idle").
QuietWhenIdle == \A p \in Procs : Asleep(p) /\ failures = 0 /\ timer[p] # NoTimer
                                      => \E i \in Items : pending(i)

=============================================================================
