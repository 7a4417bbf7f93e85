------------------------- MODULE DatabricksCompute -------------------------
(***************************************************************************)
(* Starting a shared Databricks compute and observing its readiness        *)
(* (app/services/databricks_compute.py): the durable start attempts, the   *)
(* two callers that submit a start (the Start control of the connections   *)
(* page and a run whose connection allows startup), the background pollers *)
(* and what replaces a saved connection under them.  All connections       *)
(* select one and the same compute, whose fence is the unique column       *)
(* active_key.                                                             *)
(***************************************************************************)
EXTENDS Naturals, Sequences, FiniteSets

CONSTANTS
    Owners,      \* users with a saved Databricks connection
    Manual,      \* threads of the Start control
    Runs,        \* runs whose connection has startup_policy = allow_start
    OwnerOf,     \* the owner of each thread and each run
    Pollers,     \* processes that poll due attempts
    NoPoller,    \* an empty lease_token
    MaxAttempts, \* bound on the attempts of one behaviour
    MaxGen,      \* bound on the generations of one connection
    MaxCrashes,  \* bound on crashes
    Overrun      \* may a poll outlive its 60 second lease?

Starters == Manual \cup Runs

VARIABLES
    conn,      \* the UserSecret rows: generation, runtime_status, who wrote it
    attempts,  \* the databricks_compute_attempts rows, in order of creation
    compute,   \* the provider's compute
    start,     \* what each starter is doing
    run,       \* the startup columns of each run
    poll,      \* what each poller is doing
    crashes    \* crashes so far

vars == <<conn, attempts, compute, start, run, poll, crashes>>

Runtime == {"", "STARTING", "RUNNING", "FAILED", "TIMED_OUT", "OBSERVATION_CANCELLED"}
Statuses == {"starting", "ready", "failed", "stale", "timed_out", "cancelled"}
Answers == {"none", "submitted", "running", "uncertain", "fatal", "stale", "transient",
            "PENDING", "RUNNING", "FAILED"}

\* due: next_poll_at has come; past: deadline_at has come; held: the lease of
\* the poller named by token has not expired.
Attempt == [owner : Owners, gen : 1 .. MaxGen, status : Statuses, active : BOOLEAN,
            due : BOOLEAN, past : BOOLEAN, token : Pollers \cup {NoPoller}, held : BOOLEAN]

TypeOK ==
    /\ conn \in [Owners -> [live : BOOLEAN, enabled : BOOLEAN, gen : 1 .. MaxGen,
                            runtime : Runtime, by : 0 .. MaxAttempts]]
    /\ attempts \in Seq(Attempt) /\ Len(attempts) <= MaxAttempts
    /\ compute \in {"STOPPED", "STARTING", "RUNNING", "FAILED"}
    /\ start \in [Starters -> [pc : {"idle", "loaded", "check", "mark", "call", "answer",
                                     "fail", "failwrite", "require", "show_starting",
                                     "show_running", "defer", "raise"},
                               att : 0 .. MaxAttempts, gen : 0 .. MaxGen, ans : Answers]]
    /\ run \in [Runs -> [state : {"queued", "working", "done", "blocked"},
                         deadline : 0 .. MaxAttempts, att : 0 .. MaxAttempts]]
    /\ poll \in [Pollers -> [pc : {"idle", "load", "persist", "runtime"},
                             att : 0 .. MaxAttempts, ans : Answers]]
    /\ crashes \in 0 .. MaxCrashes

Idle == [pc |-> "idle", att |-> 0, gen |-> 0, ans |-> "none"]
Resting == [pc |-> "idle", att |-> 0, ans |-> "none"]

Init ==
    /\ conn = [o \in Owners |-> [live |-> TRUE, enabled |-> TRUE, gen |-> 1,
                                 runtime |-> "", by |-> 0]]
    /\ attempts = <<>>
    /\ compute = "STOPPED"
    /\ start = [s \in Starters |-> Idle]
    /\ run = [r \in Runs |-> [state |-> "queued", deadline |-> 0, att |-> 0]]
    /\ poll = [p \in Pollers |-> Resting]
    /\ crashes = 0

-----------------------------------------------------------------------------
(* The rows *)

\* connection_generation of the attempt equals updated_at of the saved row.
Current(a) ==
    LET c == conn[attempts[a].owner] IN c.live /\ c.gen = attempts[a].gen

Active == {a \in DOMAIN attempts : attempts[a].active}

finish(row, status) ==
    [row EXCEPT !.status = status, !.active = FALSE, !.due = TRUE,
                !.token = NoPoller, !.held = FALSE]

wrong_show(a, runtime) ==
    conn' = [conn EXCEPT ![attempts[a].owner].runtime = runtime,
                         ![attempts[a].owner].by = a]
\* UPDATE user_secrets ... WHERE updated_at = <the attempt's generation>
show(a, runtime) ==
    IF Current(a)
    THEN conn' = [conn EXCEPT ![attempts[a].owner].runtime = runtime,
                              ![attempts[a].owner].by = a]
    ELSE UNCHANGED conn

new_attempt(s) ==
    [owner |-> OwnerOf[s], gen |-> start[s].gen, status |-> "starting", active |-> TRUE,
     due |-> FALSE, past |-> FALSE, token |-> NoPoller, held |-> FALSE]

wrong_fence_open == \A a \in Active : attempts[a].status # "starting"
\* The unique key on active_key: an insert beside an active row is refused.
fence_open == Active = {}

At(s, pc) == start[s].pc = pc
Go(s, pc) == start' = [start EXCEPT ![s].pc = pc]
\* The caller returns: a run goes on to defer or to block, a thread ends.
Return(s) == start' = [start EXCEPT ![s] = IF s \in Runs THEN [@ EXCEPT !.pc = "defer"] ELSE Idle]
Raise(s)  == start' = [start EXCEPT ![s] = IF s \in Runs THEN [@ EXCEPT !.pc = "raise"] ELSE Idle]

-----------------------------------------------------------------------------
(* The saved connection *)

\* Replacing or deleting a connection revokes the attempts that hold the fence.
invalidated(o) ==
    [a \in DOMAIN attempts |->
        IF attempts[a].owner = o /\ attempts[a].active
        THEN finish(attempts[a], "stale") ELSE attempts[a]]

Rotate(o) ==
    /\ conn[o].gen < MaxGen
    /\ conn' = [conn EXCEPT ![o] = [@ EXCEPT !.live = TRUE, !.gen = conn[o].gen + 1,
                                             !.runtime = "", !.by = 0]]
    /\ attempts' = invalidated(o)
    /\ UNCHANGED <<compute, start, run, poll, crashes>>

Delete(o) ==
    /\ conn[o].live
    /\ conn' = [conn EXCEPT ![o] = [@ EXCEPT !.live = FALSE, !.runtime = "", !.by = 0]]
    /\ attempts' = invalidated(o)
    /\ UNCHANGED <<compute, start, run, poll, crashes>>

Disable(o) ==
    /\ conn[o].enabled
    /\ conn' = [conn EXCEPT ![o].enabled = FALSE]
    /\ UNCHANGED <<attempts, compute, start, run, poll, crashes>>

-----------------------------------------------------------------------------
(* Submitting a start *)

\* decrypt_user_credentials_for_run: the generation the caller works with.
Load(s) ==
    LET c == conn[OwnerOf[s]] IN
    /\ At(s, "idle") /\ c.live /\ c.enabled
    /\ s \in Runs => run[s].state = "queued"
    /\ start' = [start EXCEPT ![s] = [Idle EXCEPT !.pc = "loaded", !.gen = c.gen]]
    /\ run' = IF s \in Runs THEN [run EXCEPT ![s].state = "working"] ELSE run
    /\ UNCHANGED <<conn, attempts, compute, poll, crashes>>

\* Without a usable connection or owner the run fails before it asks for compute.
LoadFails(r) ==
    LET c == conn[OwnerOf[r]] IN
    /\ At(r, "idle") /\ run[r].state = "queued" /\ ~ (c.live /\ c.enabled)
    /\ run' = [run EXCEPT ![r].state = "blocked"]
    /\ UNCHANGED <<conn, attempts, compute, start, poll, crashes>>

\* _require_sql_ready finds the compute running: the run goes on with its transfer.
SqlReady(r) ==
    /\ At(r, "loaded") /\ compute = "RUNNING"
    /\ run' = [run EXCEPT ![r].state = "done"]
    /\ start' = [start EXCEPT ![r] = Idle]
    /\ UNCHANGED <<conn, attempts, compute, poll, crashes>>

NotStartable(r) ==
    /\ At(r, "loaded") /\ r \in Runs /\ compute = "FAILED"
    /\ Raise(r)
    /\ UNCHANGED <<conn, attempts, compute, run, poll, crashes>>

\* A run that has asked before waits for the same deadline and asks for nothing.
AskAgain(r) ==
    LET d == run[r].deadline
        a == run[r].att
        mine == a # 0 => /\ attempts[a].owner = OwnerOf[r]
                         /\ attempts[a].gen = start[r].gen
                         /\ attempts[a].status \in {"starting", "ready"}
    IN
    /\ At(r, "loaded") /\ compute \in {"STOPPED", "STARTING"} /\ d # 0
    /\ IF conn[OwnerOf[r]].enabled /\ ~ attempts[d].past /\ mine THEN Return(r) ELSE Raise(r)
    /\ UNCHANGED <<conn, attempts, compute, run, poll, crashes>>

wrong_may_request(s) ==
    /\ At(s, "loaded")
    /\ s \in Runs => compute \in {"STOPPED", "STARTING"} /\ conn[OwnerOf[s]].enabled
\* create_compute_attempt, committed before any call of the provider.
may_request(s) ==
    /\ At(s, "loaded")
    /\ s \in Runs => compute \in {"STOPPED", "STARTING"} /\ run[s].deadline = 0
                     /\ conn[OwnerOf[s]].enabled

wait_for(s, a) ==
    IF s \notin Runs THEN run
    ELSE [run EXCEPT ![s].deadline = a,
                     ![s].att = IF attempts'[a].owner = OwnerOf[s] THEN a ELSE @]

Reserve(s) ==
    /\ may_request(s) /\ fence_open /\ Len(attempts) < MaxAttempts
    /\ attempts' = Append(attempts, new_attempt(s))
    /\ run' = wait_for(s, Len(attempts'))
    /\ start' = [start EXCEPT ![s].pc = "check", ![s].att = Len(attempts')]
    /\ UNCHANGED <<conn, compute, poll, crashes>>

AlreadyStarting(s) ==
    /\ may_request(s) /\ ~ fence_open
    /\ \E a \in Active :
        /\ UNCHANGED attempts
        /\ run' = wait_for(s, a)
        /\ IF attempts[a].status = "starting" THEN Return(s) ELSE Raise(s)
    /\ UNCHANGED <<conn, compute, poll, crashes>>

OwnerDisabled(r) ==
    /\ At(r, "loaded") /\ r \in Runs /\ run[r].deadline = 0
    /\ compute \in {"STOPPED", "STARTING"} /\ ~ conn[OwnerOf[r]].enabled
    /\ Raise(r)
    /\ UNCHANGED <<conn, attempts, compute, run, poll, crashes>>

\* The saved generation is read again before the provider is called.  A run
\* calls the provider only for a compute it saw stopped.
generation_checked(s) ==
    start' = [start EXCEPT
        ![s] = IF ~ Current(@.att) THEN [@ EXCEPT !.pc = "fail", !.ans = "stale"]
               ELSE IF s \in Manual THEN [@ EXCEPT !.pc = "mark"]
               ELSE IF compute = "STOPPED" THEN [@ EXCEPT !.pc = "call"]
               ELSE [@ EXCEPT !.pc = "answer", !.ans = "submitted"]]

CheckGeneration(s) ==
    /\ At(s, "check")
    /\ generation_checked(s)
    /\ UNCHANGED <<conn, attempts, compute, run, poll, crashes>>

\* The Start control shows STARTING on the row as it is now, whatever its
\* generation, and keeps that generation for the write after the call.
Mark(s) ==
    LET o == OwnerOf[s] IN
    /\ At(s, "mark")
    /\ conn' = IF conn[o].live
               THEN [conn EXCEPT ![o].runtime = "STARTING", ![o].by = start[s].att]
               ELSE conn
    /\ start' = [start EXCEPT ![s].pc = "call",
                              ![s].gen = IF conn[o].live THEN conn[o].gen ELSE 0]
    /\ UNCHANGED <<attempts, compute, run, poll, crashes>>

\* start_compute at the provider: accepted, already running, an answer that says
\* nothing (the start may have happened), or a refusal.
StartCompute(s) ==
    /\ At(s, "call")
    /\ \E ans \in {"submitted", "running", "uncertain", "fatal"} :
        /\ ans = "running" => compute = "RUNNING"
        /\ ans = "submitted" => compute # "RUNNING"
        /\ compute' \in CASE ans = "submitted" -> {"STARTING"}
                          [] ans = "uncertain" /\ compute = "STOPPED" -> {"STOPPED", "STARTING"}
                          [] OTHER -> {compute}
        /\ start' = [start EXCEPT ![s].pc = "answer", ![s].ans = ans]
    /\ UNCHANGED <<conn, attempts, run, poll, crashes>>

\* _require_current_start_connection: which way a persisted attempt sends the caller.
required(s, next) ==
    LET a == start[s].att IN
    IF attempts[a].status = "stale" \/ ~ Current(a)
    THEN start' = [start EXCEPT ![s].pc = "fail", ![s].ans = "stale"]
    ELSE IF attempts[a].status \notin {"starting", "ready"} THEN Raise(s)
    ELSE Go(s, next)

\* record_start_uncertain and the way to record_start_failure.
StartFailed(s) ==
    LET a == start[s].att IN
    /\ At(s, "answer") /\ start[s].ans \in {"uncertain", "fatal"}
    /\ IF s \in Runs /\ (attempts[a].status \notin {"starting", "ready"} \/ ~ Current(a))
       THEN required(s, "fail") /\ UNCHANGED attempts
       ELSE IF start[s].ans = "fatal" THEN Go(s, "fail") /\ UNCHANGED attempts
       ELSE /\ attempts' = IF attempts[a].status = "starting"
                           THEN [attempts EXCEPT ![a].due = TRUE] ELSE attempts
            /\ Return(s)
    /\ UNCHANGED <<conn, compute, run, poll, crashes>>

record_start_submission(row, ans) ==
    IF row.status # "starting" THEN row
    ELSE IF ans = "running" THEN finish(row, "ready") ELSE [row EXCEPT !.due = FALSE]

StartSubmitted(s) ==
    LET a == start[s].att IN
    /\ At(s, "answer") /\ start[s].ans \in {"submitted", "running"}
    /\ attempts' = [attempts EXCEPT ![a] = record_start_submission(@, start[s].ans)]
    /\ Go(s, IF s \in Runs THEN "require"
             ELSE IF start[s].ans = "running" THEN "show_running" ELSE "show_starting")
    /\ UNCHANGED <<conn, compute, run, poll, crashes>>

RequireCurrent(s) ==
    /\ At(s, "require")
    /\ required(s, IF attempts[start[s].att].status = "ready"
                   THEN "show_running" ELSE "show_starting")
    /\ UNCHANGED <<conn, attempts, compute, run, poll, crashes>>

\* A run writes under the generation of its attempt, the Start control under the
\* generation it marked.
ShowStarted(s) ==
    LET a == start[s].att
        o == OwnerOf[s]
        runtime == IF At(s, "show_running") THEN "RUNNING" ELSE "STARTING"
    IN
    /\ start[s].pc \in {"show_running", "show_starting"}
    /\ IF s \in Runs THEN show(a, runtime)
       ELSE conn' = IF conn[o].live /\ conn[o].gen = start[s].gen
                    THEN [conn EXCEPT ![o].runtime = runtime, ![o].by = a] ELSE conn
    /\ IF s \in Runs /\ ~ Current(a) THEN Raise(s) ELSE Return(s)
    /\ UNCHANGED <<attempts, compute, run, poll, crashes>>

\* record_start_failure reads without a lock and writes in a later statement.
FailRead(s) ==
    /\ At(s, "fail")
    /\ IF attempts[start[s].att].status = "starting" THEN Go(s, "failwrite") ELSE Raise(s)
    /\ UNCHANGED <<conn, attempts, compute, run, poll, crashes>>

FailWrite(s) ==
    LET a == start[s].att IN
    /\ At(s, "failwrite")
    /\ attempts' = [attempts EXCEPT ![a] =
            finish(@, IF start[s].ans = "stale" THEN "stale" ELSE "failed")]
    /\ show(a, "FAILED")
    /\ Raise(s)
    /\ UNCHANGED <<compute, run, poll, crashes>>

-----------------------------------------------------------------------------
(* The run after its request *)

\* defer_run_for_databricks_compute
may_wait(r) ==
    LET d == run[r].deadline
        a == run[r].att
    IN /\ d # 0 /\ ~ attempts[d].past
       /\ a # 0 => attempts[a].status \in {"starting", "ready"} /\ ~ attempts[a].past

Defer(r) ==
    /\ At(r, "defer")
    /\ IF start[r].ans = "running" /\ compute = "RUNNING"
       THEN run' = [run EXCEPT ![r].state = "done"]
       ELSE run' = [run EXCEPT ![r].state = IF may_wait(r) THEN "queued" ELSE "blocked"]
    /\ start' = [start EXCEPT ![r] = Idle]
    /\ UNCHANGED <<conn, attempts, compute, poll, crashes>>

\* block_compute_readiness, or another failure before extraction.
Block(r) ==
    /\ At(r, "raise")
    /\ run' = [run EXCEPT ![r].state = "blocked"]
    /\ start' = [start EXCEPT ![r] = Idle]
    /\ UNCHANGED <<conn, attempts, compute, poll, crashes>>

-----------------------------------------------------------------------------
(* The owner's controls *)

CancelObservation(a) ==
    /\ attempts[a].status = "starting"
    /\ attempts' = [attempts EXCEPT ![a] =
            [@ EXCEPT !.status = "cancelled", !.due = TRUE, !.token = NoPoller, !.held = FALSE]]
    /\ show(a, "OBSERVATION_CANCELLED")
    /\ UNCHANGED <<compute, start, run, poll, crashes>>

ResumeObservation(a) ==
    /\ attempts[a].status = "cancelled" /\ attempts[a].active
    /\ IF attempts[a].past
       THEN /\ attempts' = [attempts EXCEPT ![a] = finish(@, "timed_out")]
            /\ UNCHANGED conn
       ELSE /\ attempts' = [attempts EXCEPT ![a].status = "starting", ![a].due = TRUE]
            /\ show(a, "STARTING")
    /\ UNCHANGED <<compute, start, run, poll, crashes>>

-----------------------------------------------------------------------------
(* Polling *)

claimable(row) ==
    row.status = "starting" /\ row.active /\ row.due /\ ~ row.held

Claim(p, a) ==
    /\ poll[p].pc = "idle" /\ claimable(attempts[a])
    /\ attempts' = [attempts EXCEPT ![a].token = p, ![a].held = TRUE]
    /\ poll' = [poll EXCEPT ![p] = [pc |-> "load", att |-> a, ans |-> "none"]]
    /\ UNCHANGED <<conn, compute, start, run, crashes>>

\* The connection is decrypted for the check and the provider is asked.
provider_says ==
    {"transient", "fatal", IF compute \in {"RUNNING", "FAILED"} THEN compute ELSE "PENDING"}

Ask(p) ==
    LET a == poll[p].att
        c == conn[attempts[a].owner]
    IN
    /\ poll[p].pc = "load"
    /\ IF attempts[a].token # p THEN poll' = [poll EXCEPT ![p] = Resting]
       ELSE \E ans \in IF ~ (c.enabled /\ c.live) THEN {"fatal"}
                       ELSE IF c.gen # attempts[a].gen THEN {"stale"} ELSE provider_says :
            poll' = [poll EXCEPT ![p].pc = "persist", ![p].ans = ans]
    /\ UNCHANGED <<conn, attempts, compute, start, run, crashes>>

observed(row, ans) ==
    CASE ans = "stale" -> finish(row, "stale")
      [] ans \in {"fatal", "FAILED"} -> finish(row, "failed")
      [] ans = "RUNNING" -> finish(row, "ready")
      [] ans \in {"PENDING", "transient"} /\ row.past -> finish(row, "timed_out")
      [] OTHER -> [row EXCEPT !.due = FALSE, !.token = NoPoller, !.held = FALSE]

\* observe_attempt: only the poller named by the lease token is heard.
owns_poll(p) ==
    LET row == attempts[poll[p].att] IN row.status = "starting" /\ row.token = p

Observe(p) ==
    LET a == poll[p].att IN
    /\ poll[p].pc = "persist"
    /\ IF owns_poll(p)
       THEN /\ attempts' = [attempts EXCEPT ![a] = observed(@, poll[p].ans)]
            /\ poll' = [poll EXCEPT ![p].pc = "runtime"]
       ELSE /\ UNCHANGED attempts
            /\ poll' = [poll EXCEPT ![p] = Resting]
    /\ UNCHANGED <<conn, compute, start, run, crashes>>

runtime_of(status) ==
    CASE status = "ready" -> "RUNNING"
      [] status = "timed_out" -> "TIMED_OUT"
      [] status \in {"failed", "stale"} -> "FAILED"
      [] OTHER -> "STARTING"

ShowObserved(p) ==
    /\ poll[p].pc = "runtime"
    /\ show(poll[p].att, runtime_of(attempts[poll[p].att].status))
    /\ poll' = [poll EXCEPT ![p] = Resting]
    /\ UNCHANGED <<attempts, compute, start, run, crashes>>

-----------------------------------------------------------------------------
(* Time, the provider and crashes *)

DeadlineComes(a) ==
    /\ ~ attempts[a].past
    /\ attempts' = [attempts EXCEPT ![a].past = TRUE]
    /\ UNCHANGED <<conn, compute, start, run, poll, crashes>>

PollComes(a) ==
    /\ ~ attempts[a].due
    /\ attempts' = [attempts EXCEPT ![a].due = TRUE]
    /\ UNCHANGED <<conn, compute, start, run, poll, crashes>>

LeaseExpires(a) ==
    /\ attempts[a].held
    /\ \A p \in Pollers : poll[p].att = a /\ attempts[a].token = p => Overrun
    /\ attempts' = [attempts EXCEPT ![a].held = FALSE]
    /\ UNCHANGED <<conn, compute, start, run, poll, crashes>>

Provider ==
    /\ compute' \in CASE compute = "STARTING" -> {"RUNNING", "FAILED"}
                      [] compute = "RUNNING" -> {"STOPPED"}
                      [] OTHER -> {}
    /\ UNCHANGED <<conn, attempts, start, run, poll, crashes>>

\* A worker that dies leaves its run to the next worker.
StarterCrash(s) ==
    /\ ~ At(s, "idle") /\ crashes < MaxCrashes
    /\ start' = [start EXCEPT ![s] = Idle]
    /\ run' = IF s \in Runs THEN [run EXCEPT ![s].state = "queued"] ELSE run
    /\ crashes' = crashes + 1
    /\ UNCHANGED <<conn, attempts, compute, poll>>

PollerCrash(p) ==
    /\ poll[p].pc # "idle" /\ crashes < MaxCrashes
    /\ poll' = [poll EXCEPT ![p] = Resting]
    /\ crashes' = crashes + 1
    /\ UNCHANGED <<conn, attempts, compute, start, run>>

-----------------------------------------------------------------------------
Submit(s) ==
    \/ Reserve(s) \/ AlreadyStarting(s) \/ CheckGeneration(s) \/ StartCompute(s)
    \/ StartFailed(s) \/ StartSubmitted(s) \/ ShowStarted(s) \/ FailRead(s) \/ FailWrite(s)

RunStep(r) ==
    \/ Load(r) \/ LoadFails(r) \/ SqlReady(r) \/ NotStartable(r) \/ AskAgain(r)
    \/ OwnerDisabled(r) \/ Submit(r) \/ RequireCurrent(r) \/ Defer(r) \/ Block(r)

ManualStep(s) == Submit(s) \/ Mark(s)

PollStep(p) ==
    \/ \E a \in DOMAIN attempts : Claim(p, a)
    \/ Ask(p) \/ Observe(p) \/ ShowObserved(p)

Time(a) == DeadlineComes(a) \/ PollComes(a) \/ LeaseExpires(a)

Next ==
    \/ \E o \in Owners : Rotate(o) \/ Delete(o) \/ Disable(o)
    \/ \E s \in Manual : Load(s) \/ ManualStep(s)
    \/ \E r \in Runs : RunStep(r)
    \/ \E a \in DOMAIN attempts : CancelObservation(a) \/ ResumeObservation(a) \/ Time(a)
    \/ \E p \in Pollers : PollStep(p) \/ PollerCrash(p)
    \/ \E s \in Starters : StarterCrash(s)
    \/ Provider

Spec == Init /\ [][Next]_vars

-----------------------------------------------------------------------------
(* Properties *)

\* The fence (models.py uq_databricks_compute_attempt_active_key): whoever is
\* between reserving an attempt and the provider's answer, at most one attempt of
\* the compute is unresolved, and an unresolved attempt is starting or cancelled.
OneUnresolvedStart ==
    /\ Cardinality(Active) <= 1
    /\ \A a \in DOMAIN attempts :
        attempts[a].active <=> attempts[a].status \in {"starting", "cancelled"}

\* What the page shows as the runtime status of a saved connection was written
\* for an attempt of that same connection and generation: an answer that
\* outlives a rotation (_require_current_start_connection) never reaches the
\* replacement.
RuntimeBelongs ==
    \A o \in Owners : conn[o].by # 0 =>
        /\ attempts[conn[o].by].owner = o
        /\ attempts[conn[o].by].gen = conn[o].gen

\* An inactive attempt stays so, and the deadline of a run is never replaced.
NoRevival ==
    /\ \A a \in DOMAIN attempts : ~ attempts[a].active => ~ attempts'[a].active
    /\ \A r \in Runs : run[r].deadline # 0 => run'[r].deadline = run[r].deadline

\* An attempt that released the fence never takes it back, whatever answer, poll or
\* resume comes late (observe_attempt, resume_compute_observation).
NothingRevived == [][NoRevival]_vars

\* The fence holds whoever starts the compute; what is shown belongs to the shown
\* generation when only runs start it, since the thread of the Start control marks the
\* row it reads in a second session.
ComputeFenced == TypeOK /\ OneUnresolvedStart /\ (Manual = {} => RuntimeBelongs)

=============================================================================
