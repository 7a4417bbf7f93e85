----------------------------- MODULE LeaseRace -----------------------------
(***************************************************************************)
(* The transactions of services/pipeline_runs.py on one run, split into    *)
(* what they really are on PostgreSQL at READ COMMITTED: a plain SELECT    *)
(* (owned_run, db.refresh), decisions on the copy, and one UPDATE at commit*)
(* of the columns whose value the session changed (SQLAlchemy's unit of    *)
(* work).  Nothing is locked between the two.  claim_run alone reads FOR   *)
(* UPDATE and is one step.                                                 *)
(***************************************************************************)
EXTENDS PipelineRuns, Sequences

CONSTANTS Workers,    \* sessions of the workers
          Owner,      \* the web session of the run's owner
          MaxClaims,  \* bound: claims of the run
          MaxAsks     \* bound: cancel and review requests of the owner

VARIABLES row,       \* the committed row
          held,      \* per worker: the token of its claim, NoToken when idle
          tx,        \* per session: the open transaction, a sequence of at most one
          nextToken, \* the next lease token
          sequence,  \* next_event_sequence of the row
          events,    \* the sequence numbers of the committed events, in commit order
          asks       \* requests the owner has made

vars == <<row, held, tx, nextToken, sequence, events, asks>>

Sessions == Workers \cup {Owner}

\* An open transaction: the row it read, the row it wants, the counter it read
\* and whether it appends an event.
Transaction == [old : Row, new : Row, sequence : Nat, event : BOOLEAN]

Init == /\ row = NewRow
        /\ held = [w \in Workers |-> NoToken]
        /\ tx = [s \in Sessions |-> <<>>]
        /\ nextToken = 1
        /\ sequence = 1
        /\ events = <<1>>
        /\ asks = 0

\* The UPDATE at commit: the columns the session changed, over the row as it is.
merge(current, old, new) ==
    [c \in DOMAIN current |-> IF new[c] # old[c] THEN new[c] ELSE current[c]]

wrong_append_event(s) ==
    /\ sequence' = tx[s][1].sequence + 1
    /\ events' = Append(events, tx[s][1].sequence + 1)

\* append_event: UPDATE ... SET next_event_sequence = next_event_sequence + 1
\* RETURNING, on the row as it is when the UPDATE gets the row lock, which the
\* transaction then keeps until it commits.
append_event(s) ==
    /\ sequence' = sequence + 1
    /\ events' = Append(events, sequence + 1)

\* n events of one transaction that holds the row lock.
append_events(n) ==
    /\ sequence' = sequence + n
    /\ events' = events \o [i \in 1..n |-> sequence + i]

\* The SELECT of session s, and what it will want to write.
Begin(s, new, event) ==
    tx' = [tx EXCEPT ![s] = <<[old |-> row, new |-> new, sequence |-> sequence,
                               event |-> event]>>]

------------------------------------------------------------------------------

\* claim_run, under the row lock.
claim_run(w) ==
    LET stale  == row.status \in WORKER_OWNED_STATUSES
        queued == IF stale THEN requeue(row) ELSE row
    IN  /\ held[w] = NoToken /\ tx[w] = <<>>
        /\ nextToken <= MaxClaims
        /\ claimable(row)
        /\ IF stale /\ destination_started(row)
           THEN /\ row' = fail_row(row, "worker_lost", FALSE, FALSE, TRUE)
                /\ append_events(1)
                /\ UNCHANGED <<held, nextToken>>
           ELSE /\ append_events(IF stale THEN 2 ELSE 1)
                /\ IF row.cancel
                   THEN /\ row' = cancel_before_destination_work(queued)
                        /\ UNCHANGED <<held, nextToken>>
                   ELSE /\ row' = take_lease(queued, nextToken)
                        /\ held' = [held EXCEPT ![w] = nextToken]
                        /\ nextToken' = nextToken + 1
        /\ UNCHANGED <<tx, asks>>

\* What a worker's transaction may want to write, from the row it has read:
\* transition, block_run, complete_run, fail_run, cancel_claimed_run, the
\* deferral; and, without an event, add_counters.
Wanted(copy, token) ==
    {set_status(copy, s, token) :
        s \in {t \in {"extracting", "loading", "verifying"} : may_transition(copy, t)}}
    \cup {block_row(copy) : s \in {t \in {"blocked"} : may_transition(copy, t)}}
    \cup {complete_row(copy, "verified") : s \in {copy.status} \cap {"verifying"}}
    \cup {fail_row(copy, code, FALSE, FALSE, FALSE) :
             code \in IF copy.status = "verifying" THEN {"provider", "publish_uncertain"}
                     ELSE {"provider"}}
    \cup {cancel_claimed_row(copy, default_cancel_impact(copy)) : s \in {TRUE} \cap {copy.cancel}}
    \cup {defer_row(copy) : s \in {copy.stage} \cap {"authenticate"}}

\* db.refresh and the lease check pass; the worker goes on with its copy.
BeginWork(w) ==
    /\ held[w] # NoToken /\ tx[w] = <<>>
    /\ refresh_and_require_lease(row, held[w])
    /\ \/ \E new \in Wanted(row, held[w]) : Begin(w, new, TRUE)
       \/ /\ row.status = "loading" /\ ~row.loaded
          /\ Begin(w, [row EXCEPT !.loaded = TRUE], FALSE)
    /\ UNCHANGED <<row, held, nextToken, sequence, events, asks>>

\* The lease check fails, or the status on the copy allows no transition.
Refused(w) ==
    /\ held[w] # NoToken /\ tx[w] = <<>>
    /\ ~refresh_and_require_lease(row, held[w]) \/ row.status \notin WORKER_OWNED_STATUSES
    /\ held' = [held EXCEPT ![w] = NoToken]
    /\ UNCHANGED <<row, tx, nextToken, sequence, events, asks>>

BeginCancel ==
    /\ tx[Owner] = <<>> /\ asks < MaxAsks
    /\ row.status \notin TERMINAL_STATUSES
    /\ Begin(Owner, request_cancel_row(row), TRUE)
    /\ asks' = asks + 1
    /\ UNCHANGED <<row, held, nextToken, sequence, events>>

BeginReview ==
    /\ tx[Owner] = <<>> /\ asks < MaxAsks
    /\ requires_review(row)
    /\ Begin(Owner, [row EXCEPT !.reviewed = TRUE], TRUE)
    /\ asks' = asks + 1
    /\ UNCHANGED <<row, held, nextToken, sequence, events>>

\* A faulty commit that writes every column of the copy it read.
wrong_Commit(s) ==
    /\ tx[s] # <<>>
    /\ row' = tx[s][1].new
    /\ IF tx[s][1].event THEN append_event(s) ELSE UNCHANGED <<sequence, events>>
    /\ tx' = [tx EXCEPT ![s] = <<>>]
    /\ UNCHANGED <<held, nextToken, asks>>

\* The event, the UPDATE and the commit.  A worker that ended or deferred the
\* run lets it go.
Commit(s) ==
    /\ tx[s] # <<>>
    /\ row' = merge(row, tx[s][1].old, tx[s][1].new)
    /\ IF tx[s][1].event THEN append_event(s) ELSE UNCHANGED <<sequence, events>>
    /\ tx' = [tx EXCEPT ![s] = <<>>]
    /\ held' = [w \in Workers |->
                  IF w = s /\ tx[s][1].new.status \notin WORKER_OWNED_STATUSES
                  THEN NoToken ELSE held[w]]
    /\ UNCHANGED <<nextToken, asks>>

\* A session that dies rolls its transaction back.
Rollback(s) ==
    /\ tx[s] # <<>>
    /\ tx' = [tx EXCEPT ![s] = <<>>]
    /\ held' = [w \in Workers |-> IF w = s THEN NoToken ELSE held[w]]
    /\ UNCHANGED <<row, nextToken, sequence, events, asks>>

LeaseExpires ==
    /\ row.lease = "live"
    /\ row' = [row EXCEPT !.lease = "expired"]
    /\ UNCHANGED <<held, tx, nextToken, sequence, events, asks>>

AttemptDue ==
    /\ row.wait
    /\ row' = [row EXCEPT !.wait = FALSE]
    /\ UNCHANGED <<held, tx, nextToken, sequence, events, asks>>

Next == \/ \E w \in Workers : claim_run(w) \/ BeginWork(w) \/ Refused(w)
        \/ BeginCancel \/ BeginReview
        \/ \E s \in Sessions : Commit(s) \/ Rollback(s)
        \/ LeaseExpires \/ AttemptDue

Spec == Init /\ [][Next]_vars

------------------------------------------------------------------------------

\* Type correctness.
TypeOK == /\ row \in Row
          /\ held \in [Workers -> Nat]
          /\ \A s \in Sessions : tx[s] # <<>> => tx[s][1] \in Transaction
          /\ nextToken \in Nat /\ sequence \in Nat /\ asks \in Nat

\* Event numbers follow commit order without a gap or a duplicate, whatever
\* transactions of workers and owner overlap (append_event allocates them with
\* one UPDATE on the run row).
EventsNumbered == /\ \A i \in 1..Len(events) : events[i] = i
                  /\ sequence = Len(events)

\* A lease token that was replaced or released never comes back: a stale
\* transaction does not write the token it read, so the superseded worker can
\* never pass the lease check again.
TokenNeverReturns ==
    row'.token \in {NoToken, row.token} \/ row'.token = nextToken

\* A cancellation that was committed is not lost to a transaction of a worker
\* that read the row before it.
CancelKept == row.cancel => row'.cancel

\* What a transaction that committed on a stale read may not undo.
StaleCommitsHarmless == [][TokenNeverReturns /\ CancelKept]_vars

\* docs/data-pipelines.md: "a lost lease during load or verification is treated
\* as an uncertain destination and requires reconciliation rather than a blind
\* retry".  A run found uncertain stays so.
UncertainStays ==
    [][row.status = "failed_needs_reconciliation"
          => row'.status = "failed_needs_reconciliation"]_vars
==============================================================================
