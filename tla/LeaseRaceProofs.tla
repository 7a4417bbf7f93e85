--------------------------- MODULE LeaseRaceProofs ---------------------------
(***************************************************************************)
(* Proofs about LeaseRace for every set of workers and any number of claims*)
(* and requests.                                                           *)
(***************************************************************************)
EXTENDS LeaseRace, SequenceTheorems, TLAPS

USE DEF NoToken

\* What a transaction may want of the row it read: a row of the table whose lease
\* is the one it read or none, and that keeps a cancellation.
Mild(old, new) == /\ new \in Row
                  /\ new.token \in {NoToken, old.token}
                  /\ old.cancel => new.cancel

\* An open transaction read a row whose lease some claim gave out.
Wants(t) == t \in Transaction /\ Mild(t.old, t.new) /\ t.old.token < nextToken

\* The inductive invariant: the columns have their types, no lease was given out
\* that claim_run did not number, every open transaction is mild, and the events
\* are numbered.
IInv ==
    /\ row \in Row /\ row.token < nextToken
    /\ nextToken \in Nat \ {0} /\ asks \in Nat
    /\ held \in [Workers -> Nat] /\ \A w \in Workers : held[w] < nextToken
    /\ DOMAIN tx = Sessions
    /\ \A s \in Sessions : tx[s] = <<>> \/ \E t : tx[s] = <<t>> /\ Wants(t)
    /\ sequence \in Nat /\ events \in Seq(Nat)
    /\ EventsNumbered

\* A worker that lost its lease does not pass the lease check again, whatever
\* transactions commit: the row's token never becomes the one that the worker
\* still holds (_refresh_and_require_lease).
SupersededStays ==
    \A w \in Workers :
        held[w] # NoToken /\ row.token # held[w] => row'.token # held[w]

------------------------------------------------------------------------------
(* The row operators, as a transaction or a claim uses them.                *)

\* The UPDATE at commit of a mild wish is mild to the row as it is by then: a
\* column that the session did not change is not written (SQLAlchemy's flush).
LEMMA MergeMild ==
  ASSUME NEW current \in Row, NEW old \in Row, NEW new, Mild(old, new)
  PROVE  Mild(current, merge(current, old, new))
  <1> DEFINE m == merge(current, old, new)
  <1>1. m \in Row
    BY DEF Mild, merge, Row
  <1> QED
    BY <1>1 DEF Mild, merge, Row

\* set_status with the token of the row, or with none, is mild.
LEMMA SetStatusMild ==
  ASSUME NEW r \in Row, NEW s \in ACTIVE_STATUSES \cup TERMINAL_STATUSES,
         NEW t, t \in {NoToken, r.token}
  PROVE  Mild(r, set_status(r, s, t))
  <1>1. STAGE_FOR_STATUS[s] \in Stages
    BY DEF Stages
  <1> QED
    BY <1>1 DEF Mild, set_status, Row

\* Ending a row with set_status and the reconciliation columns is mild.
LEMMA EndMild ==
  ASSUME NEW r \in Row, NEW s \in TERMINAL_STATUSES, NEW impact \in Impacts,
         NEW recon \in BOOLEAN, NEW retryable \in BOOLEAN
  PROVE  /\ Mild(r, conclude(set_status(r, s, r.token), impact, recon))
         /\ Mild(r, [conclude(set_status(r, s, r.token), impact, recon)
                        EXCEPT !.retryable = retryable])
  <1> DEFINE new == set_status(r, s, r.token)
             end == conclude(new, impact, recon)
  <1>1. Mild(r, new)
    BY SetStatusMild
  <1> HIDE DEF new
  <1>2. Mild(r, end)
    BY <1>1 DEF Mild, conclude, Row
  <1> HIDE DEF end
  <1>3. Mild(r, [end EXCEPT !.retryable = retryable])
    BY <1>2 DEF Mild, Row
  <1> QED
    BY <1>2, <1>3 DEF end, new

\* Each operation that ends a row is mild: cancel_before_destination_work,
\* block_run, complete_run, fail_run and cancel_claimed_run.
LEMMA EndingsMild ==
  ASSUME NEW r \in Row, NEW code, NEW needs \in BOOLEAN
  PROVE  /\ Mild(r, cancel_before_destination_work(r))
         /\ Mild(r, block_row(r))
         /\ Mild(r, complete_row(r, "verified"))
         /\ Mild(r, fail_row(r, code, FALSE, FALSE, needs))
         /\ Mild(r, cancel_claimed_row(r, default_cancel_impact(r)))
  <1>1. Mild(r, cancel_before_destination_work(r)) /\ Mild(r, block_row(r))
    BY EndMild DEF cancel_before_destination_work, block_row, TERMINAL_STATUSES, Impacts
  <1>2. Mild(r, complete_row(r, "verified"))
    BY EndMild DEF complete_row, TERMINAL_STATUSES, Impacts
  <1>3. Mild(r, fail_row(r, code, FALSE, FALSE, needs))
    <2> DEFINE recon  == needs \/ failure_requires_reconciliation(r, code)
               status == IF recon THEN "failed_needs_reconciliation" ELSE "failed"
               impact == IF recon THEN "uncertain" ELSE "unchanged"
    <2>1. fail_row(r, code, FALSE, FALSE, needs)
            = [conclude(set_status(r, status, r.token), impact, recon)
                 EXCEPT !.retryable = FALSE]
      BY DEF fail_row
    <2>2. /\ recon \in BOOLEAN /\ status \in TERMINAL_STATUSES /\ impact \in Impacts
      BY DEF TERMINAL_STATUSES, Impacts, failure_requires_reconciliation
    <2> HIDE DEF recon, status, impact
    <2>3. Mild(r, [conclude(set_status(r, status, r.token), impact, recon)
                     EXCEPT !.retryable = FALSE])
      BY <2>2, EndMild
    <2> QED
      BY <2>1, <2>3
  <1>4. Mild(r, cancel_claimed_row(r, default_cancel_impact(r)))
    <2> DEFINE impact == default_cancel_impact(r)
               recon  == impact = "uncertain"
               status == IF recon THEN "failed_needs_reconciliation" ELSE "cancelled"
    <2>1. cancel_claimed_row(r, impact)
            = conclude(set_status(r, status, r.token), impact, recon)
      BY DEF cancel_claimed_row
    <2>2. /\ recon \in BOOLEAN /\ status \in TERMINAL_STATUSES /\ impact \in Impacts
      BY DEF TERMINAL_STATUSES, Impacts, default_cancel_impact
    <2> HIDE DEF recon, status, impact
    <2>3. Mild(r, cancel_claimed_row(r, impact))
      BY <2>1, <2>2, EndMild
    <2> QED
      BY <2>3 DEF impact
  <1> QED
    BY <1>1, <1>2, <1>3, <1>4

\* The owner's request to cancel is mild, on a queued row and on a claimed one.
LEMMA CancelMild ==
  ASSUME NEW r \in Row
  PROVE  Mild(r, request_cancel_row(r))
  <1> DEFINE flagged == [r EXCEPT !.cancel = TRUE]
  <1>1. flagged \in Row /\ flagged.token = r.token /\ flagged.cancel
    BY DEF Row
  <1>2. request_cancel_row(r) = IF r.status = "queued"
                                THEN cancel_before_destination_work(flagged) ELSE flagged
    BY DEF request_cancel_row
  <1> HIDE DEF flagged
  <1>3. Mild(flagged, cancel_before_destination_work(flagged))
    BY <1>1, EndingsMild
  <1> QED
    BY <1>1, <1>2, <1>3 DEF Mild

\* What a worker wants is mild to the row it read under its own lease.
LEMMA WantedMild ==
  ASSUME NEW r \in Row, NEW new \in Wanted(r, r.token)
  PROVE  Mild(r, new)
  <1>1. CASE new \in {set_status(r, s, r.token) :
                 s \in {t \in {"extracting", "loading", "verifying"} : may_transition(r, t)}}
    BY <1>1, SetStatusMild DEF ACTIVE_STATUSES, WORKER_OWNED_STATUSES
  <1>2. CASE \/ new = block_row(r) \/ new = complete_row(r, "verified")
             \/ new = cancel_claimed_row(r, default_cancel_impact(r))
             \/ \E code \in {"provider", "publish_uncertain"} :
                   new = fail_row(r, code, FALSE, FALSE, FALSE)
    BY <1>2, EndingsMild
  <1>3. CASE new = defer_row(r)
    <2>1. "waiting_for_compute" \in Stages
      BY DEF Stages
    <2> QED
      BY <1>3, <2>1 DEF defer_row, Mild, Row, ACTIVE_STATUSES
  <1> QED
    BY <1>1, <1>2, <1>3 DEF Wanted

\* The way of a row through a claim, from the lease it takes back to the lease it
\* gives: it stays a row and keeps a cancellation.
LEMMA ClaimRows ==
  ASSUME NEW r \in Row, NEW token \in Nat \ {0}
  PROVE  /\ Mild(r, requeue(r))
         /\ take_lease(r, token) \in Row
         /\ take_lease(r, token).token = token
         /\ r.cancel => take_lease(r, token).cancel
  <1>1. Mild(r, requeue(r))
    BY DEF Mild, requeue, Row, ACTIVE_STATUSES, Stages
  <1> DEFINE new == set_status(r, "validating", token)
  <1>2. /\ new \in Row /\ new.token = token
        /\ r.cancel => new.cancel
    BY DEF set_status, Row, ACTIVE_STATUSES, WORKER_OWNED_STATUSES, TERMINAL_STATUSES, Stages
  <1>3. take_lease(r, token) = [new EXCEPT !.lease = "live", !.wait = FALSE]
    BY DEF take_lease
  <1> HIDE DEF new
  <1> QED
    BY <1>1, <1>2, <1>3 DEF Row

------------------------------------------------------------------------------
(* The steps.                                                               *)

\* n events of one transaction continue the numbering (append_event).
LEMMA Numbers ==
  ASSUME EventsNumbered, sequence \in Nat, events \in Seq(Nat), NEW n \in Nat,
         append_events(n)
  PROVE  EventsNumbered' /\ sequence' \in Nat /\ events' \in Seq(Nat)
  <1> DEFINE more == [i \in 1..n |-> sequence + i]
  <1>1. more \in Seq(Nat) /\ Len(more) = n /\ \A i \in 1..n : more[i] = sequence + i
    OBVIOUS
  <1>2. events' = events \o more /\ sequence' = sequence + n
    BY DEF append_events
  <1> HIDE DEF more
  <1>3. events' \in Seq(Nat) /\ Len(events') = Len(events) + n
    BY <1>1, <1>2, ConcatProperties
  <1>4. \A i \in 1..Len(events') : events'[i] = i
    BY <1>1, <1>2, <1>3, ConcatProperties DEF EventsNumbered
  <1> QED
    BY <1>2, <1>3, <1>4 DEF EventsNumbered

\* One event is a sequence of one.
LEMMA NumbersOne ==
  ASSUME EventsNumbered, sequence \in Nat, events \in Seq(Nat), NEW s, append_event(s)
  PROVE  EventsNumbered' /\ sequence' \in Nat /\ events' \in Seq(Nat)
  <1>1. events' \in Seq(Nat) /\ Len(events') = Len(events) + 1
    BY DEF append_event
  <1> QED
    BY <1>1 DEF append_event, EventsNumbered

\* An open transaction stays what it was when later leases are numbered.
LEMMA WantsStays ==
  ASSUME NEW t, Wants(t), nextToken \in Nat, nextToken' \in Nat, nextToken <= nextToken'
  PROVE  Wants(t)'
  BY DEF Wants, Transaction, Row

\* The part of the invariant on transactions and on what workers hold survives a
\* step that leaves them alone while more leases are numbered.
LEMMA OthersStay ==
  ASSUME IInv, nextToken' \in Nat, nextToken <= nextToken',
         NEW S \in SUBSET Sessions, \A s \in S : tx'[s] = tx[s]
  PROVE  /\ \A s \in S : tx'[s] = <<>> \/ \E t : tx'[s] = <<t>> /\ Wants(t)'
         /\ \A w \in Workers : held[w] < nextToken'
  BY WantsStays DEF IInv

\* What every step does to the row, the leases and the workers that hold one.
Lawful == /\ row' \in Row
          /\ \/ row'.token \in {NoToken, row.token} /\ nextToken' = nextToken
             \/ row'.token = nextToken /\ nextToken' = nextToken + 1
          /\ row.cancel => row'.cancel
          /\ held' \in [Workers -> Nat]
          /\ \A w \in Workers : held'[w] \in {NoToken, held[w]} \/
                (held[w] = NoToken /\ held'[w] = nextToken /\ nextToken' = nextToken + 1)

\* A lawful step keeps the part of the invariant on the row and the leases.
LEMMA LawfulKeeps ==
  ASSUME IInv, Lawful
  PROVE  /\ row'.token < nextToken'
         /\ nextToken' \in Nat \ {0} /\ nextToken <= nextToken'
         /\ \A w \in Workers : held'[w] < nextToken'
  <1>1. /\ nextToken \in Nat \ {0} /\ row.token \in Nat /\ row.token < nextToken
        /\ held \in [Workers -> Nat] /\ \A w \in Workers : held[w] < nextToken
    BY DEF IInv, Row
  <1>2. nextToken' \in Nat \ {0} /\ nextToken <= nextToken'
    BY <1>1 DEF Lawful
  <1>3. row'.token < nextToken'
    BY <1>1 DEF Lawful
  <1>4. ASSUME NEW w \in Workers PROVE held'[w] < nextToken'
    BY <1>1, <1>2 DEF Lawful
  <1> QED
    BY <1>2, <1>3, <1>4

\* A step of claim_run.
LEMMA ClaimStep ==
  ASSUME IInv, NEW w \in Workers, claim_run(w)
  PROVE  IInv' /\ Lawful
  <1> DEFINE stale  == row.status \in WORKER_OWNED_STATUSES
             queued == IF stale THEN requeue(row) ELSE row
  <1>1. /\ row \in Row /\ nextToken \in Nat \ {0} /\ held \in [Workers -> Nat]
        /\ sequence \in Nat /\ events \in Seq(Nat) /\ EventsNumbered
        /\ held[w] = NoToken /\ UNCHANGED <<tx, asks>>
    BY DEF IInv, claim_run
  <1>2. Mild(row, queued)
    BY <1>1, ClaimRows DEF Mild
  <1>3. \/ /\ row' = fail_row(row, "worker_lost", FALSE, FALSE, TRUE)
           /\ UNCHANGED <<held, nextToken>>
        \/ /\ row' = cancel_before_destination_work(queued)
           /\ UNCHANGED <<held, nextToken>>
        \/ /\ row' = take_lease(queued, nextToken)
           /\ held' = [held EXCEPT ![w] = nextToken]
           /\ nextToken' = nextToken + 1
    BY DEF claim_run
  <1>4. append_events(1) \/ append_events(2)
    BY DEF claim_run
  <1>5. EventsNumbered' /\ sequence' \in Nat /\ events' \in Seq(Nat)
    BY <1>1, <1>4, Numbers
  <1> HIDE DEF queued
  <1>6. ASSUME row' = fail_row(row, "worker_lost", FALSE, FALSE, TRUE), UNCHANGED <<held, nextToken>>
        PROVE  Lawful
    <2>1. Mild(row, row')
      BY <1>1, <1>6, EndingsMild
    <2> QED
      BY <1>1, <1>6, <2>1 DEF Mild, Lawful
  <1>7. ASSUME row' = cancel_before_destination_work(queued), UNCHANGED <<held, nextToken>>
        PROVE  Lawful
    <2>1. Mild(queued, row')
      BY <1>2, <1>7, EndingsMild DEF Mild
    <2> QED
      BY <1>1, <1>2, <1>7, <2>1 DEF Mild, Lawful
  <1>8. ASSUME row' = take_lease(queued, nextToken),
               held' = [held EXCEPT ![w] = nextToken], nextToken' = nextToken + 1
        PROVE  Lawful
    <2>1. /\ row' \in Row /\ row'.token = nextToken
          /\ queued.cancel => row'.cancel
      BY <1>1, <1>2, <1>8, ClaimRows DEF Mild
    <2> QED
      BY <1>1, <1>2, <1>8, <2>1 DEF Mild, Lawful
  <1>9. Lawful
    BY <1>3, <1>6, <1>7, <1>8
  <1>10. \A s \in Sessions : tx'[s] = <<>> \/ \E t : tx'[s] = <<t>> /\ Wants(t)'
    BY <1>1, <1>9, LawfulKeeps, OthersStay
  <1> QED
    BY <1>1, <1>5, <1>9, <1>10, LawfulKeeps DEF IInv, Lawful

\* The SELECT of a session whose wish is mild.
LEMMA BeginStep ==
  ASSUME IInv, NEW s \in Sessions, NEW new, NEW event \in BOOLEAN, Mild(row, new),
         Begin(s, new, event), asks' \in Nat,
         UNCHANGED <<row, held, nextToken, sequence, events>>
  PROVE  IInv' /\ Lawful
  <1> PICK mine : mine = [old |-> row, new |-> new, sequence |-> sequence, event |-> event]
    OBVIOUS
  <1>1. Lawful
    BY DEF IInv, Lawful
  <1>2. Wants(mine)'
    BY DEF Wants, Transaction, IInv, Mild
  <1>3. /\ DOMAIN tx' = Sessions /\ tx'[s] = <<mine>>
        /\ \A x \in Sessions \ {s} : tx'[x] = tx[x]
    BY DEF Begin, IInv
  <1>4. \A x \in Sessions \ {s} : tx'[x] = <<>> \/ \E t : tx'[x] = <<t>> /\ Wants(t)'
    BY <1>1, <1>3, LawfulKeeps, OthersStay
  <1>5. \A x \in Sessions : tx'[x] = <<>> \/ \E t : tx'[x] = <<t>> /\ Wants(t)'
    BY <1>2, <1>3, <1>4
  <1> QED
    BY <1>1, <1>3, <1>5, LawfulKeeps DEF IInv, Lawful, EventsNumbered

\* A step of a worker or of the owner that opens a transaction.
LEMMA OpenStep ==
  ASSUME IInv, (\E w \in Workers : BeginWork(w)) \/ BeginCancel \/ BeginReview
  PROVE  IInv' /\ Lawful
  <1>1. row \in Row /\ asks \in Nat
    BY DEF IInv
  <1>2. ASSUME NEW w \in Workers, BeginWork(w)
        PROVE  IInv' /\ Lawful
    <2>1. /\ held[w] = row.token /\ w \in Sessions
          /\ asks' \in Nat /\ UNCHANGED <<row, held, nextToken, sequence, events>>
      BY <1>1, <1>2 DEF BeginWork, refresh_and_require_lease, Sessions
    <2>2. ASSUME NEW new \in Wanted(row, held[w]), Begin(w, new, TRUE)
          PROVE  IInv' /\ Lawful
      <3>1. Mild(row, new)
        BY <1>1, <2>1, <2>2, WantedMild
      <3> QED
        BY <2>1, <2>2, <3>1, BeginStep
    <2>3. ASSUME Begin(w, [row EXCEPT !.loaded = TRUE], FALSE)
          PROVE  IInv' /\ Lawful
      <3>1. Mild(row, [row EXCEPT !.loaded = TRUE])
        BY <1>1 DEF Mild, Row
      <3> QED
        BY <2>1, <2>3, <3>1, BeginStep
    <2> QED
      BY <1>2, <2>2, <2>3 DEF BeginWork
  <1>3. CASE BeginCancel
    <2>1. Mild(row, request_cancel_row(row))
      BY <1>1, CancelMild
    <2>2. /\ Owner \in Sessions /\ asks' \in Nat
          /\ UNCHANGED <<row, held, nextToken, sequence, events>>
      BY <1>1, <1>3 DEF BeginCancel, Sessions
    <2>3. Begin(Owner, request_cancel_row(row), TRUE)
      BY <1>3 DEF BeginCancel
    <2> QED
      BY <2>1, <2>2, <2>3, BeginStep
  <1>4. CASE BeginReview
    <2>1. Mild(row, [row EXCEPT !.reviewed = TRUE])
      BY <1>1 DEF Mild, Row
    <2>2. /\ Owner \in Sessions /\ asks' \in Nat
          /\ UNCHANGED <<row, held, nextToken, sequence, events>>
      BY <1>1, <1>4 DEF BeginReview, Sessions
    <2>3. Begin(Owner, [row EXCEPT !.reviewed = TRUE], TRUE)
      BY <1>4 DEF BeginReview
    <2> QED
      BY <2>1, <2>2, <2>3, BeginStep
  <1> QED
    BY <1>2, <1>3, <1>4

\* The commit of a transaction, whatever was committed since it read the row.
LEMMA CommitStep ==
  ASSUME IInv, NEW s \in Sessions, Commit(s)
  PROVE  IInv' /\ Lawful
  <1>1. PICK t : tx[s] = <<t>> /\ Wants(t)
    BY DEF IInv, Commit
  <1>2. /\ row' = merge(row, t.old, t.new)
        /\ IF t.event THEN append_event(s) ELSE UNCHANGED <<sequence, events>>
        /\ tx' = [tx EXCEPT ![s] = <<>>]
        /\ \A w \in Workers : held'[w] \in {NoToken, held[w]}
        /\ held' = [w \in Workers |-> held'[w]]
        /\ UNCHANGED <<nextToken, asks>>
    BY <1>1 DEF Commit
  <1>3. Mild(row, row')
    BY <1>1, <1>2, MergeMild DEF IInv, Wants, Transaction
  <1>4. Lawful
    BY <1>2, <1>3 DEF Lawful, Mild, IInv
  <1>5. EventsNumbered' /\ sequence' \in Nat /\ events' \in Seq(Nat)
    BY <1>2, NumbersOne DEF IInv, EventsNumbered
  <1>6. \A x \in Sessions \ {s} : tx'[x] = tx[x]
    BY <1>2 DEF IInv
  <1>7. \A x \in Sessions \ {s} : tx'[x] = <<>> \/ \E u : tx'[x] = <<u>> /\ Wants(u)'
    BY <1>4, <1>6, LawfulKeeps, OthersStay
  <1>8. /\ DOMAIN tx' = Sessions
        /\ \A x \in Sessions : tx'[x] = <<>> \/ \E u : tx'[x] = <<u>> /\ Wants(u)'
    BY <1>2, <1>7 DEF IInv
  <1> QED
    BY <1>2, <1>4, <1>5, <1>8, LawfulKeeps DEF IInv, Lawful

\* The steps that write neither an event nor a wish: a refusal, a rollback, time.
LEMMA QuietStep ==
  ASSUME IInv,
         \/ \E w \in Workers : Refused(w)
         \/ \E s \in Sessions : Rollback(s)
         \/ LeaseExpires \/ AttemptDue \/ UNCHANGED vars
  PROVE  IInv' /\ Lawful
  <1>1. row \in Row /\ held \in [Workers -> Nat] /\ asks \in Nat
    BY DEF IInv
  <1>2. /\ row' \in Row /\ row'.token = row.token /\ row'.cancel = row.cancel
        /\ UNCHANGED <<nextToken, sequence, events, asks>>
    BY <1>1 DEF Refused, Rollback, LeaseExpires, AttemptDue, vars, Row
  <1>3. /\ held' \in [Workers -> Nat]
        /\ \A w \in Workers : held'[w] \in {NoToken, held[w]}
    BY <1>1 DEF Refused, Rollback, LeaseExpires, AttemptDue, vars
  <1>4. /\ DOMAIN tx' = Sessions
        /\ \A x \in Sessions : tx'[x] = tx[x] \/ tx'[x] = <<>>
    BY DEF Refused, Rollback, LeaseExpires, AttemptDue, vars, IInv
  <1>5. Lawful
    BY <1>2, <1>3 DEF Lawful
  <1>6. \A x \in {y \in Sessions : tx'[y] = tx[y]} :
           tx'[x] = <<>> \/ \E t : tx'[x] = <<t>> /\ Wants(t)'
    BY <1>5, LawfulKeeps, OthersStay
  <1>7. \A x \in Sessions : tx'[x] = <<>> \/ \E t : tx'[x] = <<t>> /\ Wants(t)'
    BY <1>4, <1>6
  <1> QED
    BY <1>2, <1>3, <1>4, <1>5, <1>7, LawfulKeeps DEF IInv, Lawful, EventsNumbered

\* Every step keeps the invariant and is lawful.
LEMMA NextInv == IInv /\ [Next]_vars => IInv' /\ Lawful
  BY ClaimStep, OpenStep, CommitStep, QuietStep DEF Next

\* The initial state: one event, no lease, no transaction.
LEMMA InitInv == Init => IInv
  <1> SUFFICES ASSUME Init PROVE IInv
    OBVIOUS
  <1>1. row \in Row /\ row.token = NoToken
    BY DEF Init, NewRow, Row, ACTIVE_STATUSES, Stages, Impacts
  <1>2. events \in Seq(Nat) /\ EventsNumbered
    BY DEF Init, EventsNumbered
  <1> QED
    BY <1>1, <1>2 DEF Init, IInv

------------------------------------------------------------------------------
(* The theorems.                                                            *)

\* The inductive invariant holds, however the transactions overlap.
THEOREM RaceInvariant == Spec => []IInv
  <1> QED
    BY InitInv, NextInv, PTL DEF Spec

\* The columns and the open transactions have their types.
THEOREM TypeCorrect == Spec => []TypeOK
  <1>1. IInv => TypeOK
    BY DEF IInv, TypeOK, Wants
  <1> QED
    BY <1>1, RaceInvariant, PTL

\* The events of a run are numbered 1, 2, 3... in commit order for any number of
\* workers whose transactions overlap with the owner's (append_event).
THEOREM EventsInOrder == Spec => []EventsNumbered
  <1>1. IInv => EventsNumbered
    BY DEF IInv
  <1> QED
    BY <1>1, RaceInvariant, PTL

\* No stale transaction brings back a lease token or loses a cancellation: the
\* UPDATE at commit writes the columns that its session changed, no others.
THEOREM StaleCommits == Spec => StaleCommitsHarmless
  <1>1. IInv /\ [Next]_vars => [TokenNeverReturns /\ CancelKept]_vars
    BY NextInv DEF Lawful, TokenNeverReturns, CancelKept
  <1> QED
    BY <1>1, RaceInvariant, PTL DEF Spec, StaleCommitsHarmless

\* A superseded worker stays superseded: as long as it holds the token of its claim,
\* the row never carries that token again (_refresh_and_require_lease).
THEOREM SupersededForGood == Spec => [][SupersededStays]_vars
  <1>1. IInv /\ [Next]_vars => [SupersededStays]_vars
    BY NextInv DEF IInv, Lawful, SupersededStays
  <1> QED
    BY <1>1, RaceInvariant, PTL DEF Spec
==============================================================================
