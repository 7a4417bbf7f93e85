------------------------- MODULE QueueWakeupsProofs -------------------------
(***************************************************************************)
(* NoMissedWakeup and QuietWhenIdle of QueueWakeups hold for any set of    *)
(* processes and rows, any delays and any number of faults.                *)
(*                                                                         *)
(* Neither is inductive: what a process knows when it sleeps it learned in *)
(* its last inspection, and it may have passed the top of its loop since   *)
(* without inspecting.  Watched and Wanted say the same of every point of  *)
(* the loop from which it reaches its sleep without an inspection, Linked  *)
(* that a process with a live connection knows that it listens, Unplugged  *)
(* that a dead process has none, and                                       *)
(* LeaseBound that a renewal moves a deadline later, never earlier.        *)
(***************************************************************************)
EXTENDS QueueWakeups, TLAPS

\* From here process p sleeps without looking at the queues again.
Settled(p) == pc[p] = "wait" \/ (pc[p] = "connect" /\ ~look[p])

Unaware(p) == Settled(p) /\ conn[p] = "live" /\ ~note[p]

Linked == \A p \in Procs : conn[p] = "live" => listening[p]

Unplugged == \A p \in Procs : pc[p] = "down" => conn[p] = "none"

LeaseBound == \A i \in Items : state[i] = "owned" => due[i] <= Lease

Watched == \A p \in Procs : Unaware(p) => \A i \in Items : pending(i) => covers(p, i)

Wanted == \A p \in Procs : Unaware(p) /\ failures = 0 /\ timer[p] # NoTimer
                              => \E i \in Items : pending(i)

IInv == TypeOK /\ Linked /\ Unplugged /\ LeaseBound /\ Watched /\ Wanted

\* The initial states satisfy the invariant: nobody has settled yet.
LEMMA InitInv == Init => IInv
  BY ItemAssumption DEF Init, IInv, TypeOK, Linked, Unplugged, LeaseBound, Watched, Wanted,
     Unaware, Settled, NoTimer, Items, States

\* A committed change reaches every process with a live connection.
LEMMA NotifyReaches ==
  ASSUME TypeOK, Notify, UNCHANGED conn, NEW p \in Procs, conn'[p] = "live"
  PROVE  note'[p]
  BY DEF TypeOK, Notify

\* The sockets stay well typed under a notification.
LEMMA NotifyType ==
  ASSUME TypeOK, Notify
  PROVE  note' \in [Procs -> BOOLEAN]
  BY DEF TypeOK, Notify

\* What a row change leaves of the types.
LEMMA SetRowType ==
  ASSUME TypeOK, NEW i, NEW s \in States, NEW d \in Nat,
         NEW h \in Procs \cup {NoProc}, SetRow(i, s, d, h)
  PROVE  /\ state' \in [Items -> States]
         /\ due' \in [Items -> Nat]
         /\ holder' \in [Items -> Procs \cup {NoProc}]
         /\ active' \in BOOLEAN
  BY DEF TypeOK, SetRow

\* Every step keeps the types.
LEMMA TypeStep == TypeOK /\ [Next]_vars => TypeOK'
<1> SUFFICES ASSUME TypeOK, [Next]_vars PROVE TypeOK'
    OBVIOUS
<1> USE DelayAssumption, BudgetAssumption
<1> USE DEF States
<1>1. ASSUME NEW i \in Items, Enqueue(i) PROVE TypeOK'
    <2>1. (IF i \in Attempts THEN Retry ELSE 0) \in Nat
        OBVIOUS
    <2> QED BY <1>1, <2>1, SetRowType DEF Enqueue, TypeOK, Notify, loop, budget
<1>2. ASSUME NEW i \in Items, Cancel(i) PROVE TypeOK'
    <2>1. changes' \in Nat
        BY <1>2 DEF Cancel, UserChange, TypeOK
    <2>2. \E s \in States : SetRow(i, s, 0, NoProc)
        BY <1>2 DEF Cancel
    <2> QED BY <1>2, <2>1, <2>2, SetRowType, NotifyType DEF Cancel, UserChange, TypeOK, loop
<1>3. ASSUME NEW i \in Items, Resume(i) PROVE TypeOK'
    <2>1. changes' \in Nat
        BY <1>3 DEF Resume, UserChange, TypeOK
    <2>2. \E s \in States : SetRow(i, s, 0, NoProc)
        BY <1>3 DEF Resume
    <2> QED BY <1>3, <2>1, <2>2, SetRowType, NotifyType DEF Resume, UserChange, TypeOK, loop
<1>4. CASE SetOwnerStatus
    BY <1>4 DEF SetOwnerStatus, UserChange, TypeOK, Notify, loop, budget
<1>5. CASE Tick
    BY <1>5 DEF Tick, TypeOK, NoTimer, link, budget
<1>6. ASSUME NEW p \in Procs, connect(p) PROVE TypeOK'
    BY <1>6 DEF connect, TypeOK, Goto, rows, budget
<1>7. ASSUME NEW p \in Procs, NEW i \in Items, take(p, i), UNCHANGED <<look, listening, timer, conn, budget>>,
             Notify \/ UNCHANGED note
      PROVE  TypeOK'
    <2>1. note' \in [Procs -> BOOLEAN]
        BY <1>7, NotifyType DEF TypeOK
    <2>2. SetRow(i, "owned", Lease, p) /\ Lease \in Nat
        BY <1>7 DEF take
    <2>3. /\ state' \in [Items -> States]
          /\ due' \in [Items -> Nat]
          /\ holder' \in [Items -> Procs \cup {NoProc}]
          /\ active' \in BOOLEAN
        BY <2>2, SetRowType
    <2> QED BY <1>7, <2>1, <2>3 DEF take, TypeOK, Goto, budget
<1>8. ASSUME NEW p \in Procs, claim_run(p) PROVE TypeOK'
    <2>1. ASSUME NEW i \in Runs, SetRow(i, "closed", 0, NoProc), Goto(p, "attempts"), Notify,
                 UNCHANGED item, UNCHANGED <<look, listening, timer, conn, budget>>
          PROVE  TypeOK'
        BY <2>1, SetRowType DEF TypeOK, Notify, Goto, budget
    <2>2. ASSUME Goto(p, "attempts"), UNCHANGED <<rows, item, note>>,
                 UNCHANGED <<look, listening, timer, conn, budget>>
          PROVE  TypeOK'
        BY <2>2 DEF TypeOK, Goto, rows, budget
    <2> QED BY <1>7, <1>8, <2>1, <2>2 DEF claim_run, Items
<1>9. ASSUME NEW p \in Procs, claim_due_attempt(p) PROVE TypeOK'
    <2>1. ASSUME Goto(p, "deadline"), UNCHANGED <<rows, item, note>>,
                 UNCHANGED <<look, listening, timer, conn, budget>>
          PROVE  TypeOK'
        BY <2>1 DEF TypeOK, Goto, rows, budget
    <2> QED BY <1>7, <1>9, <2>1 DEF claim_due_attempt, Items
<1>10. ASSUME NEW p \in Procs, finish(p) PROVE TypeOK'
    BY <1>10, SetRowType DEF finish, leave, TypeOK, Notify, Goto, budget
<1>11. ASSUME NEW p \in Procs, defer(p) PROVE TypeOK'
    <2>1. retries' \in Nat
        BY <1>11 DEF defer, TypeOK
    <2>2. SetRow(item[p], "queued", Retry, NoProc) /\ Retry \in Nat
        BY <1>11 DEF defer
    <2>3. /\ state' \in [Items -> States]
          /\ due' \in [Items -> Nat]
          /\ holder' \in [Items -> Procs \cup {NoProc}]
          /\ active' \in BOOLEAN
        BY <2>2, SetRowType
    <2>4. note' \in [Procs -> BOOLEAN]
        BY <1>11, NotifyType DEF defer
    <2> QED BY <1>11, <2>1, <2>3, <2>4 DEF defer, leave, TypeOK, Goto
<1>12. ASSUME NEW p \in Procs, abandon(p) PROVE TypeOK'
    BY <1>12 DEF abandon, leave, TypeOK, Goto, rows, link, budget
<1>13. ASSUME NEW p \in Procs, next_work(p) PROVE timer' \in [Procs -> Nat \cup {NoTimer}]
    <2>1. CASE timer' = [timer EXCEPT ![p] = NoTimer]
        BY <2>1 DEF TypeOK
    <2>2. ASSUME NEW i \in Items, timer' = [timer EXCEPT ![p] = IF due[i] > 1 THEN due[i] ELSE 1]
          PROVE  timer' \in [Procs -> Nat \cup {NoTimer}]
        BY <2>2 DEF TypeOK
    <2> QED BY <1>13, <2>1, <2>2 DEF next_work, deadline_rows
<1>14. ASSUME NEW p \in Procs, deadline(p) PROVE TypeOK'
    <2>1. timer' \in [Procs -> Nat \cup {NoTimer}]
        BY <1>13, <1>14 DEF deadline, TypeOK
    <2>2. failures' \in Nat
        BY <1>14 DEF deadline, TypeOK
    <2>3. /\ pc' = [pc EXCEPT ![p] = "wait"]
          /\ UNCHANGED <<rows, look, listening, item, link, retries, changes, crashes>>
        BY <1>14 DEF deadline, Goto
    <2> QED BY <2>1, <2>2, <2>3 DEF TypeOK, rows, link
<1>15. ASSUME NEW p \in Procs, NEW n \in BOOLEAN, returns(p, n) PROVE look' \in [Procs -> BOOLEAN]
    BY <1>15 DEF returns, inspect_queues, TypeOK
<1>16. ASSUME NEW p \in Procs, wait_news(p) PROVE TypeOK'
    BY <1>15, <1>16 DEF wait_news, returns, TypeOK, Goto, rows, budget
<1>17. ASSUME NEW p \in Procs, wait_ends(p) PROVE TypeOK'
    BY <1>15, <1>17 DEF wait_ends, returns, TypeOK, Goto, rows, link, budget
<1>18. ASSUME NEW p \in Procs, renew_lease(p) PROVE TypeOK'
    BY <1>18 DEF renew_lease, TypeOK, loop, link, budget
<1>19. ASSUME NEW p \in Procs, transition(p) PROVE TypeOK'
    BY <1>19 DEF transition, TypeOK, Notify, rows, loop, budget
<1>20. ASSUME NEW p \in Procs, inspection_fails(p) PROVE TypeOK'
    BY <1>20 DEF inspection_fails, leave, TypeOK, Goto, rows, link
<1>21. ASSUME NEW p \in Procs, Crash(p) PROVE TypeOK'
    BY <1>21 DEF Crash, TypeOK, Goto, rows
<1>22. ASSUME NEW p \in Procs, Restart(p) PROVE TypeOK'
    BY <1>22 DEF Restart, TypeOK, Goto, rows, link, budget
<1>23. ASSUME NEW p \in Procs, Drop(p) PROVE TypeOK'
    BY <1>23 DEF Drop, TypeOK, rows, loop, budget
<1>24. CASE UNCHANGED vars
    BY <1>24 DEF vars, rows, loop, link, budget, TypeOK
<1> QED BY <1>1, <1>2, <1>3, <1>4, <1>5, <1>6, <1>8, <1>9, <1>10, <1>11, <1>12, <1>14, <1>16,
       <1>17, <1>18, <1>19, <1>20, <1>21, <1>22, <1>23, <1>24
       DEF Next, Environment, Process, Inspect

------------------------------------------------------------------------------
(* The parts of the invariant beside the types.                             *)

\* A process with a live connection knows that it listens.
LEMMA LinkedStep == TypeOK /\ Linked /\ [Next]_vars => Linked'
<1> SUFFICES ASSUME TypeOK, Linked, [Next]_vars PROVE Linked'
    OBVIOUS
<1>1. CASE UNCHANGED <<conn, listening>>
    BY <1>1 DEF Linked
<1>2. ASSUME NEW p \in Procs, connect(p) \/ wait_news(p) \/ Crash(p) \/ Drop(p) PROVE Linked'
    BY <1>2 DEF connect, wait_news, returns, Crash, Drop, Linked, TypeOK, loop
<1>3. ASSUME NEW p \in Procs,
             \/ claim_run(p) \/ claim_due_attempt(p) \/ finish(p) \/ defer(p) \/ abandon(p)
             \/ deadline(p) \/ wait_ends(p) \/ renew_lease(p) \/ transition(p)
             \/ inspection_fails(p) \/ Restart(p)
      PROVE  UNCHANGED <<conn, listening>>
    BY <1>3 DEF claim_run, claim_due_attempt, finish, defer, abandon, deadline, wait_ends,
       returns, renew_lease, transition, inspection_fails, Restart, loop, link
<1>4. Environment \/ Tick => UNCHANGED <<conn, listening>>
    BY DEF Environment, Enqueue, Cancel, Resume, SetOwnerStatus, UserChange, Tick, loop, link
<1>5. UNCHANGED vars => UNCHANGED <<conn, listening>>
    BY DEF vars, loop, link
<1> QED BY <1>1, <1>2, <1>3, <1>4, <1>5 DEF Next, Process, Inspect

\* A dead process has no connection.
LEMMA UnpluggedStep == TypeOK /\ Unplugged /\ [Next]_vars => Unplugged'
<1> SUFFICES ASSUME TypeOK, Unplugged, [Next]_vars PROVE Unplugged'
    OBVIOUS
<1>1. CASE UNCHANGED <<pc, conn>>
    BY <1>1 DEF Unplugged
<1>2. ASSUME NEW p \in Procs, connect(p) \/ wait_news(p) \/ Crash(p) \/ Drop(p) PROVE Unplugged'
    BY <1>2 DEF connect, wait_news, returns, Crash, Drop, Unplugged, TypeOK, loop, Goto
<1>3. ASSUME NEW p \in Procs, NEW w, w # "down", Goto(p, w), UNCHANGED conn PROVE Unplugged'
    BY <1>3 DEF Goto, Unplugged, TypeOK
<1>4. ASSUME NEW p \in Procs,
             \/ claim_run(p) \/ claim_due_attempt(p) \/ finish(p) \/ defer(p) \/ abandon(p)
             \/ deadline(p) \/ wait_ends(p) \/ inspection_fails(p) \/ Restart(p)
      PROVE  UNCHANGED conn /\ \E w : w # "down" /\ Goto(p, w)
    BY <1>4 DEF claim_run, claim_due_attempt, take, finish, defer, abandon, leave, deadline,
       wait_ends, returns, inspection_fails, Restart, link
<1>5. ASSUME NEW p \in Procs, renew_lease(p) \/ transition(p) PROVE UNCHANGED <<pc, conn>>
    BY <1>5 DEF renew_lease, transition, loop, link
<1>6. Environment \/ Tick => UNCHANGED <<pc, conn>>
    BY DEF Environment, Enqueue, Cancel, Resume, SetOwnerStatus, UserChange, Tick, loop, link
<1>7. UNCHANGED vars => UNCHANGED <<pc, conn>>
    BY DEF vars, loop, link
<1> QED BY <1>1, <1>2, <1>3, <1>4, <1>5, <1>6, <1>7 DEF Next, Process, Inspect

\* A lease never has more than its full length left.
LEMMA LeaseBoundStep == TypeOK /\ LeaseBound /\ [Next]_vars => LeaseBound'
<1> SUFFICES ASSUME TypeOK, LeaseBound, [Next]_vars PROVE LeaseBound'
    OBVIOUS
<1> USE DelayAssumption
<1>1. CASE UNCHANGED <<state, due>>
    BY <1>1 DEF LeaseBound
<1>2. ASSUME NEW i, NEW s, NEW d, NEW h, SetRow(i, s, d, h), s = "owned" => d = Lease
      PROVE  LeaseBound'
    BY <1>2 DEF SetRow, LeaseBound, TypeOK
<1>3. CASE Tick
    BY <1>3 DEF Tick, LeaseBound, TypeOK
<1>4. ASSUME NEW p \in Procs, renew_lease(p) PROVE LeaseBound'
    BY <1>4 DEF renew_lease, LeaseBound, TypeOK
<1>5. CASE Environment
    BY <1>1, <1>2, <1>5 DEF Environment, Enqueue, Cancel, Resume, SetOwnerStatus
<1>6. ASSUME NEW p \in Procs, claim_run(p) \/ claim_due_attempt(p) \/ finish(p) \/ defer(p)
      PROVE  LeaseBound'
    BY <1>1, <1>2, <1>6 DEF claim_run, claim_due_attempt, take, finish, defer, rows
<1>7. ASSUME NEW p \in Procs,
             \/ connect(p) \/ abandon(p) \/ deadline(p) \/ wait_news(p) \/ wait_ends(p)
             \/ transition(p) \/ inspection_fails(p) \/ Crash(p) \/ Restart(p) \/ Drop(p)
      PROVE  UNCHANGED <<state, due>>
    BY <1>7 DEF connect, abandon, deadline, wait_news, wait_ends, returns, transition,
       inspection_fails, Crash, Restart, Drop, rows
<1>8. UNCHANGED vars => UNCHANGED <<state, due>>
    BY DEF vars, rows
<1> QED BY <1>1, <1>3, <1>4, <1>5, <1>6, <1>7, <1>8 DEF Next, Process, Inspect

\* Both parts about sleeping processes hold after a step that wakes everybody.
LEMMA NotifyKeeps ==
  ASSUME TypeOK, Notify, UNCHANGED conn
  PROVE  Watched' /\ Wanted'
  BY NotifyReaches DEF Watched, Wanted, Unaware

\* ... and after a step that leaves the rows and the timers alone and settles
\* nobody who was not settled.
LEMMA CalmKeeps ==
  ASSUME TypeOK, Watched, Wanted, UNCHANGED <<rows, timer, failures>>,
         \A q \in Procs : Unaware(q)' => Unaware(q)
  PROVE  Watched' /\ Wanted'
  BY DEF Watched, Wanted, rows, pending, covers, Slack, NoTimer

\* No step leaves a process asleep over a row it has no timer for, or with a
\* timer nobody needs.
LEMMA WatchedStep ==
  ASSUME IInv, [Next]_vars
  PROVE  Watched' /\ Wanted'
<1> USE DelayAssumption DEF IInv
<1>1. CASE Environment
    BY <1>1, NotifyKeeps DEF Environment, Enqueue, Cancel, Resume, SetOwnerStatus, UserChange
<1>2. CASE Tick
    <2>1. \A q \in Procs : Unaware(q)' => Unaware(q)
        BY <1>2 DEF Tick, Unaware, Settled, link
    <2>2. \A i \in Items : pending(i)' <=> pending(i)
        BY <1>2 DEF Tick, pending
    <2>3. \A q \in Procs, i \in Items : covers(q, i) => covers(q, i)'
        BY <1>2 DEF Tick, covers, Slack, TypeOK, NoTimer, budget
    <2>4. \A q \in Procs : timer'[q] # NoTimer => timer[q] # NoTimer
        BY <1>2 DEF Tick, TypeOK, NoTimer
    <2>5. failures' = failures
        BY <1>2 DEF Tick, budget
    <2> QED BY <2>1, <2>2, <2>3, <2>4, <2>5 DEF Watched, Wanted
<1>3. ASSUME NEW p \in Procs, connect(p) PROVE Watched' /\ Wanted'
    <2>1. \A q \in Procs : Unaware(q)' => Unaware(q)
        BY <1>3 DEF connect, Unaware, Settled, Goto, TypeOK
    <2> QED BY <1>3, <2>1, CalmKeeps DEF connect, budget
<1>4. ASSUME NEW p \in Procs, NEW i \in Items, take(p, i), is_due(i), state[i] = "owned",
             UNCHANGED <<note, look, listening, timer, conn, budget>>
      PROVE  Watched' /\ Wanted'
    <2>1. \A q \in Procs : Unaware(q)' => Unaware(q)
        BY <1>4 DEF take, Unaware, Settled, Goto, TypeOK
    <2>2. \A j \in Items : pending(j)' <=> pending(j)
        BY <1>4 DEF take, SetRow, pending, TypeOK
    <2>3. \A j \in Items : due[j] <= due'[j]
        BY <1>4 DEF take, SetRow, is_due, TypeOK
    <2>4. \A q \in Procs, j \in Items : covers(q, j) => covers(q, j)'
        <3>1. due' \in [Items -> Nat]
            BY <1>4 DEF take, SetRow, TypeOK
        <3> QED BY <1>4, <2>3, <3>1 DEF covers, Slack, TypeOK, NoTimer, budget
    <2>5. UNCHANGED <<timer, failures>>
        BY <1>4 DEF budget
    <2> QED BY <2>1, <2>2, <2>4, <2>5 DEF Watched, Wanted, NoTimer
<1>5. ASSUME NEW p \in Procs, NEW w, w \notin {"wait", "connect"}, Goto(p, w),
             UNCHANGED <<rows, look, timer, link, failures>>
      PROVE  Watched' /\ Wanted'
    <2>1. \A q \in Procs : Unaware(q)' => Unaware(q)
        BY <1>5 DEF Goto, Unaware, Settled, TypeOK, link
    <2> QED BY <1>5, <2>1, CalmKeeps
<1>6. ASSUME NEW p \in Procs, claim_run(p) \/ claim_due_attempt(p) PROVE Watched' /\ Wanted'
    <2>1. CASE Notify /\ UNCHANGED conn
        BY <2>1, NotifyKeeps
    <2>2. UNCHANGED <<look, listening, timer, conn, budget>>
        BY <1>6 DEF claim_run, claim_due_attempt
    <2>3. ASSUME NEW w, w \notin {"wait", "connect"}, Goto(p, w), UNCHANGED <<rows, item, note>>
          PROVE  Watched' /\ Wanted'
        BY <1>5, <2>2, <2>3 DEF link, budget
    <2>4. ASSUME NEW i \in Runs, is_due(i), take(p, i), state[i] = "owned", UNCHANGED note
          PROVE  Watched' /\ Wanted'
        BY <1>4, <2>2, <2>4 DEF Items
    <2> QED BY <1>6, <2>1, <2>2, <2>3, <2>4 DEF claim_run, claim_due_attempt
<1>7. ASSUME NEW p \in Procs, finish(p) \/ defer(p) \/ transition(p) PROVE Watched' /\ Wanted'
    BY <1>7, NotifyKeeps DEF finish, defer, transition
<1>8. ASSUME NEW p \in Procs, abandon(p) PROVE Watched' /\ Wanted'
    BY <1>5, <1>8 DEF abandon, leave, budget
<1>9. ASSUME NEW p \in Procs, renew_lease(p) PROVE Watched' /\ Wanted'
    <2>1. \A q \in Procs : Unaware(q)' => Unaware(q)
        BY <1>9 DEF renew_lease, Unaware, Settled, loop, link
    <2>2. \A j \in Items : pending(j)' <=> pending(j)
        BY <1>9 DEF renew_lease, pending
    <2>3. \A j \in Items : due[j] <= due'[j] /\ due'[j] \in Nat
        BY <1>9 DEF renew_lease, owns, LeaseBound, TypeOK
    <2>4. UNCHANGED <<timer, failures>>
        BY <1>9 DEF renew_lease, loop, budget
    <2>5. \A q \in Procs, j \in Items : covers(q, j) => covers(q, j)'
        BY <2>3, <2>4 DEF covers, Slack, TypeOK, NoTimer
    <2> QED BY <2>1, <2>2, <2>4, <2>5 DEF Watched, Wanted, NoTimer
<1>10. ASSUME NEW p \in Procs, inspection_fails(p) PROVE Watched' /\ Wanted'
    <2>1. \A q \in Procs : Unaware(q)' => Unaware(q)
        BY <1>10 DEF inspection_fails, leave, Goto, Unaware, Settled, TypeOK, link
    <2>2. \A j \in Items : pending(j)' <=> pending(j)
        BY <1>10 DEF inspection_fails, pending, rows
    <2>3. failures' # 0 /\ UNCHANGED <<timer, due>>
        BY <1>10 DEF inspection_fails, TypeOK, rows
    <2>4. \A q \in Procs, j \in Items : covers(q, j) => covers(q, j)'
        BY <2>3 DEF covers, Slack, TypeOK, NoTimer
    <2> QED BY <2>1, <2>2, <2>3, <2>4 DEF Watched, Wanted
<1>11. ASSUME NEW p \in Procs, deadline(p) PROVE Watched' /\ Wanted'
    <2>1. \A q \in Procs : q # p /\ Unaware(q)' => Unaware(q) /\ timer'[q] = timer[q]
        BY <1>11 DEF deadline, next_work, Goto, Unaware, Settled, TypeOK, link
    <2>2. UNCHANGED rows
        BY <1>11 DEF deadline
    <2>3. failures' \in Nat /\ (failures' = failures \/ failures' # 0)
        BY <1>11 DEF deadline, TypeOK
    <2>4. \A q \in Procs : q # p /\ Unaware(q)' => \A i \in Items : pending(i)' => covers(q, i)'
        BY <2>1, <2>2, <2>3 DEF Watched, covers, pending, Slack, TypeOK, NoTimer, rows
    <2>5. \A q \in Procs : q # p /\ Unaware(q)' /\ failures' = 0 /\ timer'[q] # NoTimer
                              => \E i \in Items : pending(i)'
        BY <2>1, <2>2, <2>3 DEF Wanted, pending, NoTimer, rows
    <2>6. ASSUME Unaware(p)'
          PROVE  /\ \A i \in Items : pending(i)' => covers(p, i)'
                 /\ failures' = 0 /\ timer'[p] # NoTimer => \E i \in Items : pending(i)'
        <3>1. listening[p]
            BY <1>11, <2>6 DEF deadline, Unaware, Linked, link
        <3>2. CASE next_work(p) /\ UNCHANGED failures
            <4>1. CASE deadline_rows = {} /\ timer' = [timer EXCEPT ![p] = NoTimer]
                BY <2>2, <4>1 DEF deadline_rows, pending, rows, TypeOK
            <4>2. ASSUME NEW i \in deadline_rows, \A j \in deadline_rows : due[i] <= due[j],
                         timer' = [timer EXCEPT ![p] = IF due[i] > 1 THEN due[i] ELSE 1]
                  PROVE  /\ \A j \in Items : pending(j)' => covers(p, j)'
                         /\ \E j \in Items : pending(j)'
                <5>1. i \in Items /\ pending(i)'
                    BY <2>2, <4>2 DEF deadline_rows, pending, rows
                <5>2. timer'[p] = IF due[i] > 1 THEN due[i] ELSE 1
                    BY <4>2 DEF TypeOK
                <5>3. ASSUME NEW j \in Items, pending(j)' PROVE covers(p, j)'
                    <6>1. due[i] <= due[j] /\ due'[j] = due[j]
                        BY <2>2, <4>2, <5>3 DEF deadline_rows, pending, rows
                    <6> QED BY <2>3, <5>1, <5>2, <6>1 DEF covers, Slack, TypeOK, NoTimer
                <5> QED BY <5>1, <5>3
            <4> QED BY <3>2, <4>1, <4>2 DEF next_work
        <3>3. CASE timer' = [timer EXCEPT ![p] = Poll] /\ failures' = failures + 1
            BY <3>3 DEF covers, Slack, TypeOK, NoTimer
        <3> QED BY <1>11, <3>1, <3>2, <3>3 DEF deadline
    <2> QED BY <2>4, <2>5, <2>6 DEF Watched, Wanted
<1>12. ASSUME NEW p \in Procs, wait_news(p) \/ wait_ends(p) PROVE Watched' /\ Wanted'
    <2>1. \A q \in Procs : Unaware(q)' => Unaware(q)
        BY <1>12 DEF wait_news, wait_ends, returns, inspect_queues, Goto, Unaware, Settled,
           TypeOK, link
    <2> QED BY <1>12, <2>1, CalmKeeps DEF wait_news, wait_ends, returns, budget
<1>13. ASSUME NEW p \in Procs, Crash(p) PROVE Watched' /\ Wanted'
    <2>1. ~Unaware(p)' /\ \A q \in Procs : Unaware(q)' => Unaware(q) /\ timer'[q] = timer[q]
        BY <1>13 DEF Crash, Goto, Unaware, Settled, TypeOK
    <2> QED BY <1>13, <2>1 DEF Crash, Watched, Wanted, covers, pending, Slack, rows, NoTimer
<1>14. ASSUME NEW p \in Procs, Restart(p) \/ Drop(p) PROVE Watched' /\ Wanted'
    <2>1. \A q \in Procs : Unaware(q)' => Unaware(q)
        BY <1>14 DEF Restart, Drop, Goto, Unaware, Settled, Unplugged, TypeOK, link, loop
    <2> QED BY <1>14, <2>1, CalmKeeps DEF Restart, Drop, loop, budget
<1>15. CASE UNCHANGED vars
    <2>1. \A q \in Procs : Unaware(q)' => Unaware(q)
        BY <1>15 DEF vars, loop, link, Unaware, Settled
    <2> QED BY <1>15, <2>1, CalmKeeps DEF vars, loop, budget
<1> QED BY <1>1, <1>2, <1>3, <1>6, <1>7, <1>8, <1>9, <1>10, <1>11, <1>12, <1>13, <1>14, <1>15
       DEF Next, Process, Inspect

------------------------------------------------------------------------------

\* The inductive invariant of the supervisor loops: what a settled process does
\* not know is covered by its timer.
THEOREM SupervisorInvariant == Spec => []IInv
<1>1. IInv /\ [Next]_vars => IInv'
    BY TypeStep, LinkedStep, UnpluggedStep, LeaseBoundStep, WatchedStep DEF IInv
<1> QED BY <1>1, InitInv, PTL DEF Spec

\* The queue rows and the loops keep their shapes: no countdown goes below zero, a
\* process works on a row or on none.
THEOREM TypeCorrect == Spec => []TypeOK
<1>1. IInv => TypeOK
    BY DEF IInv
<1> QED BY <1>1, SupervisorInvariant, PTL

\* No missed wakeup: a process asleep in listener.wait has a timer for every row
\* that is or becomes claimable, for any number of processes, rows and faults.
THEOREM NothingMissed == Spec => []NoMissedWakeup
<1>1. IInv => NoMissedWakeup
    BY DEF IInv, Watched, Unaware, Settled, NoMissedWakeup, Asleep
<1> QED BY <1>1, SupervisorInvariant, PTL

\* An idle process has no timer: next_background_work_delay answered None, or a
\* notification that will make it ask again is on its way.
THEOREM IdleIsQuiet == Spec => []QuietWhenIdle
<1>1. IInv => QuietWhenIdle
    BY DEF IInv, Wanted, Unaware, Settled, QuietWhenIdle, Asleep
<1> QED BY <1>1, SupervisorInvariant, PTL
=============================================================================
