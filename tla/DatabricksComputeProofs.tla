----------------------- MODULE DatabricksComputeProofs -----------------------
(***************************************************************************)
(* Proofs about DatabricksCompute for any owners, starters and pollers and *)
(* any number of attempts, generations and crashes.                        *)
(***************************************************************************)
EXTENDS DatabricksCompute, FiniteSetTheorems, TLAPS

Open == {"starting", "cancelled"}

Connection == [live : BOOLEAN, enabled : BOOLEAN, gen : 1 .. MaxGen, runtime : Runtime,
               by : 0 .. MaxAttempts]

Points == {"idle", "loaded", "check", "mark", "call", "answer", "fail", "failwrite", "require",
           "show_starting", "show_running", "defer", "raise"}

Starter == [pc : Points, att : 0 .. MaxAttempts, gen : 0 .. MaxGen, ans : Answers]

Startup == [state : {"queued", "working", "done", "blocked"}, deadline : 0 .. MaxAttempts,
            att : 0 .. MaxAttempts]

Poller == [pc : {"idle", "load", "persist", "runtime"}, att : 0 .. MaxAttempts, ans : Answers]

Types ==
    /\ conn \in [Owners -> Connection]
    /\ attempts \in Seq(Attempt) /\ Len(attempts) <= MaxAttempts
    /\ compute \in {"STOPPED", "STARTING", "RUNNING", "FAILED"}
    /\ start \in [Starters -> Starter]
    /\ run \in [Runs -> Startup]
    /\ poll \in [Pollers -> Poller]
    /\ crashes \in 0 .. MaxCrashes

\* An attempt holds the fence exactly while it is starting or cancelled.
RowOpen(row) == row.active <=> row.status \in Open

\* No two attempts hold the fence.
Alone(rows) ==
    \A a, b \in DOMAIN rows : rows[a].active /\ rows[b].active => a = b

\* The points at which a starter works on an attempt of its own.
Asking == {"check", "mark", "call", "answer", "fail", "failwrite", "require", "show_starting",
           "show_running"}

StartTrue(s) ==
    /\ start[s].pc \in Asking => start[s].att \in DOMAIN attempts
    /\ start[s].pc = "loaded" => start[s].gen # 0

PollTrue(p) == poll[p].pc # "idle" => poll[p].att \in DOMAIN attempts

\* The runtime status of a connection was written for an attempt that exists, and
\* without the Start control for one of the same owner and generation.
ShownTrue(o) ==
    conn[o].by # 0 =>
        /\ conn[o].by \in DOMAIN attempts
        /\ Manual = {} => /\ attempts[conn[o].by].owner = o
                          /\ attempts[conn[o].by].gen = conn[o].gen

\* The inductive invariant.
IInv ==
    /\ Types
    /\ Alone(attempts)
    /\ \A a \in DOMAIN attempts : RowOpen(attempts[a])
    /\ \A s \in Starters : StartTrue(s)
    /\ \A p \in Pollers : PollTrue(p)
    /\ \A o \in Owners : ShownTrue(o)

\* What the constants are: every starter has an owner, the bounds are numbers.
Sane ==
    /\ OwnerOf \in [Starters -> Owners]
    /\ MaxAttempts \in Nat /\ MaxGen \in Nat \ {0} /\ MaxCrashes \in Nat

------------------------------------------------------------------------------
(* The rows of the attempts.                                                *)

\* new is what a row may become: of the same owner and generation, and not open again.
RowOK(old, new) ==
    /\ new \in Attempt
    /\ new.owner = old.owner /\ new.gen = old.gen
    /\ new.active => old.active
    /\ RowOpen(new)

\* A resolved attempt lets the fence go.
LEMMA FinishOK ==
  ASSUME NEW row \in Attempt, NEW st \in {"ready", "failed", "stale", "timed_out"}
  PROVE  RowOK(row, finish(row, st))
  BY DEF RowOK, RowOpen, finish, Attempt, Statuses, Open

\* The other writes of a row, none of which touches the fence.
LEMMA RowWritesOK ==
  ASSUME NEW row \in Attempt, RowOpen(row)
  PROVE  /\ RowOK(row, row)
         /\ \A b \in BOOLEAN : RowOK(row, [row EXCEPT !.due = b])
         /\ RowOK(row, [row EXCEPT !.past = TRUE])
         /\ RowOK(row, [row EXCEPT !.held = FALSE])
         /\ \A p \in Pollers : RowOK(row, [row EXCEPT !.token = p, !.held = TRUE])
         /\ RowOK(row, [row EXCEPT !.due = FALSE, !.token = NoPoller, !.held = FALSE])
         /\ row.status = "starting" =>
              RowOK(row, [row EXCEPT !.status = "cancelled", !.due = TRUE, !.token = NoPoller,
                                     !.held = FALSE])
         /\ row.status = "cancelled" =>
              RowOK(row, [row EXCEPT !.status = "starting", !.due = TRUE])
  <1> USE DEF RowOK, RowOpen, Attempt, Statuses, Open
  <1>1. RowOK(row, row)
    OBVIOUS
  <1>2. \A b \in BOOLEAN : RowOK(row, [row EXCEPT !.due = b])
    OBVIOUS
  <1>3. RowOK(row, [row EXCEPT !.past = TRUE]) /\ RowOK(row, [row EXCEPT !.held = FALSE])
    OBVIOUS
  <1>4. \A p \in Pollers : RowOK(row, [row EXCEPT !.token = p, !.held = TRUE])
    OBVIOUS
  <1>5. RowOK(row, [row EXCEPT !.due = FALSE, !.token = NoPoller, !.held = FALSE])
    OBVIOUS
  <1>6. row.status = "starting" =>
          RowOK(row, [row EXCEPT !.status = "cancelled", !.due = TRUE, !.token = NoPoller,
                                 !.held = FALSE])
    OBVIOUS
  <1>7. row.status = "cancelled" =>
          RowOK(row, [row EXCEPT !.status = "starting", !.due = TRUE])
    OBVIOUS
  <1> HIDE DEF RowOK, RowOpen, Attempt, Statuses, Open
  <1> QED
    BY <1>1, <1>2, <1>3, <1>4, <1>5, <1>6, <1>7

\* What a poll or an answer of the provider makes of a row.
LEMMA AnswersOK ==
  ASSUME NEW row \in Attempt, RowOpen(row), NEW ans
  PROVE  RowOK(row, observed(row, ans)) /\ RowOK(row, record_start_submission(row, ans))
  <1>1. RowOK(row, observed(row, ans))
    BY FinishOK, RowWritesOK DEF observed
  <1>2. RowOK(row, record_start_submission(row, ans))
    BY FinishOK, RowWritesOK DEF record_start_submission
  <1> QED
    BY <1>1, <1>2

\* The table after a step: rows as above, perhaps longer, with the fence held once.
TableOK(rows) ==
    /\ rows \in Seq(Attempt) /\ Len(rows) <= MaxAttempts /\ Len(attempts) <= Len(rows)
    /\ \A a \in DOMAIN attempts : RowOK(attempts[a], rows[a])
    /\ \A a \in DOMAIN rows : RowOpen(rows[a])
    /\ Alone(rows)

\* One row is written, or none.
LEMMA RowTable ==
  ASSUME IInv, NEW a \in DOMAIN attempts, NEW x, RowOK(attempts[a], x)
  PROVE  TableOK([attempts EXCEPT ![a] = x]) /\ TableOK(attempts)
  <1>1. /\ attempts \in Seq(Attempt) /\ Len(attempts) <= MaxAttempts /\ Alone(attempts)
        /\ \A b \in DOMAIN attempts : attempts[b] \in Attempt /\ RowOpen(attempts[b])
    BY DEF IInv, Types
  <1>2. \A b \in DOMAIN attempts : RowOK(attempts[b], attempts[b])
    BY <1>1, RowWritesOK
  <1>3. TableOK(attempts)
    BY <1>1, <1>2 DEF TableOK
  <1> PICK rows : rows = [attempts EXCEPT ![a] = x]
    OBVIOUS
  <1>4. x \in Attempt /\ (x.active => attempts[a].active) /\ RowOpen(x)
    BY DEF RowOK
  <1>5. /\ rows \in Seq(Attempt) /\ Len(rows) = Len(attempts) /\ DOMAIN rows = DOMAIN attempts
        /\ rows[a] = x /\ \A b \in DOMAIN attempts : b # a => rows[b] = attempts[b]
    BY <1>1, <1>4
  <1>6. Alone(rows)
    BY <1>1, <1>4, <1>5 DEF Alone
  <1>7. Len(rows) <= MaxAttempts /\ Len(attempts) <= Len(rows)
    BY <1>1, <1>5
  <1>8. TableOK(rows)
    BY <1>1, <1>2, <1>4, <1>5, <1>6, <1>7 DEF TableOK
  <1> QED
    BY <1>3, <1>8

\* No row is written.
LEMMA SameTable ==
  ASSUME IInv
  PROVE  TableOK(attempts)
  <1>1. /\ attempts \in Seq(Attempt) /\ Len(attempts) <= MaxAttempts /\ Alone(attempts)
        /\ \A b \in DOMAIN attempts : attempts[b] \in Attempt /\ RowOpen(attempts[b])
    BY DEF IInv, Types
  <1>2. \A b \in DOMAIN attempts : RowOK(attempts[b], attempts[b])
    BY <1>1, RowWritesOK
  <1> QED
    BY <1>1, <1>2 DEF TableOK

\* Replacing or deleting a connection resolves attempts and opens none.
LEMMA InvalidatedTable ==
  ASSUME IInv, NEW o
  PROVE  TableOK(invalidated(o))
  <1> PICK rows : rows = invalidated(o)
    OBVIOUS
  <1>1. /\ attempts \in Seq(Attempt) /\ Len(attempts) <= MaxAttempts /\ Alone(attempts)
        /\ \A b \in DOMAIN attempts : attempts[b] \in Attempt /\ RowOpen(attempts[b])
    BY DEF IInv, Types
  <1>2. /\ DOMAIN rows = DOMAIN attempts
        /\ \A b \in DOMAIN attempts : rows[b] = finish(attempts[b], "stale")
                                      \/ rows[b] = attempts[b]
    BY DEF invalidated
  <1>3. \A b \in DOMAIN attempts : RowOK(attempts[b], rows[b])
    BY <1>1, <1>2, FinishOK, RowWritesOK
  <1>4. rows \in Seq(Attempt) /\ Len(rows) = Len(attempts)
    <2>1. rows = [b \in 1 .. Len(attempts) |-> rows[b]]
      BY <1>1 DEF invalidated
    <2>2. \A b \in 1 .. Len(attempts) : rows[b] \in Attempt
      BY <1>1, <1>3 DEF RowOK
    <2> QED
      BY <1>1, <2>1, <2>2
  <1>5. Alone(rows)
    BY <1>1, <1>2, <1>3 DEF Alone, RowOK
  <1>6. \A b \in DOMAIN rows : RowOpen(rows[b])
    BY <1>2, <1>3 DEF RowOK
  <1>7. TableOK(rows)
    BY <1>1, <1>3, <1>4, <1>5, <1>6 DEF TableOK
  <1> QED
    BY <1>7

\* The insert under the unique active_key.
LEMMA AppendTable ==
  ASSUME IInv, fence_open, Len(attempts) < MaxAttempts, NEW x \in Attempt, RowOpen(x),
         MaxAttempts \in Nat
  PROVE  /\ TableOK(Append(attempts, x))
         /\ Len(Append(attempts, x)) = Len(attempts) + 1
  <1> PICK rows : rows = Append(attempts, x)
    OBVIOUS
  <1>1. /\ attempts \in Seq(Attempt) /\ Len(attempts) \in Nat
        /\ DOMAIN attempts = 1 .. Len(attempts)
        /\ \A b \in DOMAIN attempts : attempts[b] \in Attempt /\ RowOpen(attempts[b])
        /\ \A b \in DOMAIN attempts : ~ attempts[b].active
    BY DEF IInv, Types, fence_open, Active
  <1>2. /\ rows \in Seq(Attempt) /\ Len(rows) = Len(attempts) + 1
        /\ DOMAIN rows = 1 .. Len(attempts) + 1
        /\ rows[Len(attempts) + 1] = x
        /\ \A b \in DOMAIN attempts : rows[b] = attempts[b]
    BY <1>1
  <1>3. \A b \in DOMAIN rows : b \in DOMAIN attempts \/ b = Len(attempts) + 1
    BY <1>1, <1>2
  <1>4. \A b \in DOMAIN attempts : RowOK(attempts[b], rows[b])
    BY <1>1, <1>2, RowWritesOK
  <1>5. \A b \in DOMAIN rows : RowOpen(rows[b])
    BY <1>1, <1>2, <1>3
  <1>6. Alone(rows)
    BY <1>1, <1>2, <1>3 DEF Alone
  <1>7. Len(rows) <= MaxAttempts /\ Len(attempts) <= Len(rows)
    BY <1>1, <1>2
  <1>8. TableOK(rows)
    BY <1>2, <1>4, <1>5, <1>6, <1>7 DEF TableOK
  <1> QED
    BY <1>2, <1>8

------------------------------------------------------------------------------
(* What a step may do to each variable.                                     *)

ConnOK ==
    /\ conn' \in [Owners -> Connection]
    /\ \A o \in Owners :
        \/ conn'[o].by = 0
        \/ conn'[o].by = conn[o].by /\ conn'[o].gen = conn[o].gen
        \/ /\ conn'[o].by \in DOMAIN attempts
           /\ Manual = {} => /\ attempts[conn'[o].by].owner = o
                             /\ attempts[conn'[o].by].gen = conn'[o].gen

StartOK == start' \in [Starters -> Starter]
           /\ \A s \in Starters : start'[s] = start[s] \/ StartTrue(s)'

PollOK == poll' \in [Pollers -> Poller]
          /\ \A p \in Pollers : poll'[p] = poll[p] \/ PollTrue(p)'

RunOK ==
    /\ run' \in [Runs -> Startup]
    /\ \A r \in Runs : run[r].deadline # 0 => run'[r].deadline = run[r].deadline

RestOK == compute' \in {"STOPPED", "STARTING", "RUNNING", "FAILED"}
          /\ crashes' \in 0 .. MaxCrashes

\* What was true of an attempt's users stays true when the table grows or resolves.
LEMMA Carried ==
  ASSUME IInv, TableOK(attempts'), ConnOK, StartOK, PollOK, RunOK, RestOK
  PROVE  IInv' /\ NoRevival
  <1>1. Types'
    BY DEF Types, TableOK, ConnOK, StartOK, PollOK, RunOK, RestOK
  <1>2. /\ DOMAIN attempts \subseteq DOMAIN attempts'
        /\ \A a \in DOMAIN attempts : /\ attempts'[a].owner = attempts[a].owner
                                      /\ attempts'[a].gen = attempts[a].gen
                                      /\ attempts'[a].active => attempts[a].active
    BY DEF TableOK, RowOK, IInv, Types
  <1>3. Alone(attempts)' /\ \A a \in DOMAIN attempts' : RowOpen(attempts[a])'
    BY DEF TableOK, Alone, RowOpen
  <1>4. ASSUME NEW s \in Starters PROVE StartTrue(s)'
    BY <1>2, <1>4 DEF IInv, StartTrue, StartOK
  <1>5. ASSUME NEW p \in Pollers PROVE PollTrue(p)'
    BY <1>2, <1>5 DEF IInv, PollTrue, PollOK
  <1>6. ASSUME NEW o \in Owners PROVE ShownTrue(o)'
    <2>1. ShownTrue(o)
      BY DEF IInv
    <2> QED
      BY <1>2, <1>6, <2>1 DEF ShownTrue, ConnOK
  <1>7. NoRevival
    BY <1>2 DEF NoRevival, RunOK
  <1> QED
    BY <1>1, <1>3, <1>4, <1>5, <1>6, <1>7 DEF IInv

\* What a step leaves alone.
LEMMA Untouched ==
  ASSUME IInv
  PROVE  /\ conn' = conn => ConnOK
         /\ start' = start => StartOK
         /\ poll' = poll => PollOK
         /\ run' = run => RunOK
         /\ compute' = compute /\ crashes' = crashes => RestOK
         /\ attempts' = attempts => TableOK(attempts')
  BY SameTable DEF IInv, Types, ConnOK, StartOK, PollOK, RunOK, RestOK

\* UPDATE user_secrets ... WHERE updated_at = <the attempt's generation>.
LEMMA ShowOK ==
  ASSUME Sane, IInv, NEW a \in DOMAIN attempts, NEW runtime \in Runtime, show(a, runtime)
  PROVE  ConnOK
  <1>1. CASE ~ Current(a)
    BY <1>1, Untouched DEF show
  <1>2. CASE Current(a)
    <2>1. /\ conn \in [Owners -> Connection] /\ attempts[a].owner \in Owners
          /\ a \in 0 .. MaxAttempts /\ conn[attempts[a].owner].gen = attempts[a].gen
      <3>1. attempts \in Seq(Attempt) /\ Len(attempts) <= MaxAttempts /\ MaxAttempts \in Nat
            /\ conn \in [Owners -> Connection]
        BY DEF Sane, IInv, Types
      <3>2. attempts[a] \in Attempt /\ a \in 0 .. MaxAttempts
        BY <3>1
      <3> QED
        BY <1>2, <3>1, <3>2 DEF Attempt, Current
    <2> PICK o \in Owners : o = attempts[a].owner
      BY <2>1
    <2>2. conn' = [conn EXCEPT ![o].runtime = runtime, ![o].by = a]
      BY <1>2 DEF show
    <2> PICK mid : mid = [conn EXCEPT ![o].runtime = runtime]
      OBVIOUS
    <2>3. mid \in [Owners -> Connection] /\ mid[o].gen = conn[o].gen
          /\ \A q \in Owners : q # o => mid[q] = conn[q]
      BY <2>1 DEF Connection
    <2>4. conn' = [mid EXCEPT ![o].by = a]
      BY <2>2
    <2>5. conn' \in [Owners -> Connection] /\ conn'[o].gen = conn[o].gen /\ conn'[o].by = a
          /\ \A q \in Owners : q # o => conn'[q] = conn[q]
      BY <2>1, <2>3, <2>4 DEF Connection
    <2> QED
      BY <2>1, <2>5 DEF ConnOK
  <1> QED
    BY <1>1, <1>2

\* Starter s is at pc, with an attempt and a generation; the other starters did not move.
StartIs(s, pc, att, gen) ==
    /\ start' \in [Starters -> Starter]
    /\ \A q \in Starters : q # s => start'[q] = start[q]
    /\ start'[s].pc = pc /\ start'[s].att = att /\ start'[s].gen = gen

\* A starter that asks has its attempt in the table, one that has loaded a generation.
LEMMA StartStep ==
  ASSUME NEW s \in Starters, NEW pc, NEW att, NEW gen, StartIs(s, pc, att, gen),
         pc \in Asking => att \in DOMAIN attempts',
         pc = "loaded" => gen # 0
  PROVE  StartOK
  BY DEF StartIs, StartOK, StartTrue

\* Writes of a starter's record.
LEMMA StartWrites ==
  ASSUME start \in [Starters -> Starter], NEW s \in Starters, NEW pc \in Points
  PROVE  /\ Go(s, pc) => StartIs(s, pc, start[s].att, start[s].gen)
         /\ \A ans \in Answers : start' = [start EXCEPT ![s].pc = pc, ![s].ans = ans]
              => StartIs(s, pc, start[s].att, start[s].gen)
         /\ \A att \in 0 .. MaxAttempts : start' = [start EXCEPT ![s].pc = pc, ![s].att = att]
              => StartIs(s, pc, att, start[s].gen)
         /\ \A gen \in 0 .. MaxGen : start' = [start EXCEPT ![s].pc = pc, ![s].gen = gen]
              => StartIs(s, pc, start[s].att, gen)
         /\ \A x \in Starter : start' = [start EXCEPT ![s] = x]
              => StartIs(s, x.pc, x.att, x.gen)
  <1> USE DEF StartIs, Starter
  <1> PICK mid : mid = [start EXCEPT ![s].pc = pc]
    OBVIOUS
  <1>1. /\ mid \in [Starters -> Starter] /\ mid[s].pc = pc /\ mid[s].att = start[s].att
        /\ mid[s].gen = start[s].gen /\ \A q \in Starters : q # s => mid[q] = start[q]
    OBVIOUS
  <1>2. Go(s, pc) => StartIs(s, pc, start[s].att, start[s].gen)
    BY <1>1 DEF Go
  <1>3. ASSUME NEW ans \in Answers, start' = [start EXCEPT ![s].pc = pc, ![s].ans = ans]
        PROVE  StartIs(s, pc, start[s].att, start[s].gen)
    <2>1. start' = [mid EXCEPT ![s].ans = ans]
      BY <1>3
    <2> QED
      BY <1>1, <2>1
  <1>4. ASSUME NEW att \in 0 .. MaxAttempts,
               start' = [start EXCEPT ![s].pc = pc, ![s].att = att]
        PROVE  StartIs(s, pc, att, start[s].gen)
    <2>1. start' = [mid EXCEPT ![s].att = att]
      BY <1>4
    <2> QED
      BY <1>1, <2>1
  <1>5. ASSUME NEW gen \in 0 .. MaxGen, start' = [start EXCEPT ![s].pc = pc, ![s].gen = gen]
        PROVE  StartIs(s, pc, start[s].att, gen)
    <2>1. start' = [mid EXCEPT ![s].gen = gen]
      BY <1>5
    <2> QED
      BY <1>1, <2>1
  <1>6. ASSUME NEW x \in Starter, start' = [start EXCEPT ![s] = x]
        PROVE  StartIs(s, x.pc, x.att, x.gen)
    BY <1>6
  <1> QED
    BY <1>2, <1>3, <1>4, <1>5, <1>6 DEF Go

\* The record at rest.
LEMMA IdleType ==
  ASSUME Sane
  PROVE  Idle \in Starter /\ Idle.pc = "idle" /\ Idle.att = 0 /\ Idle.gen = 0
  BY DEF Sane, Idle, Starter, Points, Answers

\* A caller that returns or raises, or is put to rest, leaves its attempt.
LEMMA Leaves ==
  ASSUME Sane, IInv, NEW s \in Starters,
         Return(s) \/ Raise(s) \/ start' = [start EXCEPT ![s] = Idle]
  PROVE  StartOK
  <1>1. start \in [Starters -> Starter]
    BY DEF IInv, Types
  <1>2. "defer" \in Points /\ "raise" \in Points /\ "defer" \notin Asking /\ "raise" \notin Asking
        /\ "idle" \notin Asking
    BY DEF Points, Asking
  <1>3. CASE start' = [start EXCEPT ![s] = Idle]
    <2>1. StartIs(s, "idle", 0, 0)
      BY <1>1, <1>2, <1>3, IdleType, StartWrites
    <2> QED
      BY <1>2, <2>1, StartStep
  <1>4. CASE start' # [start EXCEPT ![s] = Idle]
    <2>1. PICK pc \in {"defer", "raise"} : start' = [start EXCEPT ![s] = [@ EXCEPT !.pc = pc]]
      BY <1>4 DEF Return, Raise
    <2>2. Go(s, pc)
      BY <2>1 DEF Go
    <2>3. StartIs(s, pc, start[s].att, start[s].gen)
      BY <1>1, <1>2, <2>2, StartWrites
    <2> QED
      BY <1>2, <2>3, StartStep
  <1> QED
    BY <1>3, <1>4

\* A caller that goes on with the attempt it has.
LEMMA GoesOn ==
  ASSUME IInv, NEW s \in Starters, start[s].pc \in Asking, NEW pc \in Points, pc # "loaded",
         TableOK(attempts'),
         \/ Go(s, pc)
         \/ \E ans \in Answers : start' = [start EXCEPT ![s].pc = pc, ![s].ans = ans]
         \/ \E gen \in 0 .. MaxGen : start' = [start EXCEPT ![s].pc = pc, ![s].gen = gen]
  PROVE  StartOK
  <1>1. start \in [Starters -> Starter] /\ start[s].att \in DOMAIN attempts
    BY DEF IInv, Types, StartTrue
  <1>2. PICK gen : StartIs(s, pc, start[s].att, gen)
    BY <1>1, StartWrites
  <1>3. start[s].att \in DOMAIN attempts'
    BY <1>1 DEF TableOK, IInv, Types
  <1> QED
    BY <1>2, <1>3, StartStep

------------------------------------------------------------------------------
(* The steps.                                                               *)

\* Replacing, deleting and disabling a connection.
LEMMA ConnectionStep ==
  ASSUME Sane, IInv, NEW o \in Owners, Rotate(o) \/ Delete(o) \/ Disable(o)
  PROVE  IInv' /\ NoRevival
  <1>1. conn \in [Owners -> Connection] /\ UNCHANGED <<compute, start, run, poll, crashes>>
    BY DEF IInv, Types, Rotate, Delete, Disable
  <1> PICK c \in Connection : c = conn[o]
    BY <1>1
  <1>2. 0 \in 0 .. MaxAttempts /\ "" \in Runtime
    BY DEF Sane, Runtime
  <1>3. TableOK(attempts')
    BY InvalidatedTable, SameTable DEF Rotate, Delete, Disable
  <1>4. ConnOK
    <2>1. CASE Rotate(o)
      <3> PICK x : x = [c EXCEPT !.live = TRUE, !.gen = c.gen + 1, !.runtime = "", !.by = 0]
        OBVIOUS
      <3>1. conn' = [conn EXCEPT ![o] = x] /\ c.gen < MaxGen
        BY <2>1 DEF Rotate
      <3>2. c.gen + 1 \in 1 .. MaxGen
        BY <3>1 DEF Connection, Sane
      <3>3. x \in Connection /\ x.by = 0
        BY <1>2, <3>2 DEF Connection
      <3> QED
        BY <1>1, <3>1, <3>3 DEF ConnOK
    <2>2. CASE Delete(o)
      <3> PICK x : x = [c EXCEPT !.live = FALSE, !.runtime = "", !.by = 0]
        OBVIOUS
      <3>1. conn' = [conn EXCEPT ![o] = x]
        BY <2>2 DEF Delete
      <3>2. x \in Connection /\ x.by = 0
        BY <1>2 DEF Connection
      <3> QED
        BY <1>1, <3>1, <3>2 DEF ConnOK
    <2>3. CASE Disable(o)
      <3>1. conn' = [conn EXCEPT ![o].enabled = FALSE]
        BY <2>3 DEF Disable
      <3> QED
        BY <1>1, <3>1 DEF ConnOK, Connection
    <2> QED
      BY <2>1, <2>2, <2>3
  <1> QED
    BY <1>1, <1>3, <1>4, Untouched, Carried

\* A state of a run's startup, written at the end of its attempt.
LEMMA StateWrites ==
  ASSUME IInv, NEW r, NEW st \in {"queued", "working", "done", "blocked"},
         run' = [run EXCEPT ![r].state = st]
  PROVE  RunOK
  <1>1. run \in [Runs -> Startup]
    BY DEF IInv, Types
  <1>2. CASE r \notin Runs
    BY <1>1, <1>2 DEF RunOK
  <1>3. CASE r \in Runs
    BY <1>1, <1>3 DEF RunOK, Startup
  <1> QED
    BY <1>2, <1>3

\* The steps of a run or a thread that write neither the connection nor an attempt.
LEMMA QuietStep ==
  ASSUME Sane, IInv, NEW s \in Starters, StartOK, RunOK, RestOK,
         UNCHANGED <<conn, attempts, poll>>
  PROVE  IInv' /\ NoRevival
  BY Untouched, Carried

\* The record of a caller that has loaded a generation.
LEMMA LoadedType ==
  ASSUME Sane, NEW g \in 0 .. MaxGen
  PROVE  /\ [pc |-> "loaded", att |-> 0, gen |-> g, ans |-> "none"] \in Starter
         /\ [Idle EXCEPT !.pc = "loaded", !.gen = g]
              = [pc |-> "loaded", att |-> 0, gen |-> g, ans |-> "none"]
  <1>1. 0 \in 0 .. MaxAttempts
    BY DEF Sane
  <1>2. [pc |-> "loaded", att |-> 0, gen |-> g, ans |-> "none"] \in Starter
    BY <1>1 DEF Starter, Points, Answers
  <1>3. [Idle EXCEPT !.pc = "loaded"] = [pc |-> "loaded", att |-> 0, gen |-> 0, ans |-> "none"]
    BY DEF Idle
  <1>4. [[pc |-> "loaded", att |-> 0, gen |-> 0, ans |-> "none"] EXCEPT !.gen = g]
          = [pc |-> "loaded", att |-> 0, gen |-> g, ans |-> "none"]
    OBVIOUS
  <1>5. [Idle EXCEPT !.pc = "loaded", !.gen = g]
          = [[Idle EXCEPT !.pc = "loaded"] EXCEPT !.gen = g]
    OBVIOUS
  <1> QED
    BY <1>2, <1>3, <1>4, <1>5

\* Loading the connection.
LEMMA LoadStep ==
  ASSUME Sane, IInv, NEW s \in Starters, Load(s)
  PROVE  IInv' /\ NoRevival
  <1>1. OwnerOf[s] \in Owners /\ conn \in [Owners -> Connection]
        /\ start \in [Starters -> Starter]
    BY DEF Sane, IInv, Types
  <1> PICK g : g = conn[OwnerOf[s]].gen
    OBVIOUS
  <1>2. g \in 0 .. MaxGen /\ g # 0
    BY <1>1 DEF Connection
  <1>3. PICK x \in Starter : x = [pc |-> "loaded", att |-> 0, gen |-> g, ans |-> "none"]
    BY <1>2, LoadedType
  <1>4. start' = [start EXCEPT ![s] = x]
    <2>1. start' = [start EXCEPT ![s] = [Idle EXCEPT !.pc = "loaded", !.gen = g]]
      BY DEF Load
    <2>2. [Idle EXCEPT !.pc = "loaded", !.gen = g] = x
      BY <1>2, <1>3, LoadedType
    <2> QED
      BY <2>1, <2>2
  <1>5. StartIs(s, "loaded", 0, g)
    <2>1. "loaded" \in Points
      BY DEF Points
    <2> QED
      BY <1>1, <1>3, <1>4, <2>1, StartWrites
  <1>6. StartOK
    <2>1. "loaded" \notin Asking
      BY DEF Asking
    <2> QED
      BY <1>2, <1>5, <2>1, StartStep
  <1>7. RunOK
    BY Untouched, StateWrites DEF Load
  <1> QED
    BY <1>6, <1>7, Untouched, QuietStep DEF Load

\* The answers and the ends of a run that write its own state at most.
LEMMA EndStep ==
  ASSUME Sane, IInv, NEW r \in Starters,
         \/ LoadFails(r) \/ SqlReady(r) \/ NotStartable(r) \/ AskAgain(r) \/ OwnerDisabled(r)
         \/ Defer(r) \/ Block(r) \/ StarterCrash(r)
  PROVE  IInv' /\ NoRevival
  <1>1. UNCHANGED <<conn, attempts, compute, poll>>
    BY DEF LoadFails, SqlReady, NotStartable, AskAgain, OwnerDisabled, Defer, Block, StarterCrash
  <1>2. StartOK
    BY Untouched, Leaves
       DEF LoadFails, SqlReady, NotStartable, AskAgain, OwnerDisabled, Defer, Block, StarterCrash
  <1>3. RunOK
    <2>1. run' = run \/ \E st \in {"queued", "working", "done", "blocked"} :
                            run' = [run EXCEPT ![r].state = st]
      BY DEF LoadFails, SqlReady, NotStartable, AskAgain, OwnerDisabled, Defer, Block,
             StarterCrash
    <2> QED
      BY <2>1, Untouched, StateWrites
  <1>4. RestOK
    <2>1. crashes' = crashes \/ (crashes < MaxCrashes /\ crashes' = crashes + 1)
      BY DEF LoadFails, SqlReady, NotStartable, AskAgain, OwnerDisabled, Defer, Block,
             StarterCrash
    <2> QED
      BY <1>1, <2>1 DEF RestOK, IInv, Types, Sane
  <1> QED
    BY <1>1, <1>2, <1>3, <1>4, QuietStep

\* A run waits for an attempt only when it has no deadline yet.
LEMMA WaitOK ==
  ASSUME Sane, IInv, NEW s \in Starters, may_request(s), NEW a \in 0 .. MaxAttempts,
         run' = wait_for(s, a)
  PROVE  RunOK
  <1>1. run \in [Runs -> Startup]
    BY DEF IInv, Types
  <1>2. CASE s \notin Runs
    BY <1>2, Untouched DEF wait_for
  <1>3. CASE s \in Runs
    <2>1. run[s].deadline = 0
      BY <1>3 DEF may_request
    <2>2. PICK mid : mid = [run EXCEPT ![s].deadline = a]
      OBVIOUS
    <2>3. mid \in [Runs -> Startup] /\ \A q \in Runs : q # s => mid[q] = run[q]
      BY <1>1, <2>2 DEF Startup
    <2>4. PICK b : run' = [mid EXCEPT ![s].att = b] /\ (b = a \/ b = mid[s].att)
      BY <1>1, <1>3, <2>2, <2>3 DEF wait_for
    <2>5. b \in 0 .. MaxAttempts
      BY <1>3, <2>3, <2>4 DEF Startup
    <2>6. run' \in [Runs -> Startup] /\ \A q \in Runs : q # s => run'[q] = run[q]
      BY <1>3, <2>3, <2>4, <2>5 DEF Startup
    <2> QED
      BY <1>3, <2>1, <2>6 DEF RunOK
  <1> QED
    BY <1>2, <1>3

\* create_compute_attempt: the insert, or the attempt that holds the fence.
LEMMA ReserveStep ==
  ASSUME Sane, IInv, NEW s \in Starters, Reserve(s) \/ AlreadyStarting(s)
  PROVE  IInv' /\ NoRevival
  <1>1. /\ start \in [Starters -> Starter] /\ UNCHANGED <<conn, compute, poll, crashes>>
        /\ attempts \in Seq(Attempt) /\ Len(attempts) <= MaxAttempts /\ may_request(s)
    BY DEF IInv, Types, Reserve, AlreadyStarting
  <1>2. start[s].pc = "loaded" /\ start[s].gen # 0
    BY <1>1 DEF may_request, At, IInv, StartTrue
  <1>3. CASE Reserve(s)
    <2> PICK x : x = new_attempt(s)
      OBVIOUS
    <2>1. x \in Attempt /\ RowOpen(x)
      <3>1. OwnerOf[s] \in Owners /\ start[s].gen \in 1 .. MaxGen
        BY <1>1, <1>2 DEF Sane, Starter
      <3> QED
        BY <3>1 DEF new_attempt, Attempt, Statuses, RowOpen, Open
    <2>2. /\ attempts' = Append(attempts, x) /\ fence_open /\ Len(attempts) < MaxAttempts
          /\ run' = wait_for(s, Len(attempts'))
          /\ start' = [start EXCEPT ![s].pc = "check", ![s].att = Len(attempts')]
      BY <1>3 DEF Reserve
    <2>3. TableOK(attempts') /\ Len(attempts') = Len(attempts) + 1
      BY <2>1, <2>2, AppendTable DEF Sane
    <2>4. Len(attempts') \in 0 .. MaxAttempts /\ Len(attempts') \in DOMAIN attempts'
      BY <1>1, <2>3 DEF TableOK, Sane
    <2>5. RunOK
      BY <1>1, <2>2, <2>4, WaitOK
    <2>6. StartIs(s, "check", Len(attempts'), start[s].gen)
      <3>1. "check" \in Points
        BY DEF Points
      <3> PICK n \in 0 .. MaxAttempts : n = Len(attempts')
        BY <2>4
      <3>2. start' = [start EXCEPT ![s].pc = "check", ![s].att = n]
        BY <2>2
      <3>3. StartIs(s, "check", n, start[s].gen)
        BY <1>1, <3>1, <3>2, StartWrites
      <3> QED
        BY <3>3
    <2>7. StartOK
      BY <2>4, <2>6, StartStep
    <2> QED
      BY <1>1, <2>3, <2>5, <2>7, Untouched, Carried
  <1>4. CASE AlreadyStarting(s)
    <2>1. PICK a \in Active : run' = wait_for(s, a) /\ (Return(s) \/ Raise(s))
                              /\ attempts' = attempts
      BY <1>4 DEF AlreadyStarting
    <2>2. a \in 0 .. MaxAttempts
      BY <1>1 DEF Active, Sane
    <2>3. RunOK
      BY <1>1, <2>1, <2>2, WaitOK
    <2>4. StartOK
      BY <2>1, Leaves
    <2> QED
      BY <1>1, <2>1, <2>3, <2>4, Untouched, QuietStep
  <1> QED
    BY <1>3, <1>4

\* The caller reads the generation again, asks the provider, or looks at its attempt.
LEMMA AskStep ==
  ASSUME Sane, IInv, NEW s \in Starters,
         CheckGeneration(s) \/ StartCompute(s) \/ RequireCurrent(s) \/ FailRead(s)
  PROVE  IInv' /\ NoRevival
  <1>1. UNCHANGED <<conn, attempts, run, poll, crashes>> /\ TableOK(attempts')
    BY SameTable DEF CheckGeneration, StartCompute, RequireCurrent, FailRead
  <1>2. start[s].pc \in Asking
    BY DEF CheckGeneration, StartCompute, RequireCurrent, FailRead, At, Asking
  <1>3. RestOK
    <2>1. compute \in {"STOPPED", "STARTING", "RUNNING", "FAILED"} /\ crashes \in 0 .. MaxCrashes
      BY DEF IInv, Types
    <2>2. compute' \in {"STOPPED", "STARTING", "RUNNING", "FAILED"}
      BY <2>1 DEF CheckGeneration, StartCompute, RequireCurrent, FailRead
    <2> QED
      BY <1>1, <2>1, <2>2 DEF RestOK
  <1>4. StartOK
    <2>1. /\ "fail" \in Points /\ "mark" \in Points /\ "call" \in Points /\ "answer" \in Points
          /\ "show_running" \in Points /\ "show_starting" \in Points /\ "failwrite" \in Points
          /\ "stale" \in Answers /\ "submitted" \in Answers /\ "running" \in Answers
          /\ "uncertain" \in Answers /\ "fatal" \in Answers
      BY DEF Points, Answers
    <2>2. ASSUME NEW pc \in Points, pc # "loaded",
                 \/ Go(s, pc)
                 \/ \E ans \in Answers : start' = [start EXCEPT ![s].pc = pc, ![s].ans = ans]
          PROVE  StartOK
      BY <1>1, <1>2, <2>2, GoesOn
    <2>3. CASE CheckGeneration(s)
      <3>1. \/ start' = [start EXCEPT ![s].pc = "fail", ![s].ans = "stale"]
            \/ start' = [start EXCEPT ![s].pc = "mark"]
            \/ start' = [start EXCEPT ![s].pc = "call"]
            \/ start' = [start EXCEPT ![s].pc = "answer", ![s].ans = "submitted"]
        BY <2>3 DEF CheckGeneration, generation_checked
      <3> QED
        BY <2>1, <2>2, <3>1 DEF Go
    <2>4. CASE StartCompute(s)
      BY <2>1, <2>2, <2>4 DEF StartCompute
    <2>5. CASE RequireCurrent(s)
      <3>1. \/ start' = [start EXCEPT ![s].pc = "fail", ![s].ans = "stale"]
            \/ Raise(s) \/ Go(s, "show_running") \/ Go(s, "show_starting")
        BY <2>5 DEF RequireCurrent, required
      <3> QED
        BY <2>1, <2>2, <3>1, Leaves
    <2>6. CASE FailRead(s)
      <3>1. Raise(s) \/ Go(s, "failwrite")
        BY <2>6 DEF FailRead
      <3> QED
        BY <2>1, <2>2, <3>1, Leaves
    <2> QED
      BY <2>3, <2>4, <2>5, <2>6
  <1> QED
    BY <1>1, <1>3, <1>4, Untouched, QuietStep

\* The Start control marks the row it reads, which may be of another generation.
LEMMA MarkStep ==
  ASSUME Sane, IInv, NEW s \in Manual, Mark(s)
  PROVE  IInv' /\ NoRevival
  <1>1. /\ s \in Starters /\ Manual # {} /\ UNCHANGED <<attempts, compute, run, poll, crashes>>
        /\ start[s].pc = "mark" /\ OwnerOf[s] \in Owners /\ conn \in [Owners -> Connection]
    BY DEF Mark, At, Starters, Sane, IInv, Types
  <1>2. start[s].pc \in Asking /\ start[s].att \in DOMAIN attempts /\ "call" \in Points
    BY <1>1 DEF Asking, IInv, StartTrue, Points
  <1>3. TableOK(attempts')
    BY <1>1, Untouched
  <1>4. StartOK
    <2>1. PICK g : start' = [start EXCEPT ![s].pc = "call", ![s].gen = g]
                   /\ (g = conn[OwnerOf[s]].gen \/ g = 0)
      BY DEF Mark
    <2>2. g \in 0 .. MaxGen
      BY <1>1, <2>1 DEF Connection, Sane
    <2> QED
      BY <1>1, <1>2, <1>3, <2>1, <2>2, GoesOn
  <1>5. ConnOK
    <2>1. CASE conn' = conn
      BY <2>1, Untouched
    <2>2. CASE conn' # conn
      <3> PICK o \in Owners : o = OwnerOf[s]
        BY <1>1
      <3> PICK a \in DOMAIN attempts : a = start[s].att
        BY <1>2
      <3>1. conn' = [conn EXCEPT ![o].runtime = "STARTING", ![o].by = a]
        BY <2>2 DEF Mark
      <3>2. PICK mid : mid = [conn EXCEPT ![o].runtime = "STARTING"]
        OBVIOUS
      <3>3. mid \in [Owners -> Connection] /\ \A q \in Owners : q # o => mid[q] = conn[q]
        BY <1>1, <3>2 DEF Connection, Runtime
      <3>4. a \in 0 .. MaxAttempts
        <4>1. attempts \in Seq(Attempt) /\ Len(attempts) <= MaxAttempts /\ MaxAttempts \in Nat
          BY DEF IInv, Types, Sane
        <4> QED
          BY <4>1
      <3>5. conn' = [mid EXCEPT ![o].by = a]
        BY <3>1, <3>2
      <3>6. conn' \in [Owners -> Connection] /\ conn'[o].by = a
            /\ \A q \in Owners : q # o => conn'[q] = conn[q]
        BY <3>3, <3>4, <3>5 DEF Connection
      <3> QED
        BY <1>1, <3>6 DEF ConnOK
    <2> QED
      BY <2>1, <2>2
  <1> QED
    BY <1>1, <1>3, <1>4, <1>5, Untouched, Carried

\* The Start control writes under the generation it marked, a run under its attempt's.
LEMMA ShowStep ==
  ASSUME Sane, IInv, NEW s \in Starters, ShowStarted(s)
  PROVE  IInv' /\ NoRevival
  <1>1. /\ UNCHANGED <<attempts, compute, run, poll, crashes>>
        /\ start[s].pc \in {"show_running", "show_starting"}
        /\ OwnerOf[s] \in Owners /\ conn \in [Owners -> Connection]
    BY DEF ShowStarted, Sane, IInv, Types
  <1>2. start[s].att \in DOMAIN attempts
    BY <1>1 DEF Asking, IInv, StartTrue
  <1>3. StartOK
    BY Leaves DEF ShowStarted
  <1>4. PICK runtime \in {"RUNNING", "STARTING"} :
          IF s \in Runs THEN show(start[s].att, runtime)
          ELSE conn' = IF conn[OwnerOf[s]].live /\ conn[OwnerOf[s]].gen = start[s].gen
                       THEN [conn EXCEPT ![OwnerOf[s]].runtime = runtime,
                                         ![OwnerOf[s]].by = start[s].att]
                       ELSE conn
    BY DEF ShowStarted
  <1>5. runtime \in Runtime
    BY DEF Runtime
  <1>6. ConnOK
    <2>1. CASE s \in Runs
      BY <1>2, <1>4, <1>5, <2>1, ShowOK
    <2>2. CASE conn' = conn
      BY <2>2, Untouched
    <2>3. CASE s \notin Runs /\ conn' # conn
      <3> PICK o \in Owners : o = OwnerOf[s]
        BY <1>1
      <3> PICK a \in DOMAIN attempts : a = start[s].att
        BY <1>2
      <3>1. conn' = [conn EXCEPT ![o].runtime = runtime, ![o].by = a]
        BY <1>4, <2>3
      <3>2. PICK mid : mid = [conn EXCEPT ![o].runtime = runtime]
        OBVIOUS
      <3>3. mid \in [Owners -> Connection] /\ \A q \in Owners : q # o => mid[q] = conn[q]
        BY <1>1, <1>5, <3>2 DEF Connection
      <3>4. a \in 0 .. MaxAttempts
        <4>1. attempts \in Seq(Attempt) /\ Len(attempts) <= MaxAttempts /\ MaxAttempts \in Nat
          BY DEF IInv, Types, Sane
        <4> QED
          BY <4>1
      <3>5. conn' = [mid EXCEPT ![o].by = a]
        BY <3>1, <3>2
      <3>6. conn' \in [Owners -> Connection] /\ conn'[o].by = a
            /\ \A q \in Owners : q # o => conn'[q] = conn[q]
        BY <3>3, <3>4, <3>5 DEF Connection
      <3>7. Manual # {}
        BY <2>3 DEF Starters
      <3> QED
        BY <3>6, <3>7 DEF ConnOK
    <2> QED
      BY <2>1, <2>2, <2>3
  <1> QED
    BY <1>1, <1>3, <1>6, Untouched, Carried

\* The rows, typed, and which of them the step writes.
LEMMA RowFacts ==
  ASSUME IInv, NEW a \in DOMAIN attempts
  PROVE  attempts[a] \in Attempt /\ RowOpen(attempts[a])
  BY DEF IInv, Types

\* The provider's answer is recorded: a row that is no longer starting is left alone.
LEMMA AnswerStep ==
  ASSUME Sane, IInv, NEW s \in Starters, StartFailed(s) \/ StartSubmitted(s) \/ FailWrite(s)
  PROVE  IInv' /\ NoRevival
  <1>1. UNCHANGED <<compute, run, poll, crashes>> /\ start[s].pc \in Asking
    BY DEF StartFailed, StartSubmitted, FailWrite, At, Asking
  <1>2. PICK a \in DOMAIN attempts : a = start[s].att
    BY <1>1 DEF IInv, StartTrue
  <1>3. attempts[a] \in Attempt /\ RowOpen(attempts[a])
    BY RowFacts
  <1>4. "fail" \in Points /\ "require" \in Points /\ "show_running" \in Points
        /\ "show_starting" \in Points /\ "stale" \in Answers
    BY DEF Points, Answers
  <1>5. CASE StartFailed(s)
    <2>1. attempts' = attempts \/ attempts' = [attempts EXCEPT ![a].due = TRUE]
      BY <1>2, <1>5 DEF StartFailed
    <2>2. TableOK(attempts')
      <3>1. RowOK(attempts[a], [attempts[a] EXCEPT !.due = TRUE])
        BY <1>3, RowWritesOK
      <3> QED
        BY <2>1, <3>1, RowTable
    <2>3. \/ start' = [start EXCEPT ![s].pc = "fail", ![s].ans = "stale"]
          \/ Raise(s) \/ Return(s) \/ Go(s, "fail")
      BY <1>5 DEF StartFailed, required
    <2>4. StartOK
      BY <1>1, <1>4, <2>2, <2>3, GoesOn, Leaves
    <2> QED
      BY <1>1, <1>5, <2>2, <2>4, Untouched, Carried DEF StartFailed
  <1>6. CASE StartSubmitted(s)
    <2>1. PICK x : attempts' = [attempts EXCEPT ![a] = x]
                   /\ x = record_start_submission(attempts[a], start[s].ans)
      BY <1>2, <1>6 DEF StartSubmitted
    <2>2. TableOK(attempts')
      <3>1. RowOK(attempts[a], x)
        BY <1>3, <2>1, AnswersOK
      <3> QED
        BY <2>1, <3>1, RowTable
    <2>3. Go(s, "require") \/ Go(s, "show_running") \/ Go(s, "show_starting")
      BY <1>6 DEF StartSubmitted
    <2>4. StartOK
      BY <1>1, <1>4, <2>2, <2>3, GoesOn
    <2> QED
      BY <1>1, <1>6, <2>2, <2>4, Untouched, Carried DEF StartSubmitted
  <1>7. CASE FailWrite(s)
    <2>1. PICK st \in {"stale", "failed"} :
              attempts' = [attempts EXCEPT ![a] = finish(attempts[a], st)]
      BY <1>2, <1>7 DEF FailWrite
    <2>2. TableOK(attempts')
      <3>1. RowOK(attempts[a], finish(attempts[a], st))
        BY <1>3, FinishOK
      <3> QED
        BY <2>1, <3>1, RowTable
    <2>3. StartOK
      BY <1>7, Leaves DEF FailWrite
    <2>4. ConnOK
      <3>1. show(a, "FAILED") /\ "FAILED" \in Runtime
        BY <1>2, <1>7 DEF FailWrite, Runtime
      <3> QED
        BY <3>1, ShowOK
    <2> QED
      BY <1>1, <2>2, <2>3, <2>4, Untouched, Carried
  <1> QED
    BY <1>5, <1>6, <1>7

\* The owner's controls and the passing of time, on one row.
LEMMA RowStep ==
  ASSUME Sane, IInv, NEW a \in DOMAIN attempts,
         CancelObservation(a) \/ ResumeObservation(a) \/ Time(a)
  PROVE  IInv' /\ NoRevival
  <1>1. UNCHANGED <<compute, start, run, poll, crashes>>
    BY DEF CancelObservation, ResumeObservation, Time, DeadlineComes, PollComes, LeaseExpires
  <1>2. attempts[a] \in Attempt /\ RowOpen(attempts[a])
    BY RowFacts
  <1>3. ASSUME NEW x, attempts' = [attempts EXCEPT ![a] = x], RowOK(attempts[a], x), ConnOK
        PROVE  IInv' /\ NoRevival
    <2>1. TableOK(attempts')
      BY <1>3, RowTable
    <2> QED
      BY <1>1, <1>3, <2>1, Untouched, Carried
  <1>4. CASE CancelObservation(a)
    <2>1. PICK x : x = [attempts[a] EXCEPT !.status = "cancelled", !.due = TRUE,
                                           !.token = NoPoller, !.held = FALSE]
      OBVIOUS
    <2>2. attempts' = [attempts EXCEPT ![a] = x] /\ attempts[a].status = "starting"
          /\ show(a, "OBSERVATION_CANCELLED") /\ "OBSERVATION_CANCELLED" \in Runtime
      BY <1>4, <2>1 DEF CancelObservation, Runtime
    <2>3. RowOK(attempts[a], x)
      BY <1>2, <2>1, <2>2, RowWritesOK
    <2>4. ConnOK
      BY <2>2, ShowOK
    <2> QED
      BY <1>3, <2>2, <2>3, <2>4
  <1>5. CASE ResumeObservation(a) /\ attempts[a].past
    <2>1. attempts' = [attempts EXCEPT ![a] = finish(attempts[a], "timed_out")] /\ conn' = conn
      BY <1>5 DEF ResumeObservation
    <2>2. RowOK(attempts[a], finish(attempts[a], "timed_out"))
      BY <1>2, FinishOK
    <2>3. ConnOK
      BY <2>1, Untouched
    <2> QED
      BY <1>3, <2>1, <2>2, <2>3
  <1>6. CASE ResumeObservation(a) /\ ~ attempts[a].past
    <2>1. attempts[a].status = "cancelled" /\ show(a, "STARTING") /\ "STARTING" \in Runtime
          /\ attempts' = [attempts EXCEPT ![a].status = "starting", ![a].due = TRUE]
      BY <1>6 DEF ResumeObservation, Runtime
    <2>2. PICK x : x = [attempts[a] EXCEPT !.status = "starting", !.due = TRUE]
      OBVIOUS
    <2>3. attempts' = [attempts EXCEPT ![a] = x]
      <3>1. attempts' = [[attempts EXCEPT ![a].status = "starting"] EXCEPT ![a].due = TRUE]
        BY <2>1
      <3>2. attempts \in Seq(Attempt)
        BY DEF IInv, Types
      <3> QED
        BY <2>2, <3>1, <3>2
    <2>4. RowOK(attempts[a], x)
      BY <1>2, <2>1, <2>2, RowWritesOK
    <2>5. ConnOK
      BY <2>1, ShowOK
    <2> QED
      BY <1>3, <2>3, <2>4, <2>5
  <1>7. CASE Time(a)
    <2>1. PICK x : /\ x \in {[attempts[a] EXCEPT !.past = TRUE], [attempts[a] EXCEPT !.due = TRUE],
                             [attempts[a] EXCEPT !.held = FALSE]}
                   /\ attempts' = [attempts EXCEPT ![a] = x] /\ conn' = conn
      BY <1>7 DEF Time, DeadlineComes, PollComes, LeaseExpires
    <2>2. RowOK(attempts[a], x)
      BY <1>2, <2>1, RowWritesOK
    <2>3. ConnOK
      BY <2>1, Untouched
    <2> QED
      BY <1>3, <2>1, <2>2, <2>3
  <1> QED
    BY <1>4, <1>5, <1>6, <1>7

\* The records of a poller.
LEMMA PollWrites ==
  ASSUME Sane, IInv, NEW p \in Pollers
  PROVE  /\ poll' = [poll EXCEPT ![p] = Resting] => PollOK
         /\ \A a \in DOMAIN attempts : /\ TableOK(attempts')
                                       /\ poll' = [poll EXCEPT ![p] =
                                            [pc |-> "load", att |-> a, ans |-> "none"]]
                                       => PollOK
         /\ \A ans \in Answers : /\ poll[p].pc # "idle" /\ TableOK(attempts')
                                 /\ poll' = [poll EXCEPT ![p].pc = "persist", ![p].ans = ans]
                                 => PollOK
         /\ /\ poll[p].pc # "idle" /\ TableOK(attempts')
            /\ poll' = [poll EXCEPT ![p].pc = "runtime"]
            => PollOK
  <1>1. poll \in [Pollers -> Poller] /\ PollTrue(p)
    BY DEF IInv, Types
  <1>2. TableOK(attempts') => DOMAIN attempts \subseteq DOMAIN attempts'
    BY DEF TableOK, IInv, Types
  <1>3. 0 \in 0 .. MaxAttempts /\ \A a \in DOMAIN attempts : a \in 0 .. MaxAttempts
    <2>1. attempts \in Seq(Attempt) /\ Len(attempts) <= MaxAttempts /\ MaxAttempts \in Nat
      BY DEF IInv, Types, Sane
    <2> QED
      BY <2>1
  <1>4. ASSUME poll' = [poll EXCEPT ![p] = Resting] PROVE PollOK
    BY <1>1, <1>3, <1>4 DEF PollOK, PollTrue, Poller, Resting, Answers
  <1>5. ASSUME NEW a \in DOMAIN attempts, TableOK(attempts'),
               poll' = [poll EXCEPT ![p] = [pc |-> "load", att |-> a, ans |-> "none"]]
        PROVE  PollOK
    <2>1. [pc |-> "load", att |-> a, ans |-> "none"] \in Poller
      BY <1>3 DEF Poller, Answers
    <2>2. poll' \in [Pollers -> Poller] /\ poll'[p].att = a
          /\ \A q \in Pollers : q # p => poll'[q] = poll[q]
      BY <1>1, <1>5, <2>1
    <2>3. PollTrue(p)'
      BY <1>2, <1>5, <2>2 DEF PollTrue
    <2> QED
      BY <2>2, <2>3 DEF PollOK
  <1>6. ASSUME NEW ans \in Answers, poll[p].pc # "idle", TableOK(attempts'),
               poll' = [poll EXCEPT ![p].pc = "persist", ![p].ans = ans]
        PROVE  PollOK
    <2>1. PICK mid : mid = [poll EXCEPT ![p].pc = "persist"]
      OBVIOUS
    <2>2. mid \in [Pollers -> Poller] /\ mid[p].att = poll[p].att
          /\ \A q \in Pollers : q # p => mid[q] = poll[q]
      BY <1>1, <2>1 DEF Poller
    <2>3. poll' = [mid EXCEPT ![p].ans = ans]
      BY <1>6, <2>1
    <2>4. poll' \in [Pollers -> Poller] /\ poll'[p].att = poll[p].att
          /\ \A q \in Pollers : q # p => poll'[q] = poll[q]
      BY <2>2, <2>3 DEF Poller
    <2>5. PollTrue(p)'
      BY <1>1, <1>2, <1>6, <2>4 DEF PollTrue
    <2> QED
      BY <2>4, <2>5 DEF PollOK
  <1>7. ASSUME poll[p].pc # "idle", TableOK(attempts'),
               poll' = [poll EXCEPT ![p].pc = "runtime"]
        PROVE  PollOK
    <2>1. poll' \in [Pollers -> Poller] /\ poll'[p].att = poll[p].att
          /\ \A q \in Pollers : q # p => poll'[q] = poll[q]
      BY <1>1, <1>7 DEF Poller
    <2>2. PollTrue(p)'
      BY <1>1, <1>2, <1>7, <2>1 DEF PollTrue
    <2> QED
      BY <2>1, <2>2 DEF PollOK
  <1> QED
    BY <1>4, <1>5, <1>6, <1>7

\* A poll: only the poller that the lease token names is heard.
LEMMA PollingStep ==
  ASSUME Sane, IInv, NEW p \in Pollers, PollStep(p) \/ PollerCrash(p)
  PROVE  IInv' /\ NoRevival
  <1>1. UNCHANGED <<compute, start, run>>
    BY DEF PollStep, Claim, Ask, Observe, ShowObserved, PollerCrash
  <1>2. ASSUME NEW a \in DOMAIN attempts, Claim(p, a) PROVE IInv' /\ NoRevival
    <2>1. PICK x : x = [attempts[a] EXCEPT !.token = p, !.held = TRUE]
      OBVIOUS
    <2>2. RowOK(attempts[a], x)
      BY <2>1, RowFacts, RowWritesOK
    <2>3. attempts' = [attempts EXCEPT ![a] = x]
      <3>1. attempts' = [[attempts EXCEPT ![a].token = p] EXCEPT ![a].held = TRUE]
        BY <1>2 DEF Claim
      <3>2. attempts \in Seq(Attempt)
        BY DEF IInv, Types
      <3> QED
        BY <2>1, <3>1, <3>2
    <2>4. TableOK(attempts')
      BY <2>2, <2>3, RowTable
    <2>5. PollOK
      BY <1>2, <2>4, PollWrites DEF Claim
    <2> QED
      BY <1>1, <1>2, <2>4, <2>5, Untouched, Carried DEF Claim
  <1>3. CASE Ask(p)
    <2>1. attempts' = attempts /\ conn' = conn /\ crashes' = crashes /\ poll[p].pc # "idle"
      BY <1>3 DEF Ask
    <2>2. TableOK(attempts')
      BY <2>1, Untouched
    <2>3. \/ poll' = [poll EXCEPT ![p] = Resting]
          \/ \E ans \in Answers : poll' = [poll EXCEPT ![p].pc = "persist", ![p].ans = ans]
      <3>1. /\ "fatal" \in Answers /\ "stale" \in Answers /\ provider_says \subseteq Answers
        BY DEF provider_says, Answers
      <3> QED
        BY <1>3, <3>1 DEF Ask
    <2>4. PollOK
      BY <2>1, <2>2, <2>3, PollWrites
    <2> QED
      BY <1>1, <2>1, <2>2, <2>4, Untouched, Carried
  <1>4. CASE Observe(p)
    <2>1. conn' = conn /\ crashes' = crashes /\ poll[p].pc # "idle"
      BY <1>4 DEF Observe
    <2>2. PICK a \in DOMAIN attempts : a = poll[p].att
      BY <2>1 DEF IInv, PollTrue
    <2>3. TableOK(attempts')
      <3>1. PICK x : x = observed(attempts[a], poll[p].ans)
        OBVIOUS
      <3>2. RowOK(attempts[a], x)
        BY <3>1, RowFacts, AnswersOK
      <3>3. attempts' = attempts \/ attempts' = [attempts EXCEPT ![a] = x]
        BY <1>4, <2>2, <3>1 DEF Observe
      <3> QED
        BY <3>2, <3>3, RowTable
    <2>4. PollOK
      BY <1>4, <2>1, <2>3, PollWrites DEF Observe
    <2> QED
      BY <1>1, <2>1, <2>3, <2>4, Untouched, Carried
  <1>5. CASE ShowObserved(p)
    <2>1. attempts' = attempts /\ crashes' = crashes /\ poll[p].pc # "idle"
          /\ poll' = [poll EXCEPT ![p] = Resting]
      BY <1>5 DEF ShowObserved
    <2>2. PICK a \in DOMAIN attempts : a = poll[p].att
      BY <2>1 DEF IInv, PollTrue
    <2>3. ConnOK
      <3>1. PICK runtime : runtime = runtime_of(attempts[a].status)
        OBVIOUS
      <3>2. runtime \in Runtime /\ show(a, runtime)
        BY <1>5, <2>2, <3>1 DEF ShowObserved, runtime_of, Runtime
      <3> QED
        BY <3>2, ShowOK
    <2> QED
      BY <1>1, <2>1, <2>3, PollWrites, Untouched, Carried
  <1>6. CASE PollerCrash(p)
    <2>1. attempts' = attempts /\ conn' = conn /\ crashes' = crashes + 1 /\ crashes < MaxCrashes
          /\ poll' = [poll EXCEPT ![p] = Resting]
      BY <1>6 DEF PollerCrash
    <2>2. RestOK
      BY <1>1, <2>1 DEF RestOK, IInv, Types, Sane
    <2> QED
      BY <1>1, <2>1, <2>2, PollWrites, Untouched, Carried
  <1> QED
    BY <1>2, <1>3, <1>4, <1>5, <1>6 DEF PollStep

------------------------------------------------------------------------------
(* The invariant and what it says.                                          *)

\* No attempt yet.
LEMMA InitInv ==
  ASSUME Sane, Init
  PROVE  IInv
  <1>1. 0 \in 0 .. MaxAttempts /\ 0 \in 0 .. MaxGen /\ 0 \in 0 .. MaxCrashes /\ 1 \in 1 .. MaxGen
    BY DEF Sane
  <1>2. DOMAIN attempts = {} /\ attempts \in Seq(Attempt) /\ Len(attempts) = 0
    <2>1. attempts = << >>
      BY DEF Init
    <2>2. << >> \in Seq(Attempt) /\ Len(<< >>) = 0
      OBVIOUS
    <2> QED
      BY <2>1, <2>2
  <1>3. conn \in [Owners -> Connection] /\ \A o \in Owners : conn[o].by = 0
    BY <1>1 DEF Init, Connection, Runtime
  <1>4. start \in [Starters -> Starter] /\ \A s \in Starters : start[s].pc = "idle"
    BY <1>1, IdleType DEF Init
  <1>5. run \in [Runs -> Startup]
    BY <1>1 DEF Init, Startup
  <1>6. poll \in [Pollers -> Poller] /\ \A p \in Pollers : poll[p].pc = "idle"
    BY <1>1 DEF Init, Poller, Resting, Answers
  <1>7. Types
    <2>1. compute = "STOPPED" /\ crashes = 0
      BY DEF Init
    <2>2. 0 <= MaxAttempts
      BY DEF Sane
    <2> QED
      BY <1>1, <1>2, <1>3, <1>4, <1>5, <1>6, <2>1, <2>2 DEF Types
  <1> QED
    BY <1>2, <1>3, <1>4, <1>6, <1>7 DEF IInv, Alone, StartTrue, PollTrue, ShownTrue, Asking

\* Every step keeps the invariant and revives no attempt.
LEMMA NextInv ==
  ASSUME Sane, IInv, [Next]_vars
  PROVE  IInv' /\ NoRevival
  <1>1. CASE UNCHANGED vars
    BY <1>1, Untouched, Carried DEF vars
  <1>2. ASSUME NEW o \in Owners, Rotate(o) \/ Delete(o) \/ Disable(o) PROVE IInv' /\ NoRevival
    BY <1>2, ConnectionStep
  <1>3. ASSUME NEW s \in Starters, Submit(s) PROVE IInv' /\ NoRevival
    BY <1>3, ReserveStep, AskStep, AnswerStep, ShowStep DEF Submit
  <1>4. ASSUME NEW s \in Manual, Load(s) \/ ManualStep(s) PROVE IInv' /\ NoRevival
    <2>1. s \in Starters
      BY DEF Starters
    <2> QED
      BY <1>3, <1>4, <2>1, LoadStep, MarkStep DEF ManualStep
  <1>5. ASSUME NEW r \in Runs, RunStep(r) PROVE IInv' /\ NoRevival
    <2>1. r \in Starters
      BY DEF Starters
    <2> QED
      BY <1>3, <1>5, <2>1, LoadStep, EndStep, AskStep DEF RunStep
  <1>6. ASSUME NEW a \in DOMAIN attempts, CancelObservation(a) \/ ResumeObservation(a) \/ Time(a)
        PROVE  IInv' /\ NoRevival
    BY <1>6, RowStep
  <1>7. ASSUME NEW p \in Pollers, PollStep(p) \/ PollerCrash(p) PROVE IInv' /\ NoRevival
    BY <1>7, PollingStep
  <1>8. ASSUME NEW s \in Starters, StarterCrash(s) PROVE IInv' /\ NoRevival
    BY <1>8, EndStep
  <1>9. CASE Provider
    <2>1. RestOK
      BY <1>9 DEF Provider, RestOK, IInv, Types
    <2> QED
      BY <1>9, <2>1, Untouched, Carried DEF Provider
  <1> QED
    BY <1>1, <1>2, <1>4, <1>5, <1>6, <1>7, <1>8, <1>9 DEF Next

\* The invariant implies the types, the fence and what the page shows.
LEMMA InvIsFenced ==
  ASSUME IInv
  PROVE  ComputeFenced
  <1>1. TypeOK
    BY DEF IInv, Types, TypeOK, Connection, Starter, Points, Startup, Poller
  <1>2. Cardinality(Active) <= 1
    <2>1. CASE Active = {}
      BY <2>1, FS_EmptySet
    <2>2. CASE Active # {}
      <3>1. PICK a : a \in Active
        BY <2>2
      <3>2. Active = {a}
        BY <3>1 DEF Active, IInv, Alone
      <3> QED
        BY <3>2, FS_Singleton
    <2> QED
      BY <2>1, <2>2
  <1>3. OneUnresolvedStart
    BY <1>2 DEF OneUnresolvedStart, IInv, RowOpen, Open
  <1>4. Manual = {} => RuntimeBelongs
    BY DEF IInv, ShownTrue, RuntimeBelongs
  <1> QED
    BY <1>1, <1>3, <1>4 DEF ComputeFenced

\* The inductive invariant holds in every reachable state.
THEOREM AttemptInvariant ==
  ASSUME Sane
  PROVE  Spec => []IInv
  <1>1. Init => IInv
    BY InitInv
  <1>2. IInv /\ [Next]_vars => IInv'
    BY NextInv
  <1> QED
    BY <1>1, <1>2, PTL DEF Spec

\* ComputeFenced for any owners, runs, threads, pollers, generations and crashes: the
\* unique active_key leaves at most one start of the compute unresolved, and when only
\* runs start it the runtime status shown for a saved connection was written for an
\* attempt of that connection and generation.
THEOREM FenceHolds ==
  ASSUME Sane
  PROVE  Spec => []ComputeFenced
  <1>1. IInv => ComputeFenced
    BY InvIsFenced
  <1> QED
    BY <1>1, AttemptInvariant, PTL

\* An attempt that released the fence never takes it back, whatever answer of the
\* provider, poll or resume comes late, and a run never gets a second deadline.
THEOREM AttemptsStayResolved ==
  ASSUME Sane
  PROVE  Spec => NothingRevived
  <1>1. IInv /\ [Next]_vars => [NoRevival]_vars
    BY NextInv
  <1> QED
    BY <1>1, AttemptInvariant, PTL DEF Spec, NothingRevived
==============================================================================
