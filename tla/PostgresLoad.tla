---------------------------- MODULE PostgresLoad ----------------------------
(***************************************************************************)
(* The PostgreSQL destination writer: readiness check, preparation, staged *)
(* batches, finalization and verification of several loads into one table, *)
(* statement by statement, against an outside client of the same table.    *)
(* The server is modelled at READ COMMITTED, from how the connector uses   *)
(* it: table locks, sequence locks, row locks and the unique index on id.  *)
(* A row keeps its slot when it is updated; a batch is one row, and the    *)
(* private staging table is the prefix of the source written so far.       *)
(***************************************************************************)
EXTENDS Integers, Sequences, FiniteSets, FiniteSetsExt

CONSTANTS
    Loads,        \* runs that write to the table
    Modes,        \* write policies: "append", "update", "ignore", "replace", "recreate"
    Sources,      \* source rows, as sequences of id values (0 is NULL)
    Steps,        \* increments of the owned sequence: 1, -1
    Tables,       \* destination tables to start from
    GrantSets,    \* privileges the run account may have
    KeyOrders,    \* saved upsert key in the constraint's column order, or not
    Removing,     \* loads that may remove the column "extra"
    TextLoads,    \* loads that may have no column but text ones
    Outside,      \* what the outside client does: "insert", "index", "create"
    MaxDraws,     \* bound: keys the outside client draws from the sequence
    MaxFailures   \* bound: statements and commits that fail

VARIABLES
    mode, source, order, removed, casts, step, grants,  \* a scenario, fixed by Init
    table,      \* the committed table: oid (0: absent), rows, uniq, cols, serial
    seq,        \* the next value of the table's sequence; nextval never rolls back
    pc,         \* where each load stands
    seen,       \* the table as the transfer and its preparation read it
    tlock,      \* table lock of each load: "none", "share", "excl"
    slock,      \* sequence lock of each load and of the client
    tx,         \* the uncommitted work of each load's transaction
    result,     \* what the load reports
    draw,       \* the key the outside client drew and has not inserted (0: none)
    draws, failures

scenario == <<mode, source, order, removed, casts, step, grants>>
locks    == <<tlock, slock>>
vars     == <<scenario, table, seq, pc, seen, locks, tx, result, draw, draws, failures>>

None  == 0
Fresh == [staged |-> 0, dead |-> {}, upd |-> {}, born |-> {}, snap |-> {},
          bound |-> 0, restart |-> 0, creates |-> FALSE, drops |-> FALSE,
          loaded |-> 0, expected |-> -1]
Upserts == {"update", "ignore"}
Client  == "client"

Init ==
    /\ mode \in [Loads -> Modes]
    /\ step \in Steps
    /\ source \in [Loads -> {[i \in DOMAIN s |-> step * s[i]] : s \in Sources}]
    /\ order \in [Loads -> KeyOrders]
    /\ removed \in SUBSET Removing
    /\ casts \in {Loads \ t : t \in SUBSET TextLoads}
    /\ grants \in GrantSets
    /\ table \in Tables
    /\ seq = step
    /\ pc = [l \in Loads |-> "check"]
    /\ seen = [l \in Loads |-> [oid |-> 0, serial |-> FALSE, rows |-> 0]]
    /\ tlock = [l \in Loads |-> "none"]
    /\ slock = [x \in Loads \cup {Client} |-> "none"]
    /\ tx = [l \in Loads |-> Fresh]
    /\ result = [l \in Loads |-> [status |-> "running", level |-> "none", checked |-> FALSE]]
    /\ draw = None /\ draws = 0 /\ failures = 0

-----------------------------------------------------------------------------
(* The server: locks, visibility, sequence order.                          *)

others(l)      == Loads \ {l}
excl_free(l)   == \A m \in others(l) : tlock[m] # "excl"
table_free(l)  == \A m \in others(l) : tlock[m] = "none"
seq_free(x)    == \A y \in DOMAIN slock \ {x} : slock[y] = "none"
further(a, b)  == IF step > 0 THEN a > b ELSE a < b
furthest(S)    == IF step > 0 THEN Max(S) ELSE Min(S)
ids(R)         == {r.id : r \in R} \ {None}
slots(R)       == {r.slot : r \in R}
staged_ids(l)  == {source[l][i] : i \in 1..tx[l].staged} \ {None}
own_row(l, i)  == [slot |-> <<l, i>>, id |-> source[l][i], from |-> l, pos |-> i]
own_rows(l)    == {own_row(l, i) : i \in 1..tx[l].staged}
\* Keys another open transaction has inserted, updated or deleted.
held_ids(m)    == ids(tx[m].born \cup tx[m].upd \cup {r \in table.rows : r.slot \in tx[m].dead})
held_slots(m)  == tx[m].dead \cup slots(tx[m].upd)
keyed          == "id" \in table.uniq
key_wait(l, K) == keyed /\ \E m \in others(l) : held_ids(m) \cap K # {}
left(l)        == {r \in table.rows : r.slot \notin tx[l].dead}

-----------------------------------------------------------------------------
(* Readiness and preparation.                                              *)

recreates(l) == mode[l] = "recreate"

\* The privileges preflight_destination asks for before it reads the schema.
preflight_grants(l) ==
    {"create"} \cup
    (IF table.oid = 0 THEN {} ELSE
        (IF recreates(l) THEN {} ELSE {"insert"})
        \cup (IF mode[l] = "update" THEN {"update", "select"} ELSE {})
        \cup (IF mode[l] = "ignore" THEN {"select"} ELSE {})
        \cup (IF mode[l] \in {"replace", "recreate"} THEN {"owner"} ELSE {})
        \cup (IF mode[l] = "replace" THEN {"delete"} ELSE {})
        \cup (IF l \in removed /\ ~recreates(l) /\ "extra" \in table.cols THEN {"owner"} ELSE {}))

\* _reject_removed_destination_keys.
key_removed(l) == l \in removed /\ "extra" \in table.uniq

\* The facts preflight_destination reads once the privileges are there.
preflight_facts(l) ==
    IF table.oid = 0 THEN mode[l] \notin Upserts
    ELSE \/ recreates(l)
         \/ /\ ~key_removed(l)
            /\ table.serial => "sequence" \in grants
            /\ mode[l] \in Upserts => keyed

wrong_keeps_transaction(l, why) ==
    /\ pc' = [pc EXCEPT ![l] = "done"]
    /\ result' = [result EXCEPT ![l].status = why]
    /\ UNCHANGED <<locks, tx>>

refuse(l, why) ==
    /\ pc' = [pc EXCEPT ![l] = "done"]
    /\ result' = [result EXCEPT ![l].status = why]
    /\ tlock' = [tlock EXCEPT ![l] = "none"]
    /\ slock' = [slock EXCEPT ![l] = "none"]
    /\ tx' = [tx EXCEPT ![l] = Fresh]

\* Read only, before the run is queued.
Preflight(l) ==
    /\ pc[l] = "check" /\ excl_free(l)
    /\ IF preflight_grants(l) \subseteq grants /\ preflight_facts(l)
       THEN /\ result' = [result EXCEPT ![l].checked = TRUE]
            /\ pc' = [pc EXCEPT ![l] = "begin"]
            /\ UNCHANGED <<locks, tx>>
       ELSE refuse(l, "not_ready")
    /\ UNCHANGED <<scenario, table, seq, seen, draw, draws, failures>>

\* The worker counts the rows and inspects the destination; its own check of
\* the saved upsert key compares the columns' order too.
BeginTransfer(l) ==
    /\ pc[l] = "begin" /\ excl_free(l)
    /\ seen' = [seen EXCEPT ![l].rows = Cardinality(table.rows)]
    /\ IF mode[l] \in Upserts /\ ~(keyed /\ order[l] = "same")
       THEN refuse(l, "drift")
       ELSE pc' = [pc EXCEPT ![l] = "prepare"] /\ UNCHANGED <<locks, tx, result>>
    /\ UNCHANGED <<scenario, table, seq, draw, draws, failures>>

\* Asking the planner whether the columns can be cast locks the table; a
\* source of text columns asks nothing.
planner_locks(l) == table.oid # 0 /\ l \in casts

\* prepare_destination up to CREATE; catalog reads take no lock on the table.
ReadCatalog(l) ==
    /\ pc[l] = "prepare"
    /\ CASE recreates(l) ->
              pc' = [pc EXCEPT ![l] = "write"] /\ UNCHANGED <<seen, locks, tx, result>>
         [] ~recreates(l) /\ mode[l] \in Upserts /\ (table.oid = 0 \/ ~keyed) ->
              refuse(l, "drift") /\ UNCHANGED seen
         [] ~recreates(l) /\ table.serial /\ "sequence" \notin grants ->
              refuse(l, "denied") /\ UNCHANGED seen
         [] OTHER ->
              /\ planner_locks(l) => excl_free(l)
              /\ seen' = [seen EXCEPT ![l].oid = table.oid, ![l].serial = table.serial]
              /\ tlock' = [tlock EXCEPT ![l] = IF planner_locks(l) THEN "share" ELSE "none"]
              /\ pc' = [pc EXCEPT ![l] = "take"]
              /\ UNCHANGED <<slock, tx, result>>
    /\ UNCHANGED <<scenario, table, seq, draw, draws, failures>>

\* CREATE TABLE IF NOT EXISTS waits for another session's uncommitted CREATE;
\* CREATE TABLE ... LIKE needs SELECT on the destination.
TakeTable(l) ==
    /\ pc[l] = "take" /\ excl_free(l)
    /\ LET next == [pc EXCEPT ![l] = IF l \in removed THEN "lock" ELSE "write"] IN
       CASE table.oid = 0 ->
              /\ tx' = [tx EXCEPT ![l].creates = TRUE]
              /\ tlock' = [tlock EXCEPT ![l] = "excl"]
              /\ pc' = next /\ UNCHANGED <<slock, result>>
         [] table.oid # 0 /\ l \notin removed /\ "select" \notin grants ->
              refuse(l, "denied")
         [] OTHER ->
              /\ tlock' = [tlock EXCEPT ![l] = IF l \in removed THEN @ ELSE "share"]
              /\ pc' = next /\ UNCHANGED <<slock, tx, result>>
    /\ UNCHANGED <<scenario, table, seq, seen, draw, draws, failures>>

LockTable(l) ==
    /\ pc[l] = "lock" /\ table_free(l)
    /\ tlock' = [tlock EXCEPT ![l] = "excl"]
    /\ pc' = [pc EXCEPT ![l] = "keys"]
    /\ UNCHANGED <<scenario, table, seq, seen, slock, tx, result, draw, draws, failures>>

\* _reject_removed_destination_keys under the lock, then the staging table
\* and the column drops, all in the load's transaction.
DropRemoved(l) ==
    /\ pc[l] = "keys"
    /\ CASE ~tx[l].creates /\ key_removed(l) -> refuse(l, "drift")
         [] ~tx[l].creates /\ ~key_removed(l) /\ "select" \notin grants ->
              refuse(l, "denied")
         [] OTHER -> /\ tx' = [tx EXCEPT ![l].drops = ~tx[l].creates]
                     /\ pc' = [pc EXCEPT ![l] = "write"]
                     /\ UNCHANGED <<locks, result>>
    /\ UNCHANGED <<scenario, table, seq, seen, draw, draws, failures>>

WriteBatch(l) ==
    /\ pc[l] = "write"
    /\ IF tx[l].staged < Len(source[l])
       THEN tx' = [tx EXCEPT ![l].staged = @ + 1] /\ UNCHANGED pc
       ELSE /\ pc' = [pc EXCEPT ![l] = IF seen[l].serial THEN "boundary" ELSE "apply"]
            /\ UNCHANGED tx
    /\ UNCHANGED <<scenario, table, seq, seen, locks, result, draw, draws, failures>>

-----------------------------------------------------------------------------
(* Finalization: the owned sequence first.                                 *)

sequence_boundary(l) == ids(table.rows) \cup staged_ids(l)

SequenceBoundary(l) ==
    /\ pc[l] = "boundary" /\ excl_free(l)
    /\ IF ~table.serial \/ "sequence" \notin grants THEN refuse(l, "drift")
       ELSE /\ IF sequence_boundary(l) = {}
               THEN pc' = [pc EXCEPT ![l] = "apply"] /\ UNCHANGED tx
               ELSE /\ tx' = [tx EXCEPT ![l].bound = furthest(sequence_boundary(l))]
                    /\ pc' = [pc EXCEPT ![l] = "nextval"]
            /\ tlock' = [tlock EXCEPT ![l] = IF @ = "none" THEN "share" ELSE @]
            /\ UNCHANGED <<slock, result>>
    /\ UNCHANGED <<scenario, table, seq, seen, draw, draws, failures>>

NextVal(l) ==
    /\ pc[l] = "nextval"
    /\ \A y \in DOMAIN slock \ {l} : slock[y] # "excl"
    /\ seq' = seq + step
    /\ IF further(tx[l].bound, seq) /\ "sequence_owner" \notin grants
       THEN refuse(l, "denied")
       ELSE /\ slock' = [slock EXCEPT ![l] = "share"]
            /\ pc' = [pc EXCEPT ![l] = IF further(tx[l].bound, seq) THEN "alter" ELSE "apply"]
            /\ UNCHANGED <<tlock, tx, result>>
    /\ UNCHANGED <<scenario, table, seen, draw, draws, failures>>

AlterSequence(l) ==
    /\ pc[l] = "alter" /\ seq_free(l)
    /\ slock' = [slock EXCEPT ![l] = "excl"]
    /\ pc' = [pc EXCEPT ![l] = "restart"]
    /\ UNCHANGED <<scenario, table, seq, seen, tlock, tx, result, draw, draws, failures>>

wrong_restart_at_boundary(l) ==
    /\ pc[l] = "restart"
    /\ tx' = [tx EXCEPT ![l].restart = furthest(sequence_boundary(l))]
    /\ pc' = [pc EXCEPT ![l] = "apply"]
    /\ UNCHANGED <<scenario, table, seq, seen, locks, result, draw, draws, failures>>

\* RESTART is transactional: it takes effect when the load commits.
RestartSequence(l) ==
    /\ pc[l] = "restart"
    /\ LET latest == furthest(sequence_boundary(l))
           at     == IF further(latest + step, seq) THEN latest + step ELSE seq
       IN tx' = [tx EXCEPT ![l].restart = IF at = seq THEN 0 ELSE at]
    /\ pc' = [pc EXCEPT ![l] = "apply"]
    /\ UNCHANGED <<scenario, table, seq, seen, locks, result, draw, draws, failures>>

-----------------------------------------------------------------------------
(* Finalization: the statements of each write policy.                      *)

share_up(l) == tlock' = [tlock EXCEPT ![l] = IF @ = "none" THEN "share" ELSE @]

duplicate(l) ==
    /\ keyed
    /\ \/ ids(left(l)) \cap staged_ids(l) # {}
       \/ \E i, j \in 1..tx[l].staged : i # j /\ source[l][i] = source[l][j] /\ source[l][i] # None

\* INSERT INTO dest SELECT FROM stage, for append and after a replace's DELETE.
Insert(l) ==
    /\ pc[l] = IF mode[l] = "append" THEN "apply" ELSE "insert"
    /\ mode[l] \in {"append", "replace"}
    /\ excl_free(l) /\ ~key_wait(l, staged_ids(l))
    /\ IF duplicate(l) THEN refuse(l, "conflict")
       ELSE /\ tx' = [tx EXCEPT ![l].born = own_rows(l), ![l].loaded = tx[l].staged]
            /\ share_up(l)
            /\ pc' = [pc EXCEPT ![l] = "commit"]
            /\ UNCHANGED <<slock, result>>
    /\ UNCHANGED <<scenario, table, seq, seen, draw, draws, failures>>

wrong_first_wins(l) ==
    {r \in own_rows(l) : r.id = None \/ \A q \in own_rows(l) : q.id = r.id => q.pos >= r.pos}

\* Rows without a key, and the last staged row of every key.
upsert_source(l) ==
    {r \in own_rows(l) : r.id = None \/ \A q \in own_rows(l) : q.id = r.id => q.pos <= r.pos}

UpsertRows(l) ==
    /\ pc[l] = "apply" /\ mode[l] \in Upserts
    /\ excl_free(l) /\ ~key_wait(l, staged_ids(l))
    /\ LET S     == upsert_source(l)
           met   == {r \in S : r.id # None /\ r.id \in ids(table.rows)}
           old(r) == CHOOSE o \in table.rows : o.id = r.id
           news  == {[r EXCEPT !.slot = old(r).slot] : r \in met}
       IN IF mode[l] = "update"
          THEN tx' = [tx EXCEPT ![l].upd = news, ![l].born = S \ met,
                                ![l].loaded = Cardinality(S), ![l].expected = Cardinality(S)]
          ELSE tx' = [tx EXCEPT ![l].born = S \ met, ![l].loaded = Cardinality(S \ met)]
    /\ share_up(l)
    /\ pc' = [pc EXCEPT ![l] = "commit"]
    /\ UNCHANGED <<scenario, table, seq, seen, slock, result, draw, draws, failures>>

\* DELETE FROM dest: it sees the rows committed when it starts, and waits for
\* the transactions that hold one of them.
DeleteStarts(l) ==
    /\ pc[l] = "apply" /\ mode[l] = "replace" /\ excl_free(l)
    /\ tx' = [tx EXCEPT ![l].snap = slots(table.rows)]
    /\ share_up(l)
    /\ pc' = [pc EXCEPT ![l] = "delete"]
    /\ UNCHANGED <<scenario, table, seq, seen, slock, result, draw, draws, failures>>

DeleteRows(l) ==
    /\ pc[l] = "delete"
    /\ \A m \in others(l) : held_slots(m) \cap tx[l].snap = {}
    /\ tx' = [tx EXCEPT ![l].dead = tx[l].snap \cap slots(table.rows), ![l].snap = {}]
    /\ pc' = [pc EXCEPT ![l] = "insert"]
    /\ UNCHANGED <<scenario, table, seq, seen, locks, result, draw, draws, failures>>

\* DROP TABLE and RENAME of the staging table.
SwapTable(l) ==
    /\ pc[l] = "apply" /\ recreates(l) /\ table_free(l)
    /\ tlock' = [tlock EXCEPT ![l] = "excl"]
    /\ tx' = [tx EXCEPT ![l].born = own_rows(l), ![l].loaded = tx[l].staged, ![l].creates = TRUE]
    /\ pc' = [pc EXCEPT ![l] = "commit"]
    /\ UNCHANGED <<scenario, table, seq, seen, slock, result, draw, draws, failures>>

-----------------------------------------------------------------------------
(* Commit, verification and failure.                                       *)

committed(l) ==
    IF tx[l].creates
    THEN [oid |-> table.oid + 1, rows |-> tx[l].born, uniq |-> {"id"},
          cols |-> {"id"}, serial |-> FALSE]
    ELSE [table EXCEPT
            !.rows = {r \in table.rows : r.slot \notin held_slots(l)} \cup tx[l].upd \cup tx[l].born,
            !.uniq = IF tx[l].drops THEN @ \ {"extra"} ELSE @,
            !.cols = IF tx[l].drops THEN @ \ {"extra"} ELSE @]

apply_commit(l) ==
    /\ table' = committed(l)
    /\ seq' = IF tx[l].restart # 0 THEN tx[l].restart ELSE seq

release(l) ==
    /\ tlock' = [tlock EXCEPT ![l] = "none"]
    /\ slock' = [slock EXCEPT ![l] = "none"]

Commit(l) ==
    /\ pc[l] = "commit"
    /\ apply_commit(l) /\ release(l)
    /\ tx' = [tx EXCEPT ![l] = [Fresh EXCEPT !.staged = tx[l].staged, !.loaded = tx[l].loaded,
                                             !.expected = tx[l].expected]]
    /\ pc' = [pc EXCEPT ![l] = "count"]
    /\ UNCHANGED <<scenario, seen, result, draw, draws, failures>>

\* The connection fails while COMMIT is under way: applied or not.
CommitUnconfirmed(l) ==
    /\ pc[l] = "commit" /\ failures < MaxFailures
    /\ \/ apply_commit(l)
       \/ UNCHANGED <<table, seq>>
    /\ refuse(l, "uncertain")
    /\ failures' = failures + 1
    /\ UNCHANGED <<scenario, seen, draw, draws>>

\* _reconcile_write_result over the count read after the commit.
reconciled(l, after) ==
    LET report(s, v) == [status |-> s, level |-> v, checked |-> result[l].checked]
        rows  == tx[l].staged
        count == "provider_write_count"
    IN CASE mode[l] \in {"append", "replace", "recreate"} /\ tx[l].loaded # rows ->
              report("unverified", count)
         [] mode[l] = "append" /\ tx[l].loaded = rows ->
              report("succeeded", IF after - seen[l].rows = rows THEN "exact" ELSE count)
         [] mode[l] \in {"replace", "recreate"} /\ tx[l].loaded = rows ->
              IF after = rows THEN report("succeeded", "exact") ELSE report("unverified", count)
         [] mode[l] = "update" /\ tx[l].expected >= 0 ->
              IF tx[l].loaded = tx[l].expected THEN report("succeeded", "exact")
              ELSE report("unverified", count)
         [] OTHER -> IF tx[l].loaded > rows THEN report("unverified", count)
                     ELSE report("succeeded", count)

Reconcile(l) ==
    /\ pc[l] = "count" /\ excl_free(l)
    /\ result' = [result EXCEPT ![l] = reconciled(l, Cardinality(table.rows))]
    /\ tx' = [tx EXCEPT ![l] = Fresh]
    /\ pc' = [pc EXCEPT ![l] = "done"]
    /\ UNCHANGED <<scenario, table, seq, seen, locks, draw, draws, failures>>

\* A statement fails or the run is cancelled: abort rolls the transaction back.
Abort(l) ==
    /\ pc[l] \notin {"check", "count", "done"} /\ failures < MaxFailures
    /\ failures' = failures + 1
    /\ refuse(l, "rolled_back")
    /\ UNCHANGED <<scenario, table, seq, seen, draw, draws>>

\* The server cancels one of two transactions that wait for each other's lock.
DeadlockDetected(l) ==
    /\ \/ pc[l] = "lock" /\ \E m \in others(l) : tlock[m] # "none" /\ pc[m] = "lock"
       \/ pc[l] = "alter" /\ \E m \in others(l) : slock[m] # "none" /\ pc[m] = "alter"
    /\ refuse(l, "rolled_back")
    /\ UNCHANGED <<scenario, table, seq, seen, draw, draws, failures>>

-----------------------------------------------------------------------------
(* The outside client.                                                     *)

ClientDraws ==
    /\ "insert" \in Outside /\ draws < MaxDraws /\ draw = None
    /\ table.serial /\ \A l \in Loads : tlock[l] # "excl" /\ slock[l] # "excl"
    /\ draw' = seq /\ seq' = seq + step /\ draws' = draws + 1
    /\ slock' = [slock EXCEPT ![Client] = "share"]
    /\ UNCHANGED <<scenario, table, pc, seen, tlock, tx, result, failures>>

ClientInserts ==
    /\ draw # None /\ \A l \in Loads : tlock[l] # "excl" /\ draw \notin held_ids(l)
    /\ table' = IF draw \in ids(table.rows) THEN table
                ELSE [table EXCEPT !.rows = @ \cup
                        {[slot |-> <<Client, draw>>, id |-> draw, from |-> Client, pos |-> 0]}]
    /\ draw' = None
    /\ slock' = [slock EXCEPT ![Client] = "none"]
    /\ UNCHANGED <<scenario, seq, pc, seen, tlock, tx, result, draws, failures>>

ClientIndexes ==
    /\ "index" \in Outside /\ "extra" \in table.cols \ table.uniq
    /\ \A l \in Loads : tlock[l] = "none"
    /\ table' = [table EXCEPT !.uniq = @ \cup {"extra"}]
    /\ UNCHANGED <<scenario, seq, pc, seen, locks, tx, result, draw, draws, failures>>

ClientCreates ==
    /\ "create" \in Outside /\ table.oid = 0 /\ \A l \in Loads : tlock[l] # "excl"
    /\ table' = [oid |-> 1, rows |-> {}, uniq |-> {"id"}, cols |-> {"id"}, serial |-> TRUE]
    /\ UNCHANGED <<scenario, seq, pc, seen, locks, tx, result, draw, draws, failures>>

\* Every load has ended and the client has nothing open.
Quiet ==
    /\ \A l \in Loads : pc[l] = "done"
    /\ draw = None
    /\ UNCHANGED vars

\* What a load does when its statements succeed.
LoadStep(l) ==
    \/ Preflight(l) \/ BeginTransfer(l) \/ ReadCatalog(l) \/ TakeTable(l) \/ LockTable(l)
    \/ DropRemoved(l) \/ WriteBatch(l)
    \/ SequenceBoundary(l) \/ NextVal(l) \/ AlterSequence(l) \/ RestartSequence(l)
    \/ Insert(l) \/ UpsertRows(l) \/ DeleteStarts(l) \/ DeleteRows(l) \/ SwapTable(l)
    \/ Commit(l) \/ Reconcile(l)

Next ==
    \/ \E l \in Loads : LoadStep(l) \/ CommitUnconfirmed(l) \/ Abort(l) \/ DeadlockDetected(l)
    \/ ClientDraws \/ ClientInserts \/ ClientIndexes \/ ClientCreates
    \/ Quiet

Spec == Init /\ [][Next]_vars

-----------------------------------------------------------------------------
(* Properties.                                                             *)

Row == [slot : (Loads \X Nat) \cup ({Client} \X Int), id : Int, from : Loads \cup {Client}, pos : Nat]

\* Shapes, and what the locks mean: a writer that holds the table or the
\* sequence exclusively is alone, and a slot belongs to one row.
TypeOK ==
    /\ table.oid \in Nat /\ \A r \in table.rows : r \in Row
    /\ table.uniq \subseteq table.cols \cup {"id"}
    /\ \A r, q \in table.rows : r.slot = q.slot => r = q
    /\ seq \in Int /\ draw \in Int
    /\ \A l, m \in Loads : l # m /\ tlock[l] = "excl" => tlock[m] = "none"
    /\ \A x, y \in DOMAIN slock : x # y /\ slock[x] = "excl" => slock[y] = "none"
    /\ \A l \in Loads : pc[l] = "done" => tlock[l] = "none" /\ slock[l] = "none"

\* "Reserve keys for explicitly loaded sequence-backed columns": no key the
\* sequence will hand out is one a committed load put in the table.
KeysReserved ==
    table.serial => \A r \in table.rows :
        r.from \in Loads /\ r.id # None => further(seq, r.id)

\* Removing a column never drops a unique index that was there: the index may
\* be created by another session at any moment before the load's lock.
KeysKept == table'.oid = table.oid => table.uniq \subseteq table'.uniq

\* A load that ended without commit left neither rows nor a dropped column.
FailureLeavesNothing ==
    /\ \A r \in table.rows : r.from \in Loads =>
          \/ result[r.from].status \in {"succeeded", "unverified", "uncertain"}
          \/ pc[r.from] = "count"
    /\ table.oid = 1 /\ "extra" \notin table.cols /\ removed # {} =>
          \E l \in removed : \/ result[l].status \in {"succeeded", "unverified", "uncertain"}
                             \/ pc[l] = "count"

\* A replacement is reported as exactly verified only when the count saw a
\* table of its own rows, or one a later load has replaced altogether.
ReplaceVerified ==
    \A l \in Loads :
        /\ mode[l] \in {"replace", "recreate"}
        /\ result[l].level # "exact" /\ result'[l].level = "exact"
        => \/ \A r \in table.rows : r.slot[1] = l
           \/ \A r \in table.rows : r.slot[1] # l

\* An update upsert leaves, for each of its keys, one row: its last one.
LastRowWins ==
    \A l \in Loads :
        pc[l] = "commit" /\ pc'[l] = "count" /\ mode[l] = "update"
        => \A k \in staged_ids(l) :
             LET last == Max({i \in 1..tx[l].staged : source[l][i] = k})
             IN {<<r.from, r.pos>> : r \in {q \in table'.rows : q.id = k}} = {<<l, last>>}

\* Rows without a key and rows of other keys survive an upsert.
UpsertKeepsOthers ==
    \A l \in Loads :
        pc[l] = "commit" /\ pc'[l] = "count" /\ mode[l] \in Upserts
        => /\ \A r \in table.rows : r.id \notin staged_ids(l) => r \in table'.rows
           /\ \A i \in 1..tx[l].staged : source[l][i] = None => own_row(l, i) \in table'.rows

\* A load whose readiness check passed is not refused for a privilege or a
\* saved key later while nobody changes the table's definition.
PreflightSuffices ==
    \A l \in Loads :
        /\ result[l].checked
        /\ Outside \cap {"index", "create"} = {}
        /\ \A m \in Loads : ~recreates(m) /\ m \notin removed
        => result[l].status \notin {"denied", "drift"}

=============================================================================
