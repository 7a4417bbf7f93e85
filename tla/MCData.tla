------------------------------- MODULE MCData -------------------------------
(***************************************************************************)
(* Small instances of what reads sources and writes destinations: the      *)
(* guardrail scan of a Databricks table and Foundry uploads, as Data has   *)
(* them; two or three PostgreSQL loads of one table (explicit keys beside  *)
(* an owned sequence, a removed column beside a late index, replacements   *)
(* beside appends, upserts, accounts that lack a privilege); Foundry       *)
(* listings, extractions and inspections; CSV profiles of one column and   *)
(* of stored uploads; the guardrail scan of Foundry files and of a         *)
(* PostgreSQL table. A behaviour is one part, chosen by Init; the          *)
(* components of Data stay in one initial state while another part is at   *)
(* work.                                                                   *)
(***************************************************************************)
EXTENDS Data, TLC

CONSTANTS
    a1, a2,       \* two loads, or two columns
    m1, m2, m3,   \* three loads
    k1            \* the column of a table or file

VARIABLES
    part,  \* the part at work
    \* the PostgreSQL loads
    mode, source, order, removed, casts, step, grants, table, seq, l_pc, l_seen, tlock,
    slock, tx, l_result, draw, draws, failures,
    \* Foundry sources
    tree, marks, apis, f_changes, op, want, f_pc, todo, version, trying, cursor, f_seen,
    pages, listed, sizes, kept, ever, asked, listings, queue, f_rows, emitted, fetched,
    markers, shown, f_result,
    \* CSV files
    reader, file, phase, types, populated, nulls, digits, scales, row_count, c_profile,
    upload, used, frame,
    \* the second scan
    live2, changes2, saved2, fresh2, at2, inspected2, schema2, ssn2, spool2, effective2,
    written2, marked2

loadVars == <<mode, source, order, removed, casts, step, grants, table, seq, l_pc, l_seen,
              tlock, slock, tx, l_result, draw, draws, failures>>
listVars == <<tree, marks, apis, f_changes, op, want, f_pc, todo, version, trying, cursor,
              f_seen, pages, listed, sizes, kept, ever, asked, listings, queue, f_rows,
              emitted, fetched, markers, shown, f_result>>
csvVars == <<reader, file, phase, types, populated, nulls, digits, scales, row_count,
             c_profile, upload, used, frame>>
scanVars2 == <<live2, changes2, saved2, fresh2, at2, inspected2, schema2, ssn2, spool2,
               effective2, written2, marked2>>
MCVars == <<part, vars, uploadVars, loadVars, listVars, csvVars, scanVars2>>

\* Privileges of the run account, and tables to start from.
Grants == {"create", "insert", "update", "select", "delete", "owner", "sequence",
           "sequence_owner"}
Kept(i) == [slot |-> <<"client", i>>, id |-> i, from |-> "client", pos |-> 0]
Serial == [oid |-> 1, rows |-> {}, uniq |-> {"id"}, cols |-> {"id", "extra"}, serial |-> TRUE]
Plain  == [oid |-> 1, rows |-> {Kept(0)}, uniq |-> {}, cols |-> {"id", "extra"}, serial |-> FALSE]
Keyed  == [oid |-> 1, rows |-> {Kept(1)}, uniq |-> {"id"}, cols |-> {"id", "extra"}, serial |-> FALSE]
Absent == [oid |-> 0, rows |-> {}, uniq |-> {}, cols |-> {}, serial |-> FALSE]

\* Datasets: the first files of the saved branch, and a full default branch.
Three == <<1, 2, 1>>
Upto(n) == [f \in 1 .. 4 |-> IF f <= n THEN Three ELSE <<0>>]
Dev(dev) == [b \in {"dev", "default"} |-> IF b = "dev" THEN dev ELSE [f \in 1 .. 4 |-> <<1>>]]
Only(branch) == [b \in {branch} |-> [f \in 1 .. 4 |-> <<1>>]]

\* Batches of the types whose combinations differ: integers of each sign, both
\* floats, decimals that do and do not fit 38 digits, a string, other names.
Batch(kind, a, b) == [type |-> [kind |-> kind, a |-> a, b |-> b],
                      scale |-> 0, digits |-> 0, size |-> 1, names |-> "same"]
Byte == Batch("int", 7, 7)
Used(batch, s, n) == [batch EXCEPT !.scale = s, !.digits = n]
UploadBatches ==
    {Byte, [Byte EXCEPT !.size = 2], [Byte EXCEPT !.names = "other"],
     Batch("int", 0, 8), Batch("int", 31, 31), Batch("int", 63, 63), Batch("int", 0, 64),
     Batch("float", 24, 0), Batch("float", 53, 0), Batch("other", "string", 0),
     Used(Batch("decimal", 38, 0), 0, 20), Used(Batch("decimal", 38, 19), 19, 1),
     Used(Batch("decimal", 10, 2), 2, 3)}

\* Cells of a CSV file; numbers at the edges of 64 bits and of 38 digits.
Text(form) == [form |-> form, digits |-> 0, scale |-> 0, int64 |-> FALSE]
Whole(n, fits) == [form |-> "int", digits |-> n, scale |-> 0, int64 |-> fits]
Dec(n, s) == [form |-> "dec", digits |-> n, scale |-> s, int64 |-> FALSE]
Cells ==
    {Text(form) : form \in {"blank", "boolean", "date", "datetime", "datetime_tz", "time",
                            "zoned_time", "padded", "huge", "long"}}
    \cup {Whole(1, TRUE), Whole(19, FALSE), Whole(38, FALSE), Whole(39, FALSE), Dec(1, 2),
          Dec(20, 0), Dec(0, 19), Dec(0, 38), Dec(0, 39)}

Sequence == INSTANCE PostgresLoad
    WITH Loads <- {a1, a2}, Modes <- {"append", "replace"},
         Sources <- {<<2>>, <<1, 3>>}, Steps <- {1, -1}, Tables <- {Serial},
         GrantSets <- {Grants}, KeyOrders <- {"same"}, Removing <- {}, TextLoads <- {},
         Outside <- {"insert"}, MaxDraws <- 2, MaxFailures <- 1,
         pc <- l_pc, seen <- l_seen, result <- l_result

Remove == INSTANCE PostgresLoad
    WITH Loads <- {a1, a2}, Modes <- {"append", "recreate"}, Sources <- {<<2>>}, Steps <- {1},
         Tables <- {Plain, Keyed}, GrantSets <- {Grants}, KeyOrders <- {"same"},
         Removing <- {a1, a2}, TextLoads <- {a1, a2}, Outside <- {"index"}, MaxDraws <- 0,
         MaxFailures <- 1,
         pc <- l_pc, seen <- l_seen, result <- l_result

Replace == INSTANCE PostgresLoad
    WITH Loads <- {m1, m2, m3}, Modes <- {"append", "replace", "recreate"},
         Sources <- {<<1>>, <<0>>}, Steps <- {1}, Tables <- {Keyed, Absent},
         GrantSets <- {Grants}, KeyOrders <- {"same"}, Removing <- {}, TextLoads <- {},
         Outside <- {}, MaxDraws <- 0, MaxFailures <- 0,
         pc <- l_pc, seen <- l_seen, result <- l_result

Upsert == INSTANCE PostgresLoad
    WITH Loads <- {a1, a2}, Modes <- {"update", "ignore", "replace"},
         Sources <- {<<1, 1>>, <<0, 1>>, <<2, 1>>}, Steps <- {1}, Tables <- {Keyed},
         GrantSets <- {Grants}, KeyOrders <- {"same"}, Removing <- {}, TextLoads <- {},
         Outside <- {}, MaxDraws <- 0, MaxFailures <- 1,
         pc <- l_pc, seen <- l_seen, result <- l_result

Privileges == INSTANCE PostgresLoad
    WITH Loads <- {a1, a2}, Modes <- {"append", "update", "ignore", "replace"},
         Sources <- {<<2>>}, Steps <- {1}, Tables <- {Plain, Keyed, Serial},
         GrantSets <- {Grants} \cup {Grants \ {g} : g \in Grants \ {"select", "sequence_owner"}},
         KeyOrders <- {"same"}, Removing <- {}, TextLoads <- {}, Outside <- {}, MaxDraws <- 0,
         MaxFailures <- 0,
         pc <- l_pc, seen <- l_seen, result <- l_result

Extract == INSTANCE FoundrySource
    WITH Files <- {1, 2, 3, 4}, Supported <- {1, 2, 4}, Contents <- {<<1>>, <<1, 4>>},
         Trees <- {Dev(Upto(n)) : n \in {0, 3, 4}}, Marks <- {}, Direct <- {}, Named <- {},
         Ops <- {"extract"},
         Wanted <- {[branch |-> "dev", paths |-> p] : p \in {<<>>, <<2, 1>>}},
         Apis <- {{1}, {1, 2}}, Faults <- {"error"}, PageSize <- 1, MaxPages <- 3,
         MaxFiles <- 4, BatchRows <- 2, BatchBytes <- 3, PreviewBytes <- 3, MaxBytes <- 5,
         MaxChanges <- 2,
         changes <- f_changes, pc <- f_pc, seen <- f_seen, rows <- f_rows, result <- f_result

Inspect == INSTANCE FoundrySource
    WITH Files <- {1, 2, 3, 4}, Supported <- {1, 2, 3}, Contents <- {<<1>>, Three},
         Trees <- {Dev(Upto(n)) : n \in {0, 3, 4}} \cup {Only("main"), Only("other")},
         Marks <- {1, 2, 3}, Direct <- {1}, Named <- {2},
         Ops <- {"inspect", "preflight", "browse", "test"},
         Wanted <- {[branch |-> "dev", paths |-> p] : p \in {<<>>, <<1>>}},
         Apis <- {{2}, {1, 2}}, Faults <- {"error", "repeat"}, PageSize <- 1,
         MaxPages <- 4, MaxFiles <- 3, BatchRows <- 2, BatchBytes <- 3, PreviewBytes <- 3,
         MaxBytes <- 5, MaxChanges <- 1,
         changes <- f_changes, pc <- f_pc, seen <- f_seen, rows <- f_rows, result <- f_result

Column == INSTANCE CsvSource
    WITH Cells <- Cells, Columns <- 1, RowWidths <- {0, 1}, MaxRows <- 3,
         Readers <- {"upload", "foundry"}, Stored <- {"current"},
         profile <- c_profile

Stored == INSTANCE CsvSource
    WITH Cells <- {Text("blank"), Text("date"), Text("datetime_tz"), Whole(1, TRUE), Dec(1, 2)},
         Columns <- 2, RowWidths <- {0, 1, 2}, MaxRows <- 2, Readers <- {"upload", "foundry"},
         Stored <- {"current", "no_dialect", "no_timezone", "no_precision", "broken", "gone"},
         profile <- c_profile

Foundry == INSTANCE GuardrailScan
    WITH Columns <- {k1}, Provider <- "foundry", MaxBatches <- 2, MaxChanges <- 1,
         Casting <- FALSE,
         live <- live2, changes <- changes2, saved <- saved2, fresh <- fresh2, at <- at2,
         inspected <- inspected2, schema <- schema2, ssn <- ssn2, spool <- spool2,
         effective <- effective2, written <- written2, marked <- marked2

Postgres == INSTANCE GuardrailScan
    WITH Columns <- {a1, a2}, Provider <- "postgres", MaxBatches <- 1, MaxChanges <- 1,
         Casting <- TRUE,
         live <- live2, changes <- changes2, saved <- saved2, fresh <- fresh2, at <- at2,
         inspected <- inspected2, schema <- schema2, ssn <- ssn2, spool <- spool2,
         effective <- effective2, written <- written2, marked <- marked2

\* A variable of a part that is not at work.
Off(v) == v = "off"
NoLoad ==
    /\ Off(mode) /\ Off(source) /\ Off(order) /\ Off(removed) /\ Off(casts) /\ Off(step)
    /\ Off(grants) /\ Off(table) /\ Off(seq) /\ Off(l_pc) /\ Off(l_seen) /\ Off(tlock)
    /\ Off(slock) /\ Off(tx) /\ Off(l_result) /\ Off(draw) /\ Off(draws) /\ Off(failures)
NoList ==
    /\ Off(tree) /\ Off(marks) /\ Off(apis) /\ Off(f_changes) /\ Off(op) /\ Off(want)
    /\ Off(f_pc) /\ Off(todo) /\ Off(version) /\ Off(trying) /\ Off(cursor) /\ Off(f_seen)
    /\ Off(pages) /\ Off(listed) /\ Off(sizes) /\ Off(kept) /\ Off(ever) /\ Off(asked)
    /\ Off(listings) /\ Off(queue) /\ Off(f_rows) /\ Off(emitted) /\ Off(fetched)
    /\ Off(markers) /\ Off(shown) /\ Off(f_result)
NoCsv ==
    /\ Off(reader) /\ Off(file) /\ Off(phase) /\ Off(types) /\ Off(populated)
    /\ Off(nulls) /\ Off(digits) /\ Off(scales) /\ Off(row_count) /\ Off(c_profile)
    /\ Off(upload) /\ Off(used) /\ Off(frame)
NoScan2 ==
    /\ Off(live2) /\ Off(changes2) /\ Off(saved2) /\ Off(fresh2) /\ Off(at2)
    /\ Off(inspected2) /\ Off(schema2) /\ Off(ssn2) /\ Off(spool2) /\ Off(effective2)
    /\ Off(written2) /\ Off(marked2)

\* The components of Data before they start: an empty source, an upload to a
\* deployment with the current API.
ScanRests ==
    /\ live = [cols |-> Columns, marked |-> {}, table |-> FALSE, data |-> <<>>]
    /\ Init /\ saved.keys = {}
UploadRests == Upload!Init /\ job = "upload" /\ deployment = "v2"

MCInit ==
    \/ /\ \/ part = "databricks" /\ Init /\ UploadRests
          \/ part = "upload" /\ Upload!Init /\ ScanRests
       /\ NoLoad /\ NoList /\ NoCsv /\ NoScan2
    \/ /\ ScanRests /\ UploadRests
       /\ \/ /\ \/ part = "sequence" /\ Sequence!Init
                \/ part = "remove" /\ Remove!Init
                \/ part = "replace" /\ Replace!Init
                \/ part = "upsert" /\ Upsert!Init
                \/ part = "grants" /\ Privileges!Init
             /\ NoList /\ NoCsv /\ NoScan2
          \/ /\ \/ part = "extract" /\ Extract!Init
                \/ part = "inspect" /\ Inspect!Init
             /\ NoLoad /\ NoCsv /\ NoScan2
          \/ /\ \/ part = "column" /\ Column!Init
                \/ part = "stored" /\ Stored!Init
             /\ NoLoad /\ NoList /\ NoScan2
          \/ /\ \/ part = "foundry" /\ Foundry!Init
                \/ part = "postgres" /\ Postgres!Init
             /\ NoLoad /\ NoList /\ NoCsv

MCNext ==
    \/ /\ part = "databricks" /\ Next
       /\ UNCHANGED <<part, uploadVars, loadVars, listVars, csvVars, scanVars2>>
    \/ /\ part = "upload" /\ Upload!Next
       /\ UNCHANGED <<part, vars, loadVars, listVars, csvVars, scanVars2>>
    \/ /\ \/ part = "sequence" /\ Sequence!Next
          \/ part = "remove" /\ Remove!Next
          \/ part = "replace" /\ Replace!Next
          \/ part = "upsert" /\ Upsert!Next
          \/ part = "grants" /\ Privileges!Next
       /\ UNCHANGED <<part, vars, uploadVars, listVars, csvVars, scanVars2>>
    \/ /\ \/ part = "extract" /\ Extract!Next
          \/ part = "inspect" /\ Inspect!Next
       /\ UNCHANGED <<part, vars, uploadVars, loadVars, csvVars, scanVars2>>
    \/ /\ \/ part = "column" /\ Column!Next
          \/ part = "stored" /\ Stored!Next
       /\ UNCHANGED <<part, vars, uploadVars, loadVars, listVars, scanVars2>>
    \/ /\ \/ part = "foundry" /\ Foundry!Next
          \/ part = "postgres" /\ Postgres!Next
       /\ UNCHANGED <<part, vars, uploadVars, loadVars, listVars, csvVars>>

MCSpec == MCInit /\ [][MCNext]_MCVars

\* The loads of a part are alike, and so are the columns that a scan meets.
Symmetry == Permutations({a1, a2}) \cup Permutations({m1, m2, m3})

-----------------------------------------------------------------------------
\* However nextval, the boundary query, ALTER SEQUENCE and an outside insert
\* interleave, a sequence never hands out a key that a committed load put in the
\* table (finalize, _reserve_sequence_values); a load that did not commit left neither
\* rows nor a dropped column behind (abort_destination); a load whose readiness check
\* passed is not refused later for a privilege or a key, while nobody changes the
\* table's definition (preflight_destination).
LoadsSafe ==
    /\ part = "sequence" => /\ Sequence!TypeOK /\ Sequence!KeysReserved
                            /\ Sequence!FailureLeavesNothing /\ Sequence!PreflightSuffices
    /\ part = "remove" => Remove!FailureLeavesNothing
    /\ part = "replace" => Replace!FailureLeavesNothing
    /\ part = "upsert" => Upsert!FailureLeavesNothing /\ Upsert!PreflightSuffices
    /\ part = "grants" => Privileges!PreflightSuffices

\* What a commit may never do to the data of others: drop a unique index that
\* another session made before the lock, report as exact a replacement whose count
\* saw somebody else's rows, keep an earlier row of an upserted key, lose rows
\* without a key (finalize, _reconcile_write_result).
CommitsKeepOthers ==
    [][/\ part = "remove" => Remove!KeysKept
       /\ part = "replace" => Replace!ReplaceVerified
       /\ part = "upsert" => Upsert!LastRowWins /\ Upsert!UpsertKeepsOthers]_MCVars

\* What is read is what the source holds. While other clients change the dataset
\* between two requests, a listing misses nothing that stayed, a read uses one API
\* version and the saved branch, and an extraction hands on every selected row once, in
\* bounded batches; an inspection knows every marking that stayed (list_all_files,
\* iter_batches, inspect_dataset). The inferred type of a CSV column represents each of
\* its values and is the narrowest that does; a run parses a stored upload with exactly
\* the types and the rows of its scan, whichever release stored the profile (profile_csv,
\* read_upload). The scan of Foundry files and of a PostgreSQL table lets no number and
\* no marked column through in plain (scan_to_spool, load).
SourcesExact ==
    /\ part = "extract" => Extract!Safety
    /\ part = "inspect" => Inspect!Safety
    /\ part = "column" => Column!Safety
    /\ part = "stored" => Stored!Safety
    /\ part = "foundry" => Foundry!GuardrailHolds
    /\ part = "postgres" => Postgres!GuardrailHolds
=============================================================================
