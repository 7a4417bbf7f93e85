------------------------------ MODULE CsvSource -----------------------------
(***************************************************************************)
(* CSV sources: the streaming profile of a file's columns, the profile     *)
(* stored with an upload (by this release or by an older one), and the     *)
(* types under which an upload or a Foundry file is read for a run.  A     *)
(* cell is its form, its digits before and after the decimal point, and    *)
(* whether it fits 64 bits.                                                *)
(***************************************************************************)
EXTENDS Integers, Sequences, FiniteSets, SequencesExt, FiniteSetsExt

CONSTANTS
    Cells,     \* cells a file may hold
    Columns,   \* number of header columns
    RowWidths, \* widths a row may have
    MaxRows,   \* bound: rows of a file
    Readers,   \* "upload", "foundry"
    Stored     \* how the upload's profile was stored; see Store

VARIABLES
    reader, file,
    phase,     \* "scan", "profiled", "stored", "read", "refused"
    types, populated, nulls, digits, scales, row_count,
    profile,   \* the columns' profiles as scanned
    upload,    \* columns_json: [form, profile]
    used,      \* the profiles the run parses with
    frame      \* the rows the run reads

sums == <<types, populated, nulls, digits, scales, row_count>>
vars == <<reader, file, phase, sums, profile, upload, used, frame>>

Cols == 1..Columns
MaxPrecision == 38

blank(row) == \A i \in DOMAIN row : row[i].form = "blank"

-----------------------------------------------------------------------------
(* Inference.                                                              *)

\* _value_type, and the fall-back to text of numbers Decimal refuses.
value_type(c) ==
    CASE c.form = "int" -> IF c.digits > MaxPrecision THEN "text"
                           ELSE IF ~c.int64 THEN "decimal" ELSE "integer"
      [] c.form = "dec" -> "decimal"
      [] c.form \in {"padded", "huge", "zoned_time", "other"} -> "text"
      [] OTHER -> c.form

wrong_merge_types(T) ==
    CASE T = {} -> "empty"
      [] Cardinality(T) = 1 /\ T # {"datetime_tz"} -> CHOOSE t \in T : TRUE
      [] Cardinality(T) > 1 /\ T \subseteq {"integer", "decimal"} -> "decimal"
      [] T # {} /\ T \subseteq {"date", "datetime", "datetime_tz"} -> "datetime"
      [] OTHER -> "text"

\* _merge_types
merge_types(T) ==
    CASE T = {} -> "empty"
      [] T = {"datetime_tz"} -> "datetime"
      [] Cardinality(T) = 1 /\ T # {"datetime_tz"} -> CHOOSE t \in T : TRUE
      [] Cardinality(T) > 1 /\ T \subseteq {"integer", "decimal"} -> "decimal"
      [] Cardinality(T) > 1 /\ T \subseteq {"date", "datetime"} -> "datetime"
      [] OTHER -> "text"

\* _column_profile; the precision is 0 but for decimals.
column_profile(i) ==
    LET type == merge_types(types[i]) IN
    IF type = "decimal"
    THEN [type |-> type, precision |-> Max({digits[i] + scales[i], 1}), scale |-> scales[i], zoned |-> FALSE]
    ELSE [type |-> type, precision |-> 0, scale |-> 0, zoned |-> types[i] = {"datetime_tz"}]

Init ==
    /\ reader \in Readers
    /\ file \in UNION {[1..n -> UNION {[1..w -> Cells] : w \in RowWidths}] : n \in 0..MaxRows}
    /\ phase = "scan" /\ row_count = 0
    /\ types = [i \in Cols |-> {}]
    /\ populated = [i \in Cols |-> 0] /\ nulls = [i \in Cols |-> 0]
    /\ digits = [i \in Cols |-> 0] /\ scales = [i \in Cols |-> 0]
    /\ profile = <<>> /\ upload = [form |-> "none", profile |-> <<>>]
    /\ used = <<>> /\ frame = <<>>

\* The rows still to be read are the tail of file that frame does not hold:
\* frame collects every row handed out so far during the scan.
rest == SubSeq(file, Len(frame) + 1, Len(file))

\* One row's cells are added to the columns' sums.
account(row) ==
    LET filled == {i \in Cols : row[i].form # "blank"}
        numeric == {i \in filled : row[i].form \in {"int", "dec"} /\ value_type(row[i]) # "text"}
    IN /\ row_count' = row_count + 1
       /\ populated' = [i \in Cols |-> populated[i] + IF i \in filled THEN 1 ELSE 0]
       /\ nulls' = [i \in Cols |-> nulls[i] + IF i \in filled THEN 0 ELSE 1]
       /\ types' = [i \in Cols |-> types[i] \cup IF i \in filled THEN {value_type(row[i])} ELSE {}]
       /\ digits' = [i \in Cols |-> IF i \in numeric THEN Max({digits[i], row[i].digits}) ELSE digits[i]]
       /\ scales' = [i \in Cols |-> IF i \in numeric THEN Max({scales[i], row[i].scale}) ELSE scales[i]]

\* The name, size, encoding or header of the file is not accepted.
RefuseFile ==
    /\ phase = "scan" /\ frame = <<>> /\ phase' = "refused"
    /\ UNCHANGED <<reader, file, sums, profile, upload, used, frame>>

\* profile_csv_rows, one row.
ScanRow ==
    /\ phase = "scan" /\ rest # <<>>
    /\ LET row == Head(rest) IN
       CASE row = <<>> \/ (Len(row) = Columns /\ blank(row)) ->
              frame' = Append(frame, row) /\ UNCHANGED <<phase, sums>>
         [] row # <<>> /\ (Len(row) # Columns \/ \E i \in DOMAIN row : row[i].form = "long") ->
              phase' = "refused" /\ UNCHANGED <<frame, sums>>
         [] OTHER -> account(row) /\ frame' = Append(frame, row) /\ UNCHANGED phase
    /\ UNCHANGED <<reader, file, profile, upload, used>>

\* The end of the scan; a decimal column may need more digits than there are.
EndScan ==
    /\ phase = "scan" /\ rest = <<>>
    /\ LET p == [i \in Cols |-> column_profile(i)] IN
       IF \E i \in Cols : p[i].precision > MaxPrecision
       THEN phase' = "refused" /\ UNCHANGED profile
       ELSE phase' = "profiled" /\ profile' = p
    /\ frame' = <<>> /\ UNCHANGED <<reader, file, sums, upload, used>>

-----------------------------------------------------------------------------
(* Storing and reading.                                                    *)

\* store_csv_upload; older releases stored no dialect, no time zones or no
\* decimal precision, and an upload may be gone, or unreadable, when it is read.
Store ==
    /\ phase = "profiled" /\ reader = "upload" /\ phase' = "stored"
    /\ \E form \in Stored :
         upload' = [form |-> form,
                    profile |-> CASE form = "no_timezone" -> [i \in Cols |-> [profile[i] EXCEPT !.zoned = FALSE]]
                                  [] form = "no_precision" ->
                                       [i \in Cols |-> [profile[i] EXCEPT !.precision = 0, !.scale = 0]]
                                  [] OTHER -> profile]
    /\ UNCHANGED <<reader, file, sums, profile, used, frame>>

\* inspection_from_upload: what an incomplete profile lacks is scanned again.
inspection ==
    LET p == upload.profile
        incomplete == \/ upload.form = "no_dialect"
                      \/ upload.form = "no_timezone" /\ \E i \in Cols : p[i].type = "datetime"
                      \/ \E i \in Cols : p[i].type = "decimal" /\ p[i].precision = 0
    IN IF incomplete THEN profile ELSE p

\* profiled_polars_type: whether every column has a type to parse with.
parsable(p) == \A i \in Cols : p[i].type = "decimal" => p[i].precision \in 1..MaxPrecision

\* An upload's rows are normalised before they are parsed; a Foundry file is
\* scanned as it is.
rows_read ==
    SelectSeq(file, LAMBDA row : row # <<>> /\ (reader = "foundry" \/ ~blank(row)))

\* _credentials_for: the upload still is there, the owner's and unchanged, and
\* its stored profile can be decoded.
available == upload.form \notin {"broken", "gone"}

\* The worker's read of an upload that still is the one the run was saved for.
ReadUpload ==
    /\ phase = "stored"
    /\ IF available /\ parsable(inspection)
       THEN phase' = "read" /\ used' = inspection /\ frame' = rows_read
       ELSE phase' = "refused" /\ UNCHANGED <<used, frame>>
    /\ UNCHANGED <<reader, file, sums, profile, upload>>

\* _csv_file_scan: a Foundry file is profiled and parsed in one go.
ReadFoundry ==
    /\ phase = "profiled" /\ reader = "foundry"
    /\ phase' = "read" /\ used' = profile /\ frame' = rows_read
    /\ UNCHANGED <<reader, file, sums, profile, upload>>

Ended == phase \in {"read", "refused"} /\ UNCHANGED vars

Next == RefuseFile \/ ScanRow \/ EndScan \/ Store \/ ReadUpload \/ ReadFoundry \/ Ended

Spec == Init /\ [][Next]_vars

-----------------------------------------------------------------------------
(* Properties.                                                             *)

\* Every counted row is populated or null in each column.
TypeOK ==
    /\ \A i \in Cols : populated[i] + nulls[i] = row_count
    /\ phase = "read" => DOMAIN used = Cols

\* Reference: a type that represents a cell exactly.
represents(p, c) ==
    CASE p.type = "integer"  -> c.form = "int" /\ c.int64
      [] p.type = "decimal"  -> /\ c.form = "dec" \/ (c.form = "int" /\ c.digits <= MaxPrecision)
                                /\ c.scale <= p.scale /\ c.digits <= p.precision - p.scale
      [] p.type = "datetime" -> c.form \in IF p.zoned THEN {"datetime_tz"} ELSE {"date", "datetime"}
      [] p.type \in {"boolean", "date", "time"} -> c.form = p.type
      [] p.type = "empty" -> FALSE
      [] OTHER -> TRUE
column(i) == {row[i] : row \in {r \in ToSet(file) : Len(r) = Columns}} \ {c \in Cells : c.form = "blank"}
Wide == 2 * MaxPrecision
Narrow == << [type |-> "empty",    precision |-> 0, scale |-> 0, zoned |-> FALSE],
             [type |-> "boolean",  precision |-> 0, scale |-> 0, zoned |-> FALSE],
             [type |-> "integer",  precision |-> 0, scale |-> 0, zoned |-> FALSE],
             [type |-> "decimal",  precision |-> 2 * Wide, scale |-> Wide, zoned |-> FALSE],
             [type |-> "date",     precision |-> 0, scale |-> 0, zoned |-> FALSE],
             [type |-> "datetime", precision |-> 0, scale |-> 0, zoned |-> FALSE],
             [type |-> "datetime", precision |-> 0, scale |-> 0, zoned |-> TRUE],
             [type |-> "time",     precision |-> 0, scale |-> 0, zoned |-> FALSE] >>

\* Whatever order and mix the rows come in, a column's type represents each of
\* its values exactly, at the precision that was stored, and is text only when
\* no other type does: types are inferred once and every cast is strict.
ProfileExact ==
    phase \in {"profiled", "stored", "read"} =>
        \A i \in Cols :
            LET fits == {n \in DOMAIN Narrow : \A c \in column(i) : represents(Narrow[n], c)}
            IN /\ \A c \in column(i) : represents(profile[i], c)
               /\ profile[i].type = IF fits = {} THEN "text" ELSE Narrow[Min(fits)].type

\* "The run uses the scanned types, so the preview and transfer agree": whichever
\* release stored the profile, a run parses with what a scan of the file gives.
RunUsesScan == phase = "read" => used = profile

\* An upload's run reads as many rows as its scan counted.
RowsAgree == phase = "read" /\ reader = "upload" => Len(frame) = row_count

Safety == TypeOK /\ ProfileExact /\ RunUsesScan /\ RowsAgree
=============================================================================
