--------------------------- MODULE GuardrailScan ---------------------------
(***************************************************************************)
(* The sensitive-data guardrail of one pipeline: the editor's review of a  *)
(* source, and the worker's inspection, complete scan, decision and load   *)
(* of it, while the provider may change the source between any two steps.  *)
(*                                                                         *)
(* A column is a model value.  The content of the source is a sequence of  *)
(* batches; of a cell only its column and whether it holds a supported     *)
(* social security number matter.  Markers are the sensitivity markings    *)
(* the provider reports, on columns or on the whole table.                 *)
(***************************************************************************)
EXTENDS Naturals, Sequences, FiniteSets

CONSTANTS
    Columns,      \* the names a source column can have
    Provider,     \* "databricks", "postgres", "foundry" or "csv"
    MaxBatches,   \* batches of one extraction
    MaxChanges,   \* changes of the source by others
    Casting       \* whether the saved policy casts a column

ASSUME GuardAssumption == MaxBatches \in Nat /\ MaxChanges \in Nat

VARIABLES
    live,      \* the source as the provider has it now
    changes,   \* how often it was changed
    saved,     \* the saved definition: decisions, reviewed identity, keys
    fresh,     \* whether every finding of the present source has a decision
    at,        \* where the worker is
    inspected, \* the metadata the worker read before extracting
    schema,    \* the columns of the extraction
    ssn,       \* columns in which the scan counted a number
    spool,     \* the encrypted spool of scanned batches
    effective, \* the action of each column the load applies
    written,   \* batches handed to the destination
    marked     \* the columns marked when the scan ended

vars == <<live, changes, saved, fresh, at, inspected, schema, ssn, spool, effective, written, marked>>

Marks == Provider \in {"databricks", "foundry"}

Contents ==
    [cols : (SUBSET Columns) \ {{}},
     marked : IF Marks THEN SUBSET Columns ELSE {{}},
     table : IF Marks THEN BOOLEAN ELSE {FALSE},
     data : UNION {[1..n -> SUBSET Columns] : n \in 0..MaxBatches}]

Keys == {"metadata", "ssn"} \X Columns
Decisions(K) == UNION {[S -> {"hash", "remove"}] : S \in SUBSET K}

\* What a review of a databricks source is bound to: databricks_review_context.
review_context(source) == <<source.cols, source.marked, source.table>>

TypeOK ==
    /\ live \in Contents
    /\ changes \in 0..MaxChanges
    /\ saved.actions \in Decisions(Keys)
    /\ saved.keys \subseteq Columns /\ saved.casts \subseteq Columns
    /\ saved.bound \in BOOLEAN
    /\ fresh \in BOOLEAN
    /\ at \in {"review", "queued", "scanning", "loading", "done", "blocked", "unresolved", "failed"}
    /\ schema \subseteq Columns /\ ssn \subseteq Columns /\ marked \subseteq Columns
    /\ Len(spool) <= MaxBatches /\ Len(written) <= Len(spool)
    /\ DOMAIN effective \subseteq Columns

Init ==
    /\ live \in Contents
    /\ changes = 0
    /\ saved \in [actions : {<<>>}, review : {review_context(live)}, bound : {TRUE},
                  keys : {{}} \cup {{c} : c \in Columns},
                  casts : {{}} \cup (IF Casting THEN {{c} : c \in Columns} ELSE {})]
    /\ fresh = FALSE
    /\ at = "review"
    /\ inspected = live
    /\ schema = {} /\ ssn = {} /\ marked = {}
    /\ spool = <<>> /\ written = <<>>
    /\ effective = <<>>

-----------------------------------------------------------------------------
(* What the two scans have in common.                                      *)

\* _metadata_guardrail_findings: one per marked column.
metadata_findings(source) == {<<"metadata", c>> : c \in source.marked}

\* scan_ssn_frame: columns with a match, except the ones metadata covers.
scan_ssn_frame(batch, ignored) == batch \ ignored

-----------------------------------------------------------------------------
(* The editor.                                                             *)

\* scan_sensitive_content: the preview's complete scan of the source.
scan_sensitive_content ==
    {<<"ssn", c>> : c \in UNION {scan_ssn_frame(live.data[i] \cap live.cols, live.marked) :
                                     i \in DOMAIN live.data}}

review_findings == metadata_findings(live) \cup scan_sensitive_content

\* The decisions the review surface offers: on its findings, and on the ones
\* kept from before, for databricks only while the reviewed source is the same.
offered ==
    review_findings \cup
        (IF Provider # "databricks" \/ (saved.bound /\ saved.review = review_context(live))
           THEN DOMAIN saved.actions ELSE {})

\* The owner reviews the source, decides on some of what is offered, and
\* saves.  A table marking offers no scan.
SaveReview(K, decisions) ==
    /\ at = "review"
    /\ ~live.table
    /\ saved' = [saved EXCEPT !.actions = decisions, !.review = review_context(live), !.bound = TRUE]
    /\ fresh' = (review_findings \subseteq K)
    /\ UNCHANGED <<live, changes, at, inspected, schema, ssn, spool, effective, written, marked>>

\* A definition kept from before decisions carried the key of their review.
KeepUnboundDecisions ==
    /\ at = "review"
    /\ DOMAIN saved.actions # {}
    /\ saved' = [saved EXCEPT !.bound = FALSE]
    /\ fresh' = FALSE
    /\ UNCHANGED <<live, changes, at, inspected, schema, ssn, spool, effective, written, marked>>

Enqueue ==
    /\ at = "review"
    /\ at' = "queued"
    /\ UNCHANGED <<live, changes, saved, fresh, inspected, schema, ssn, spool, effective, written, marked>>

\* The provider's side: columns, markings or rows change.  Once the scan is
\* over nothing reads the source again.
ChangeSource(new) ==
    /\ changes < MaxChanges /\ Provider # "csv"
    /\ at \in {"review", "queued", "scanning"}
    /\ new # live
    /\ live' = new
    /\ changes' = changes + 1
    /\ fresh' = FALSE
    /\ UNCHANGED <<saved, at, inspected, schema, ssn, spool, effective, written, marked>>

-----------------------------------------------------------------------------
(* The worker, up to the end of the scan.                                  *)

End(outcome) ==
    /\ at' = outcome
    /\ UNCHANGED <<live, changes, saved, fresh, inspected, schema, ssn, spool, effective, written, marked>>

\* The identity and the binding checks on a databricks source.
review_changed ==
    /\ Provider = "databricks"
    /\ \/ review_context(live) # saved.review
       \/ DOMAIN saved.actions # {} /\ ~saved.bound

InspectRefused == at = "queued" /\ review_changed /\ End("failed")

\* block_run on a table-level marking, before anything is extracted.
BlockTable == at = "queued" /\ ~review_changed /\ live.table /\ End("blocked")

\* The columns of several Foundry files are unknown until the first batch.
InspectSource(known) ==
    /\ at = "queued" /\ ~review_changed /\ ~live.table
    /\ known \in {live.cols} \cup (IF Provider = "foundry" THEN {{}} ELSE {})
    /\ inspected' = live
    /\ schema' = known
    /\ at' = "scanning"
    /\ UNCHANGED <<live, changes, saved, fresh, ssn, spool, effective, written, marked>>

Expected == IF schema = {} THEN live.cols ELSE schema

\* The encrypted spool: batches are replayed as they were scanned, in order.
append_batch(batch) == Append(spool, batch)
replayed(n) == spool[n]

ScanBatch ==
    /\ at = "scanning"
    /\ Len(spool) < Len(live.data)
    /\ live.cols = Expected
    /\ LET found == live.data[Len(spool) + 1] \cap live.cols IN
       /\ ssn' = ssn \cup scan_ssn_frame(found, inspected.marked)
       /\ spool' = append_batch([cols |-> live.cols, ssn |-> found])
    /\ schema' = Expected
    /\ UNCHANGED <<live, changes, saved, fresh, at, inspected, effective, written, marked>>

\* Another schema, the run's time, the source's size or the spool's size.
ScanFails ==
    /\ at = "scanning"
    /\ Len(spool) < Len(live.data)
    /\ End("failed")

\* The inspection repeated after the last batch.
wrong_drifted == Provider = "postgres" /\ live.cols # inspected.cols
drifted ==
    \/ Provider = "databricks" /\ review_context(live) # review_context(inspected)
    \/ Provider = "postgres" /\ live.cols # inspected.cols

ScanDrifted == at = "scanning" /\ Len(spool) >= Len(live.data) /\ drifted /\ End("failed")

-----------------------------------------------------------------------------
(* The decision.                                                           *)

\* Findings of the scan, of the metadata, and decisions kept for a column
\* that is still there.
findings ==
    metadata_findings(inspected) \cup {<<"ssn", c>> : c \in ssn}
        \cup {k \in DOMAIN saved.actions : k[2] \in schema}

decided == findings \cap DOMAIN saved.actions

\* _effective_actions: Remove wins over Hash when detectors disagree.
effective_actions ==
    [c \in {k[2] : k \in decided} |->
        IF \E k \in decided : k[2] = c /\ saved.actions[k] = "remove" THEN "remove" ELSE "hash"]

unresolved == findings \ DOMAIN saved.actions # {}
Removed(actions) == {c \in DOMAIN actions : actions[c] = "remove"}

\* The three reasons that come before an undecided finding.
blocked_reason ==
    \/ DOMAIN effective_actions \ schema # {}
    \/ Removed(effective_actions) \cap saved.keys # {}
    \/ schema # {} /\ Cardinality(Removed(effective_actions)) >= Cardinality(schema)

ScanOver == at = "scanning" /\ Len(spool) >= Len(live.data) /\ ~drifted

BlockRun == ScanOver /\ blocked_reason /\ End("blocked")

BlockUnresolved == ScanOver /\ ~blocked_reason /\ unresolved /\ End("unresolved")

\* apply_column_type_overrides_to_schema: a cast of a column that is gone.
CastRefused ==
    /\ ScanOver /\ ~blocked_reason /\ ~unresolved
    /\ saved.casts \ schema # {}
    /\ End("failed")

BeginLoad ==
    /\ ScanOver /\ ~blocked_reason /\ ~unresolved
    /\ saved.casts \subseteq schema
    /\ effective' = effective_actions
    /\ marked' = live.marked
    /\ at' = "loading"
    /\ UNCHANGED <<live, changes, saved, fresh, inspected, schema, ssn, spool, written>>

-----------------------------------------------------------------------------
(* The load.                                                               *)

\* _transform_batch_for_guardrails: hash, then drop.
transform(batch) ==
    [c \in batch.cols \ Removed(effective) |->
        IF c \in DOMAIN effective THEN "hash" ELSE IF c \in batch.ssn THEN "ssn" ELSE "clear"]

LoadBatch ==
    /\ at = "loading"
    /\ Len(written) < Len(spool)
    /\ written' = Append(written, transform(replayed(Len(written) + 1)))
    /\ UNCHANGED <<live, changes, saved, fresh, at, inspected, schema, ssn, spool, effective, marked>>

\* cast_batch_columns refuses a value, or a loss of precision.
CastFails ==
    /\ at = "loading"
    /\ Len(written) < Len(spool)
    /\ saved.casts # {}
    /\ End("failed")

Complete == at = "loading" /\ Len(written) = Len(spool) /\ End("done")

Over == at \in {"done", "blocked", "unresolved", "failed"} /\ UNCHANGED vars

Next ==
    \/ \E K \in SUBSET offered : \E d \in [K -> {"hash", "remove"}] : SaveReview(K, d)
    \/ KeepUnboundDecisions \/ Enqueue
    \/ \E new \in Contents : ChangeSource(new)
    \/ InspectRefused \/ BlockTable
    \/ \E known \in SUBSET Columns : InspectSource(known)
    \/ ScanBatch \/ ScanFails \/ ScanDrifted
    \/ BlockRun \/ BlockUnresolved \/ CastRefused \/ BeginLoad
    \/ LoadBatch \/ CastFails \/ Complete \/ Over

Spec == Init /\ [][Next]_vars

-----------------------------------------------------------------------------
(* Properties.                                                             *)

Written == {written[i] : i \in DOMAIN written}

(* NoPlainNumber: no batch the destination receives holds a supported      *)
(* social security number, wherever in the source it stands and whichever  *)
(* column metadata covers.                                                 *)
NoPlainNumber == \A b \in Written : \A c \in DOMAIN b : b[c] # "ssn"

(* MarkedIsHashed: a column the provider marks as sensitive reaches the    *)
(* destination only hashed; for databricks that includes a marking added   *)
(* between the review and the end of the scan.                             *)
MarkedIsHashed ==
    \A b \in Written : \A c \in DOMAIN b :
        c \in inspected.marked \cup (IF Provider = "databricks" THEN marked ELSE {}) => b[c] = "hash"

(* DecisionsKept: a saved decision is applied even when nothing is found   *)
(* any more in its column, and Remove wins over Hash.                      *)
DecisionsKept ==
    \A b \in Written : \A k \in DOMAIN saved.actions :
        k[2] \in DOMAIN b => b[k[2]] = "hash" /\ saved.actions[k] = "hash"

(* ReviewSuffices: when the owner decided on every finding of the preview  *)
(* and the source has not changed since, the worker's scan raises no       *)
(* finding that still needs a decision.                                    *)
ReviewSuffices == at = "unresolved" => ~fresh

(* GuardrailHolds: no batch that reaches the destination holds a social    *)
(* security number, or a marked column in plain; saved decisions are       *)
(* applied, and an owner who decided on all findings of an unchanged       *)
(* source is not asked again (scan_to_spool, load).                        *)
GuardrailHolds == TypeOK /\ NoPlainNumber /\ MarkedIsHashed /\ DecisionsKept /\ ReviewSuffices
=============================================================================
