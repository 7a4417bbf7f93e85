----------------------------- MODULE DataProofs -----------------------------
(***************************************************************************)
(* Proofs about the guardrail of one pipeline, for every provider, any     *)
(* columns, any number of batches and any changes of the source; and about *)
(* the Foundry upload, for any batches, deployments and answers.           *)
(***************************************************************************)
EXTENDS Data, SequenceTheorems, TLAPS

------------------------------------------------------------------------------
(* The guardrail.                                                          *)

Answers == {"hash", "remove"}
Reviews == (SUBSET Columns) \X (SUBSET Columns) \X BOOLEAN
ScannedBatch == [cols : (SUBSET Columns) \ {{}}, ssn : SUBSET Columns]
LoadedBatch == UNION {[S -> {"hash", "ssn", "clear"}] : S \in SUBSET Columns}

Types ==
    /\ live \in Contents /\ inspected \in Contents
    /\ changes \in 0..MaxChanges
    /\ saved \in [actions : Decisions(Keys), review : Reviews, bound : BOOLEAN,
                  keys : SUBSET Columns, casts : SUBSET Columns]
    /\ fresh \in BOOLEAN
    /\ at \in {"review", "queued", "scanning", "loading", "done", "blocked", "unresolved", "failed"}
    /\ schema \subseteq Columns /\ ssn \subseteq Columns /\ marked \subseteq Columns
    /\ spool \in Seq(ScannedBatch) /\ Len(spool) <= MaxBatches
    /\ written \in Seq(LoadedBatch) /\ Len(written) <= Len(spool)
    /\ effective \in Decisions(Columns)

\* Nothing is extracted before the inspection, nothing is written before the decision.
Early ==
    /\ at \in {"review", "queued"} => spool = <<>> /\ ssn = {} /\ schema = {}
    /\ at \in {"review", "queued", "scanning"} => written = <<>>

\* Every number of a spooled batch is in a column that the scan counted or metadata
\* covers, and all batches have the columns of the extraction.
Scanned ==
    \A i \in 1..Len(spool) :
        spool[i].cols = schema /\ spool[i].ssn \ inspected.marked \subseteq ssn

\* What was true when the load began: every finding has a decision, and the
\* decisions are the ones that the load applies.
AllDecided ==
    /\ findings \subseteq DOMAIN saved.actions
    /\ effective = effective_actions
    /\ Provider = "databricks" => marked \subseteq inspected.marked

Decided == written # <<>> \/ at \in {"loading", "done"} => AllDecided

\* What reached the destination is what the spool holds, transformed.
Loaded == \A i \in 1..Len(written) : written[i] = transform(spool[i])

\* A review that is still complete covers what the worker has found so far.
Reviewed ==
    fresh =>
        /\ review_findings \subseteq DOMAIN saved.actions
        /\ at = "scanning" => inspected = live
        /\ at = "scanning" => \A c \in ssn : <<"ssn", c>> \in scan_sensitive_content
        /\ at # "unresolved"

GInv == Types /\ Early /\ Scanned /\ Decided /\ Loaded /\ Reviewed

------------------------------------------------------------------------------
(* Sets and functions.                                                     *)

LEMMA NoDecisions == ASSUME NEW K PROVE <<>> \in Decisions(K)
  <1>1. <<>> \in [{} -> {"hash", "remove"}]
    OBVIOUS
  <1>2. {} \in SUBSET K
    OBVIOUS
  <1> QED
    BY <1>1, <1>2 DEF Decisions

LEMMA DecisionsOf ==
  ASSUME NEW K, NEW S \in SUBSET K, NEW d \in [S -> {"hash", "remove"}]
  PROVE  d \in Decisions(K)
  BY DEF Decisions

LEMMA DecisionsDomain ==
  ASSUME NEW K, NEW d \in Decisions(K)
  PROVE  DOMAIN d \in SUBSET K /\ d \in [DOMAIN d -> {"hash", "remove"}]
  BY DEF Decisions

LEMMA ContentsOf ==
  ASSUME NEW x \in Contents
  PROVE  /\ x.cols \subseteq Columns /\ x.cols # {} /\ x.marked \subseteq Columns
         /\ x.table \in BOOLEAN
         /\ x.data \in Seq(SUBSET Columns) /\ Len(x.data) <= MaxBatches
         /\ review_context(x) \in Reviews
  <1>1. x.cols \subseteq Columns /\ x.cols # {}
    BY DEF Contents
  <1>4. x.marked \in (IF Marks THEN SUBSET Columns ELSE {{}})
    BY DEF Contents
  <1>5. x.marked \subseteq Columns
    BY <1>4
  <1>6. x.table \in (IF Marks THEN BOOLEAN ELSE {FALSE})
    BY DEF Contents
  <1>7. x.table \in BOOLEAN
    BY <1>6
  <1>2. PICK n \in 0..MaxBatches : x.data \in [1..n -> SUBSET Columns]
    BY DEF Contents
  <1>3. x.data \in Seq(SUBSET Columns) /\ Len(x.data) = n
    BY <1>2, GuardAssumption
  <1> QED
    BY <1>1, <1>3, <1>5, <1>7, GuardAssumption DEF review_context, Reviews

LEMMA FindingsAreKeys ==
  ASSUME Types
  PROVE  /\ review_findings \subseteq Keys /\ offered \subseteq Keys
         /\ findings \subseteq Keys
  <1>1. metadata_findings(live) \subseteq Keys /\ metadata_findings(inspected) \subseteq Keys
    BY ContentsOf DEF Types, metadata_findings, Keys
  <1>2. scan_sensitive_content \subseteq Keys
    BY ContentsOf DEF Types, scan_sensitive_content, scan_ssn_frame, Keys
  <1>3. DOMAIN saved.actions \subseteq Keys
    BY DecisionsDomain DEF Types
  <1>4. {<<"ssn", c>> : c \in ssn} \subseteq Keys
    BY DEF Types, Keys
  <1> QED
    BY <1>1, <1>2, <1>3, <1>4 DEF review_findings, offered, findings

LEMMA EffectiveOf ==
  ASSUME Types
  PROVE  effective_actions \in Decisions(Columns)
  <1> DEFINE S == {k[2] : k \in decided}
  <1>1. S \in SUBSET Columns
    BY FindingsAreKeys DEF decided, Keys
  <1>2. effective_actions \in [S -> {"hash", "remove"}]
    BY DEF effective_actions
  <1> QED
    BY <1>1, <1>2, DecisionsOf

LEMMA TransformOf ==
  ASSUME Types, NEW b \in ScannedBatch
  PROVE  transform(b) \in LoadedBatch
  <1> DEFINE S == b.cols \ Removed(effective)
  <1>1. S \in SUBSET Columns
    BY DEF ScannedBatch
  <1>2. transform(b) \in [S -> {"hash", "ssn", "clear"}]
    BY DEF transform
  <1> QED
    BY <1>1, <1>2 DEF LoadedBatch

------------------------------------------------------------------------------
(* The types.                                                              *)

LEMMA InitTypes == Init => Types
  <1> SUFFICES ASSUME Init PROVE Types
    OBVIOUS
  <1>1. saved \in [actions : Decisions(Keys), review : Reviews, bound : BOOLEAN,
                   keys : SUBSET Columns, casts : SUBSET Columns]
    BY NoDecisions, ContentsOf DEF Init
  <1>2. effective \in Decisions(Columns)
    BY NoDecisions DEF Init
  <1>3. /\ spool \in Seq(ScannedBatch) /\ Len(spool) = 0
        /\ written \in Seq(LoadedBatch) /\ Len(written) = 0
    BY EmptySeq DEF Init
  <1>4. changes \in 0..MaxChanges /\ 0 <= MaxBatches
    BY GuardAssumption DEF Init
  <1>5. live \in Contents /\ inspected \in Contents /\ fresh \in BOOLEAN /\ at = "review"
    BY DEF Init
  <1>6. schema = {} /\ ssn = {} /\ marked = {}
    BY DEF Init
  <1> QED
    BY <1>1, <1>2, <1>3, <1>4, <1>5, <1>6 DEF Types

LEMMA NextTypes == Types /\ [Next]_vars => Types'
  <1> SUFFICES ASSUME Types, [Next]_vars PROVE Types'
    OBVIOUS
  <1> USE DEF Types
  <1>1. ASSUME NEW K \in SUBSET offered, NEW d \in [K -> {"hash", "remove"}], SaveReview(K, d)
        PROVE  Types'
    <2>1. d \in Decisions(Keys)
      BY FindingsAreKeys, DecisionsOf
    <2>2. fresh' \in BOOLEAN
      BY <1>1 DEF SaveReview
    <2>3. saved' \in [actions : Decisions(Keys), review : Reviews, bound : BOOLEAN,
                      keys : SUBSET Columns, casts : SUBSET Columns]
      BY <1>1, <2>1, ContentsOf DEF SaveReview
    <2> QED
      BY <1>1, <2>2, <2>3 DEF SaveReview
  <1>2. CASE KeepUnboundDecisions
    <2>1. saved' \in [actions : Decisions(Keys), review : Reviews, bound : BOOLEAN,
                      keys : SUBSET Columns, casts : SUBSET Columns]
      BY <1>2 DEF KeepUnboundDecisions
    <2> QED
      BY <1>2, <2>1 DEF KeepUnboundDecisions
  <1>3. CASE Enqueue
    BY <1>3 DEF Enqueue
  <1>4. ASSUME NEW new \in Contents, ChangeSource(new) PROVE Types'
    <2>1. changes' \in 0..MaxChanges
      BY <1>4, GuardAssumption DEF ChangeSource
    <2> QED
      BY <1>4, <2>1 DEF ChangeSource
  <1>5. CASE InspectRefused \/ BlockTable \/ ScanFails \/ ScanDrifted
    BY <1>5 DEF InspectRefused, BlockTable, ScanFails, ScanDrifted, End
  <1>6. ASSUME NEW known \in SUBSET Columns, InspectSource(known) PROVE Types'
    BY <1>6 DEF InspectSource
  <1>7. CASE ScanBatch
    <2> DEFINE found == live.data[Len(spool) + 1] \cap live.cols
    <2>1. /\ live.data \in Seq(SUBSET Columns) /\ Len(live.data) <= MaxBatches
          /\ live.cols \subseteq Columns /\ live.cols # {}
      BY ContentsOf
    <2>2. found \subseteq Columns
      BY <2>1
    <2>3. [cols |-> live.cols, ssn |-> found] \in ScannedBatch
      BY <2>1, <2>2 DEF ScannedBatch
    <2>4. spool' = Append(spool, [cols |-> live.cols, ssn |-> found])
      BY <1>7 DEF ScanBatch, append_batch
    <2>5. spool' \in Seq(ScannedBatch) /\ Len(spool') = Len(spool) + 1
      BY <2>3, <2>4, AppendProperties
    <2>6. Len(spool') <= MaxBatches /\ Len(written') <= Len(spool')
      BY <1>7, <2>1, <2>5, LenProperties, GuardAssumption DEF ScanBatch
    <2>7. ssn' \subseteq Columns
      BY <1>7, <2>2 DEF ScanBatch, scan_ssn_frame
    <2>8. schema' \subseteq Columns
      BY <1>7, <2>1 DEF ScanBatch, Expected
    <2> QED
      BY <1>7, <2>5, <2>6, <2>7, <2>8 DEF ScanBatch
  <1>8. CASE BlockRun \/ BlockUnresolved \/ CastRefused \/ CastFails \/ Complete
    BY <1>8 DEF BlockRun, BlockUnresolved, CastRefused, CastFails, Complete, End
  <1>9. CASE BeginLoad
    <2>1. live.marked \subseteq Columns
      BY ContentsOf
    <2> QED
      BY <1>9, <2>1, EffectiveOf DEF BeginLoad
  <1>10. CASE LoadBatch
    <2> DEFINE b == spool[Len(written) + 1]
    <2>1. b \in ScannedBatch
      BY <1>10, LenProperties, ElementOfSeq DEF LoadBatch
    <2>2. written' = Append(written, transform(b))
      BY <1>10 DEF LoadBatch, replayed
    <2>3. transform(b) \in LoadedBatch
      BY <2>1, TransformOf
    <2>4. written' \in Seq(LoadedBatch) /\ Len(written') = Len(written) + 1
      BY <2>2, <2>3, AppendProperties
    <2>5. Len(written') <= Len(spool')
      BY <1>10, <2>4, LenProperties DEF LoadBatch
    <2> QED
      BY <1>10, <2>4, <2>5 DEF LoadBatch
  <1>11. CASE Over \/ UNCHANGED vars
    BY <1>11 DEF Over, vars
  <1> QED
    BY <1>1, <1>2, <1>3, <1>4, <1>5, <1>6, <1>7, <1>8, <1>9, <1>10, <1>11 DEF Next

------------------------------------------------------------------------------
(* The other parts of the invariant.                                       *)

LEMMA NextEarly == Types /\ Early /\ [Next]_vars => Early'
  <1> SUFFICES ASSUME Types, Early, [Next]_vars PROVE Early'
    OBVIOUS
  <1> USE DEF Early
  <1>1. ASSUME NEW K \in SUBSET offered, NEW d \in [K -> {"hash", "remove"}], SaveReview(K, d)
        PROVE  Early'
    BY <1>1 DEF SaveReview
  <1>2. CASE KeepUnboundDecisions \/ Enqueue
    BY <1>2 DEF KeepUnboundDecisions, Enqueue
  <1>3. ASSUME NEW new \in Contents, ChangeSource(new) PROVE Early'
    BY <1>3 DEF ChangeSource
  <1>4. CASE InspectRefused \/ BlockTable \/ ScanFails \/ ScanDrifted
    BY <1>4 DEF InspectRefused, BlockTable, ScanFails, ScanDrifted, End
  <1>5. ASSUME NEW known \in SUBSET Columns, InspectSource(known) PROVE Early'
    BY <1>5 DEF InspectSource
  <1>6. CASE ScanBatch
    BY <1>6 DEF ScanBatch
  <1>7. CASE BlockRun \/ BlockUnresolved \/ CastRefused \/ CastFails \/ Complete
    BY <1>7 DEF BlockRun, BlockUnresolved, CastRefused, CastFails, Complete, End
  <1>8. CASE BeginLoad
    BY <1>8 DEF BeginLoad
  <1>9. CASE LoadBatch
    BY <1>9 DEF LoadBatch
  <1>10. CASE Over \/ UNCHANGED vars
    BY <1>10 DEF Over, vars
  <1> QED
    BY <1>1, <1>2, <1>3, <1>4, <1>5, <1>6, <1>7, <1>8, <1>9, <1>10 DEF Next

LEMMA NextScanned == Types /\ Early /\ Scanned /\ [Next]_vars => Scanned'
  <1> SUFFICES ASSUME Types, Early, Scanned, [Next]_vars PROVE Scanned'
    OBVIOUS
  <1>1. ASSUME UNCHANGED <<spool, schema, ssn, inspected>> PROVE Scanned'
    BY <1>1 DEF Scanned
  <1>2. ASSUME NEW K \in SUBSET offered, NEW d \in [K -> {"hash", "remove"}], SaveReview(K, d)
        PROVE  Scanned'
    BY <1>1, <1>2 DEF SaveReview
  <1>3. CASE KeepUnboundDecisions \/ Enqueue
    BY <1>1, <1>3 DEF KeepUnboundDecisions, Enqueue
  <1>4. ASSUME NEW new \in Contents, ChangeSource(new) PROVE Scanned'
    BY <1>1, <1>4 DEF ChangeSource
  <1>5. CASE InspectRefused \/ BlockTable \/ ScanFails \/ ScanDrifted
    BY <1>1, <1>5 DEF InspectRefused, BlockTable, ScanFails, ScanDrifted, End
  <1>6. ASSUME NEW known \in SUBSET Columns, InspectSource(known) PROVE Scanned'
    <2>1. spool' = <<>>
      BY <1>6 DEF InspectSource, Early
    <2> QED
      BY <2>1 DEF Scanned
  <1>7. CASE ScanBatch
    <2> DEFINE found == live.data[Len(spool) + 1] \cap live.cols
               new == [cols |-> live.cols, ssn |-> found]
    <2>1. /\ spool' = Append(spool, new) /\ schema' = Expected /\ live.cols = Expected
          /\ ssn' = ssn \cup (found \ inspected.marked) /\ inspected' = inspected
      BY <1>7 DEF ScanBatch, append_batch, scan_ssn_frame
    <2>2. spool \in Seq(ScannedBatch) /\ Len(spool) \in Nat
      BY LenProperties DEF Types
    <2>3. Len(spool') = Len(spool) + 1
      BY <2>1, <2>2, AppendProperties
    <2> SUFFICES ASSUME NEW i \in 1..Len(spool')
                 PROVE  spool'[i].cols = schema' /\ spool'[i].ssn \ inspected'.marked \subseteq ssn'
      BY DEF Scanned
    <2>4. CASE i = Len(spool) + 1
      <3>1. spool'[i] = new
        BY <2>1, <2>2, <2>4
      <3> QED
        BY <2>1, <3>1
    <2>5. CASE i # Len(spool) + 1
      <3>1. i \in 1..Len(spool) /\ spool'[i] = spool[i]
        BY <2>1, <2>2, <2>3, <2>5
      <3>2. spool[i].cols = schema /\ spool[i].ssn \ inspected.marked \subseteq ssn
        BY <3>1 DEF Scanned
      <3>5. spool[i] \in ScannedBatch
        BY <2>2, <3>1, ElementOfSeq
      <3>3. spool[i].cols # {}
        BY <3>5 DEF ScannedBatch
      <3>4. schema' = schema
        BY <2>1, <3>2, <3>3 DEF Expected
      <3> QED
        BY <2>1, <3>1, <3>2, <3>4
    <2> QED
      BY <2>4, <2>5
  <1>8. CASE BlockRun \/ BlockUnresolved \/ CastRefused \/ CastFails \/ Complete
    BY <1>1, <1>8 DEF BlockRun, BlockUnresolved, CastRefused, CastFails, Complete, End
  <1>9. CASE BeginLoad
    BY <1>1, <1>9 DEF BeginLoad
  <1>10. CASE LoadBatch
    BY <1>1, <1>10 DEF LoadBatch
  <1>11. CASE Over \/ UNCHANGED vars
    BY <1>1, <1>11 DEF Over, vars
  <1> QED
    BY <1>2, <1>3, <1>4, <1>5, <1>6, <1>7, <1>8, <1>9, <1>10, <1>11 DEF Next

LEMMA DecisionFrame ==
  ASSUME UNCHANGED <<saved, ssn, schema, inspected>>
  PROVE  findings' = findings /\ effective_actions' = effective_actions
  <1>1. findings' = findings
    BY DEF findings, metadata_findings
  <1>2. decided' = decided
    BY <1>1 DEF decided
  <1> QED
    BY <1>1, <1>2 DEF effective_actions

LEMMA NextDecided == Types /\ Early /\ Decided /\ [Next]_vars => Decided'
  <1> SUFFICES ASSUME Types, Early, Decided, [Next]_vars PROVE Decided'
    OBVIOUS
  <1>1. ASSUME at \in {"review", "queued", "scanning"}, written' = written,
               at' \notin {"loading", "done"}
        PROVE  Decided'
    BY <1>1 DEF Decided, Early
  <1>2. ASSUME AllDecided, UNCHANGED <<saved, ssn, schema, inspected, effective, marked>>
        PROVE  Decided'
    BY <1>2, DecisionFrame DEF Decided, AllDecided
  <1>3. ASSUME NEW K \in SUBSET offered, NEW d \in [K -> {"hash", "remove"}], SaveReview(K, d)
        PROVE  Decided'
    BY <1>1, <1>3 DEF SaveReview
  <1>4. CASE KeepUnboundDecisions \/ Enqueue
    BY <1>1, <1>4 DEF KeepUnboundDecisions, Enqueue
  <1>5. ASSUME NEW new \in Contents, ChangeSource(new) PROVE Decided'
    BY <1>1, <1>5 DEF ChangeSource
  <1>6. CASE InspectRefused \/ BlockTable \/ ScanFails \/ ScanDrifted
    BY <1>1, <1>6 DEF InspectRefused, BlockTable, ScanFails, ScanDrifted, End
  <1>7. ASSUME NEW known \in SUBSET Columns, InspectSource(known) PROVE Decided'
    BY <1>1, <1>7 DEF InspectSource
  <1>8. CASE ScanBatch
    BY <1>1, <1>8 DEF ScanBatch
  <1>9. CASE BlockRun \/ BlockUnresolved \/ CastRefused
    BY <1>1, <1>9 DEF BlockRun, BlockUnresolved, CastRefused, ScanOver, End
  <1>10. CASE BeginLoad
    <2>1. UNCHANGED <<saved, ssn, schema, inspected>> /\ effective' = effective_actions
          /\ marked' = live.marked
      BY <1>10 DEF BeginLoad
    <2>2. findings' \subseteq DOMAIN saved'.actions
      BY <1>10, <2>1, DecisionFrame DEF BeginLoad, unresolved
    <2>3. effective' = effective_actions'
      BY <2>1, DecisionFrame
    <2>4. Provider = "databricks" => marked' \subseteq inspected'.marked
      BY <1>10, <2>1 DEF BeginLoad, ScanOver, drifted, review_context
    <2> QED
      BY <2>2, <2>3, <2>4 DEF Decided, AllDecided
  <1>11. CASE LoadBatch \/ CastFails \/ Complete
    <2>1. AllDecided
      BY <1>11 DEF Decided, LoadBatch, CastFails, Complete
    <2> QED
      BY <1>2, <1>11, <2>1 DEF LoadBatch, CastFails, Complete, End
  <1>12. CASE Over \/ UNCHANGED vars
    <2>1. UNCHANGED vars
      BY <1>12 DEF Over
    <2>2. CASE AllDecided
      BY <1>2, <2>1, <2>2 DEF vars
    <2>3. CASE ~AllDecided
      BY <2>1, <2>3 DEF Decided, vars
    <2> QED
      BY <2>2, <2>3
  <1> QED
    BY <1>3, <1>4, <1>5, <1>6, <1>7, <1>8, <1>9, <1>10, <1>11, <1>12 DEF Next

LEMMA NextLoaded == Types /\ Early /\ Loaded /\ [Next]_vars => Loaded'
  <1> SUFFICES ASSUME Types, Early, Loaded, [Next]_vars PROVE Loaded'
    OBVIOUS
  <1>1. ASSUME written' = <<>> PROVE Loaded'
    BY <1>1 DEF Loaded
  <1>2. ASSUME UNCHANGED <<written, spool, effective>> PROVE Loaded'
    BY <1>2 DEF Loaded, transform
  <1>3. ASSUME NEW K \in SUBSET offered, NEW d \in [K -> {"hash", "remove"}], SaveReview(K, d)
        PROVE  Loaded'
    BY <1>2, <1>3 DEF SaveReview
  <1>4. CASE KeepUnboundDecisions \/ Enqueue
    BY <1>2, <1>4 DEF KeepUnboundDecisions, Enqueue
  <1>5. ASSUME NEW new \in Contents, ChangeSource(new) PROVE Loaded'
    BY <1>2, <1>5 DEF ChangeSource
  <1>6. CASE InspectRefused \/ BlockTable \/ ScanFails \/ ScanDrifted
    BY <1>2, <1>6 DEF InspectRefused, BlockTable, ScanFails, ScanDrifted, End
  <1>7. ASSUME NEW known \in SUBSET Columns, InspectSource(known) PROVE Loaded'
    BY <1>2, <1>7 DEF InspectSource
  <1>8. CASE ScanBatch
    BY <1>1, <1>8 DEF ScanBatch, Early
  <1>9. CASE BlockRun \/ BlockUnresolved \/ CastRefused \/ CastFails \/ Complete
    BY <1>2, <1>9 DEF BlockRun, BlockUnresolved, CastRefused, CastFails, Complete, End
  <1>10. CASE BeginLoad
    BY <1>1, <1>10 DEF BeginLoad, ScanOver, Early
  <1>11. CASE LoadBatch
    <2> DEFINE new == transform(spool[Len(written) + 1])
    <2>1. written' = Append(written, new) /\ UNCHANGED <<spool, effective>>
      BY <1>11 DEF LoadBatch, replayed
    <2>2. written \in Seq(LoadedBatch) /\ Len(written) \in Nat
      BY LenProperties DEF Types
    <2>5. \A i \in 1..Len(written') : transform(spool[i])' = transform(spool[i])
      BY <2>1 DEF transform
    <2> SUFFICES ASSUME NEW i \in 1..Len(written') PROVE written'[i] = transform(spool[i])
      BY <2>5 DEF Loaded
    <2>3. CASE i = Len(written) + 1
      BY <2>1, <2>2, <2>3
    <2>4. CASE i # Len(written) + 1
      <3>1. i \in 1..Len(written) /\ written'[i] = written[i]
        BY <2>1, <2>2, <2>4
      <3> QED
        BY <3>1 DEF Loaded
    <2> QED
      BY <2>3, <2>4
  <1>12. CASE Over \/ UNCHANGED vars
    BY <1>2, <1>12 DEF Over, vars
  <1> QED
    BY <1>3, <1>4, <1>5, <1>6, <1>7, <1>8, <1>9, <1>10, <1>11, <1>12 DEF Next

LEMMA NextReviewed == Types /\ Early /\ Reviewed /\ [Next]_vars => Reviewed'
  <1> SUFFICES ASSUME Types, Early, Reviewed, [Next]_vars, fresh'
               PROVE  Reviewed'
    BY DEF Reviewed
  <1>1. ASSUME UNCHANGED live
        PROVE  /\ review_findings' = review_findings
               /\ scan_sensitive_content' = scan_sensitive_content
    BY <1>1 DEF review_findings, scan_sensitive_content, metadata_findings
  <1>2. ASSUME fresh, UNCHANGED <<live, saved, inspected, ssn>>, at' # "unresolved",
               at' = "scanning" => at = "scanning"
        PROVE  Reviewed'
    BY <1>1, <1>2 DEF Reviewed
  <1>3. ASSUME NEW K \in SUBSET offered, NEW d \in [K -> {"hash", "remove"}], SaveReview(K, d)
        PROVE  Reviewed'
    <2>1. at' = "review" /\ saved'.actions = d /\ review_findings \subseteq K /\ live' = live
      BY <1>3 DEF SaveReview, Types
    <2> QED
      BY <1>1, <2>1 DEF Reviewed
  <1>4. CASE KeepUnboundDecisions
    BY <1>4 DEF KeepUnboundDecisions
  <1>5. CASE Enqueue
    BY <1>2, <1>5 DEF Enqueue
  <1>6. ASSUME NEW new \in Contents, ChangeSource(new) PROVE Reviewed'
    BY <1>6 DEF ChangeSource
  <1>7. CASE InspectRefused \/ BlockTable \/ ScanFails \/ ScanDrifted
    BY <1>2, <1>7 DEF InspectRefused, BlockTable, ScanFails, ScanDrifted, End
  <1>8. ASSUME NEW known \in SUBSET Columns, InspectSource(known) PROVE Reviewed'
    <2>1. fresh /\ UNCHANGED <<live, saved, ssn>> /\ inspected' = live /\ at' = "scanning"
          /\ ssn = {}
      BY <1>8 DEF InspectSource, Early
    <2> QED
      BY <1>1, <2>1 DEF Reviewed
  <1>9. CASE ScanBatch
    <2>1. fresh /\ UNCHANGED <<live, saved, inspected, at>> /\ at = "scanning" /\ inspected = live
      BY <1>9 DEF ScanBatch, Reviewed
    <2> DEFINE n == Len(spool) + 1
    <2>2. n \in DOMAIN live.data
      BY <1>9, LenProperties, ContentsOf DEF ScanBatch, Types
    <2>3. ssn' = ssn \cup scan_ssn_frame(live.data[n] \cap live.cols, live.marked)
      BY <1>9, <2>1 DEF ScanBatch
    <2>4. \A c \in ssn' : <<"ssn", c>> \in scan_sensitive_content
      BY <2>1, <2>2, <2>3 DEF scan_sensitive_content, Reviewed
    <2> QED
      BY <1>1, <2>1, <2>4 DEF Reviewed
  <1>10. CASE BlockRun \/ CastRefused \/ CastFails \/ Complete
    BY <1>2, <1>10 DEF BlockRun, CastRefused, CastFails, Complete, End
  <1>11. CASE BlockUnresolved
    <2>1. fresh /\ at = "scanning" /\ findings \ DOMAIN saved.actions # {}
      BY <1>11 DEF BlockUnresolved, ScanOver, End, unresolved
    <2>2. metadata_findings(inspected) \cup {<<"ssn", c>> : c \in ssn}
            \subseteq DOMAIN saved.actions
      BY <2>1 DEF Reviewed, review_findings
    <2> QED
      BY <2>1, <2>2 DEF findings
  <1>12. CASE BeginLoad
    BY <1>2, <1>12 DEF BeginLoad
  <1>13. CASE LoadBatch
    BY <1>2, <1>13 DEF LoadBatch
  <1>14. CASE Over \/ UNCHANGED vars
    BY <1>1, <1>14 DEF Over, vars, Reviewed
  <1> QED
    BY <1>3, <1>4, <1>5, <1>6, <1>7, <1>8, <1>9, <1>10, <1>11, <1>12, <1>13, <1>14 DEF Next

------------------------------------------------------------------------------
(* What the invariant says of the batches that reached the destination.    *)

LEMMA InvSafe == GInv => GuardrailHolds
  <1> SUFFICES ASSUME GInv PROVE GuardrailHolds
    OBVIOUS
  <1> USE DEF GInv
  <1>1. TypeOK
    <2>1. DOMAIN effective \subseteq Columns
      BY DecisionsDomain DEF Types
    <2> QED
      BY <2>1 DEF Types, TypeOK
  <1>2. ASSUME NEW b \in Written
        PROVE  \E x \in ScannedBatch :
                   b = transform(x) /\ x.cols = schema /\ x.ssn \ inspected.marked \subseteq ssn
    <2>1. PICK i \in 1..Len(written) : b = written[i]
      BY <1>2, LenProperties DEF Written, Types
    <2>2. i \in 1..Len(spool)
      BY <2>1, LenProperties DEF Types
    <2>3. spool[i] \in ScannedBatch
      BY <2>2, ElementOfSeq DEF Types
    <2> QED
      BY <2>1, <2>2, <2>3 DEF Loaded, Scanned
  <1>3. ASSUME NEW b \in Written PROVE AllDecided
    BY <1>3 DEF Decided, Written
  <1>4. ASSUME NEW k \in findings, AllDecided PROVE k[2] \in DOMAIN effective
    BY <1>4 DEF AllDecided, decided, effective_actions
  <1>5. ASSUME NEW x \in ScannedBatch, NEW c \in DOMAIN transform(x)
        PROVE  /\ c \in x.cols /\ c \notin Removed(effective)
               /\ c \in DOMAIN effective => transform(x)[c] = "hash"
               /\ c \notin DOMAIN effective =>
                    transform(x)[c] = IF c \in x.ssn THEN "ssn" ELSE "clear"
    BY <1>5 DEF transform
  <1>6. ASSUME AllDecided, NEW c \in inspected.marked \cup ssn PROVE c \in DOMAIN effective
    <2>1. <<"metadata", c>> \in findings \/ <<"ssn", c>> \in findings
      BY <1>6 DEF findings, metadata_findings
    <2> QED
      BY <1>4, <1>6, <2>1
  <1>7. NoPlainNumber
    <2> SUFFICES ASSUME NEW b \in Written, NEW c \in DOMAIN b PROVE b[c] # "ssn"
      BY DEF NoPlainNumber
    <2>1. PICK x \in ScannedBatch : b = transform(x) /\ x.ssn \ inspected.marked \subseteq ssn
      BY <1>2
    <2>2. c \in x.ssn => c \in DOMAIN effective
      BY <1>3, <1>6, <2>1
    <2> QED
      BY <1>5, <2>1, <2>2
  <1>8. MarkedIsHashed
    <2> SUFFICES ASSUME NEW b \in Written, NEW c \in DOMAIN b,
                        c \in inspected.marked \cup (IF Provider = "databricks" THEN marked ELSE {})
                 PROVE  b[c] = "hash"
      BY DEF MarkedIsHashed
    <2>1. c \in inspected.marked
      BY <1>3 DEF AllDecided
    <2>2. c \in DOMAIN effective
      BY <1>3, <1>6, <2>1
    <2> QED
      BY <1>2, <1>5, <2>2
  <1>9. DecisionsKept
    <2> SUFFICES ASSUME NEW b \in Written, NEW k \in DOMAIN saved.actions, k[2] \in DOMAIN b
                 PROVE  b[k[2]] = "hash" /\ saved.actions[k] = "hash"
      BY DEF DecisionsKept
    <2>1. PICK x \in ScannedBatch : b = transform(x) /\ x.cols = schema
      BY <1>2
    <2>2. k[2] \in schema /\ k[2] \notin Removed(effective)
      BY <1>5, <2>1
    <2>3. k \in decided
      BY <2>2 DEF decided, findings
    <2>4. k[2] \in DOMAIN effective
      BY <1>3, <1>4, <2>3 DEF decided
    <2>5. b[k[2]] = "hash"
      BY <1>5, <2>1, <2>4
    <2>6. effective[k[2]] # "remove" /\ effective = effective_actions
      BY <1>3, <2>2, <2>4 DEF Removed, AllDecided
    <2>7. saved.actions[k] # "remove"
      BY <2>3, <2>4, <2>6 DEF effective_actions
    <2>8. saved.actions[k] \in {"hash", "remove"}
      BY DecisionsDomain DEF Types
    <2> QED
      BY <2>5, <2>7, <2>8
  <1>10. ReviewSuffices
    BY DEF ReviewSuffices, Reviewed
  <1> QED
    BY <1>1, <1>7, <1>8, <1>9, <1>10 DEF GuardrailHolds

\* No number and no marked column reaches the destination in plain, saved decisions are
\* applied and a complete review is enough, whatever the provider changes between the
\* review, the inspection, the scan and the load (scan_to_spool, load).
THEOREM GuardrailIsKept == Spec => []GuardrailHolds
  <1>1. Init => GInv
    <2> SUFFICES ASSUME Init PROVE GInv
      OBVIOUS
    <2>1. Types
      BY InitTypes
    <2>2. spool = <<>> /\ ssn = {} /\ schema = {} /\ written = <<>> /\ ~fresh /\ at = "review"
      BY DEF Init
    <2> QED
      BY <2>1, <2>2 DEF GInv, Early, Scanned, Decided, Loaded, Reviewed
  <1>2. GInv /\ [Next]_vars => GInv'
    BY NextTypes, NextEarly, NextScanned, NextDecided, NextLoaded, NextReviewed DEF GInv
  <1> QED
    BY <1>1, <1>2, InvSafe, PTL DEF Spec

------------------------------------------------------------------------------
(* The Foundry upload: the common type of a column.                        *)

\* Bounds of the integer types.
Negs == {0, 7, 15, 31, 63}
Poss == {7, 8, 15, 16, 31, 32, 63, 64}

LEMMA IntegerBounds ==
  ASSUME NEW i \in 1..8
  PROVE  /\ Upload!IntegerTypes[i].kind = "int"
         /\ Upload!IntegerTypes[i].a \in Negs /\ Upload!IntegerTypes[i].b \in Poss
         /\ i \in DOMAIN Upload!IntegerTypes
  <1>1. i \in {1, 2, 3, 4, 5, 6, 7, 8}
    OBVIOUS
  <1> QED
    BY <1>1 DEF Upload!IntegerTypes, Upload!IntType, Negs, Poss

LEMMA IntegerIndexes == DOMAIN Upload!IntegerTypes = 1..8
  BY DEF Upload!IntegerTypes, Upload!IntType

LEMMA MaxOf ==
  ASSUME NEW S \in SUBSET Int, NEW m \in S, \A y \in S : m >= y
  PROVE  Upload!Max(S) \in S /\ \A y \in S : Upload!Max(S) >= y
  BY DEF Upload!Max

LEMMA MaxOfPair ==
  ASSUME NEW x \in Int, NEW y \in Int
  PROVE  Upload!Max({x, y}) \in {x, y} /\ Upload!Max({x, y}) >= x /\ Upload!Max({x, y}) >= y
  <1>1. CASE x >= y
    BY <1>1, MaxOf, x \in {x, y}
  <1>2. CASE ~(x >= y)
    BY <1>2, MaxOf, y \in {x, y}
  <1> QED
    BY <1>1, <1>2

LEMMA MaxOfNats ==
  ASSUME NEW x \in Nat, NEW y \in Nat
  PROVE  Upload!Max({x, y}) \in Nat /\ Upload!Max({x, y}) >= x /\ Upload!Max({x, y}) >= y
  <1>1. x \in Int /\ y \in Int
    OBVIOUS
  <1>2. Upload!Max({x, y}) \in {x, y} /\ Upload!Max({x, y}) >= x /\ Upload!Max({x, y}) >= y
    BY <1>1, MaxOfPair
  <1> QED
    BY <1>2

LEMMA MaxOfBounds ==
  ASSUME NEW S, S # {}, S \subseteq Negs \/ S \subseteq Poss
  PROVE  Upload!Max(S) \in S /\ \A y \in S : Upload!Max(S) >= y
  <1>1. S \subseteq {0, 7, 8, 15, 16, 31, 32, 63, 64}
    BY DEF Negs, Poss
  <1>2. \E m \in S : \A y \in S : m >= y
    <2>1. CASE 64 \in S
      BY <1>1, <2>1
    <2>2. CASE 64 \notin S /\ 63 \in S
      BY <1>1, <2>2
    <2>3. CASE S \cap {63, 64} = {} /\ 32 \in S
      BY <1>1, <2>3
    <2>4. CASE S \cap {32, 63, 64} = {} /\ 31 \in S
      BY <1>1, <2>4
    <2>5. CASE S \cap {31, 32, 63, 64} = {} /\ 16 \in S
      BY <1>1, <2>5
    <2>6. CASE S \cap {16, 31, 32, 63, 64} = {} /\ 15 \in S
      BY <1>1, <2>6
    <2>7. CASE S \cap {15, 16, 31, 32, 63, 64} = {} /\ 8 \in S
      BY <1>1, <2>7
    <2>8. CASE S \cap {8, 15, 16, 31, 32, 63, 64} = {} /\ 7 \in S
      BY <1>1, <2>8
    <2>9. CASE S \cap {7, 8, 15, 16, 31, 32, 63, 64} = {}
      <3>1. S = {0}
        BY <1>1, <2>9
      <3> QED
        BY <3>1
    <2> QED
      BY <2>1, <2>2, <2>3, <2>4, <2>5, <2>6, <2>7, <2>8, <2>9
  <1>3. PICK m \in S : \A y \in S : m >= y
    BY <1>2
  <1> QED
    BY <1>1, <1>3, MaxOf

LEMMA MinOf ==
  ASSUME NEW S \in SUBSET (1..8), S # {}
  PROVE  Upload!Min(S) \in S
  <1>1. \E m \in S : \A y \in S : m <= y
    <2>1. CASE 1 \in S
      BY <2>1
    <2>2. CASE 1 \notin S /\ 2 \in S
      BY <2>2
    <2>3. CASE 1 \notin S /\ 2 \notin S /\ 3 \in S
      BY <2>3
    <2>4. CASE S \cap {1, 2, 3} = {} /\ 4 \in S
      BY <2>4
    <2>5. CASE S \cap {1, 2, 3, 4} = {} /\ 5 \in S
      BY <2>5
    <2>6. CASE S \cap {1, 2, 3, 4, 5} = {} /\ 6 \in S
      BY <2>6
    <2>7. CASE S \cap {1, 2, 3, 4, 5, 6} = {} /\ 7 \in S
      BY <2>7
    <2>8. CASE S \cap {1, 2, 3, 4, 5, 6, 7} = {}
      <3>1. \A y \in S : y = 8
        BY <2>8
      <3>2. S = {8}
        BY <3>1
      <3> QED
        BY <3>2
    <2> QED
      BY <2>1, <2>2, <2>3, <2>4, <2>5, <2>6, <2>7, <2>8
  <1> QED
    BY <1>1 DEF Upload!Min

\* What BatchAssumption says of a column type.
KnownType(t) ==
    /\ t.kind = "int" => \E i \in 1..8 : t = Upload!IntegerTypes[i]
    /\ t.kind = "float" => t \in {Upload!Float(24), Upload!Float(53)}

\* The type c represents every value of a type t that is not decimal.
Represents(c, t) ==
    \/ c = t /\ t.kind # "decimal"
    \/ c.kind = "int" /\ t.kind = "int" /\ t.a <= c.a /\ t.b <= c.b
    \/ c.kind = "float" /\ t.kind = "float" /\ t.a <= c.a
    \/ c.kind = "float" /\ t.kind = "int" /\ t.a <= c.a /\ t.b <= c.a

\* _lossless_common_dtype returns nothing, or a type that represents every value.
LEMMA CommonType ==
  ASSUME NEW T, \A t \in T : KnownType(t), \E t \in T : t.kind # "decimal",
         Upload!lossless_common_dtype(T) # Upload!NoType, NEW t \in T
  PROVE  Represents(Upload!lossless_common_dtype(T), t)
  <1> DEFINE common == Upload!lossless_common_dtype(T)
             neg == Upload!Max({u.a : u \in T})
             pos == Upload!Max({u.b : u \in T})
             fit == {i \in DOMAIN Upload!IntegerTypes :
                        Upload!IntegerTypes[i].a >= neg /\ Upload!IntegerTypes[i].b >= pos}
             mantissa == IF Upload!Float(53) \in T THEN 53 ELSE 24
             ints == {u \in T : u.kind = "int"}
             alike == \A u, v \in T : u = v
  <1>1. CASE alike
    <2>1. common = CHOOSE u \in T : TRUE
      BY <1>1 DEF Upload!lossless_common_dtype
    <2>2. common = t
      BY <1>1, <2>1
    <2> QED
      BY <1>1, <2>2 DEF Represents
  <1>2. CASE ~alike /\ \A u \in T : u.kind = "int"
    <2>1. common = IF fit = {} THEN Upload!NoType ELSE Upload!IntegerTypes[Upload!Min(fit)]
      BY <1>2 DEF Upload!lossless_common_dtype
    <2>2. fit # {} /\ common = Upload!IntegerTypes[Upload!Min(fit)]
      BY <2>1
    <2>3. Upload!Min(fit) \in fit
      BY <2>2, IntegerIndexes, MinOf
    <2>4. /\ common.kind = "int" /\ common.a \in Negs /\ common.b \in Poss
          /\ common.a >= neg /\ common.b >= pos
      BY <2>2, <2>3, IntegerIndexes, IntegerBounds
    <2>5. {u.a : u \in T} \subseteq Negs /\ {u.b : u \in T} \subseteq Poss
      BY <1>2, IntegerBounds DEF KnownType
    <2>6. neg \in Negs /\ neg >= t.a /\ t.a \in Negs
      BY <2>5, MaxOfBounds
    <2>7. pos \in Poss /\ pos >= t.b /\ t.b \in Poss
      BY <2>5, MaxOfBounds
    <2>8. t.a <= common.a /\ t.b <= common.b
      BY <2>4, <2>6, <2>7 DEF Negs, Poss
    <2> QED
      BY <1>2, <2>4, <2>8 DEF Represents
  <1>3. CASE ~alike /\ \A u \in T : u.kind = "float"
    <2>1. common = Upload!Float(53)
      BY <1>3 DEF Upload!lossless_common_dtype
    <2>2. t \in {Upload!Float(24), Upload!Float(53)}
      BY <1>3 DEF KnownType
    <2> QED
      BY <1>3, <2>1, <2>2 DEF Represents, Upload!Float
  <1>4. CASE ~alike /\ ints \notin {{}, T} /\ \A u \in T : u.kind \in {"int", "float"}
    <2>1. common = IF \A u \in ints : u.a <= mantissa /\ u.b <= mantissa
                   THEN Upload!Float(mantissa) ELSE Upload!NoType
      BY <1>4 DEF Upload!lossless_common_dtype
    <2>2. common = Upload!Float(mantissa) /\ \A u \in ints : u.a <= mantissa /\ u.b <= mantissa
      BY <2>1
    <2>3. CASE t.kind = "int"
      BY <2>2, <2>3 DEF Represents, Upload!Float
    <2>4. CASE t.kind = "float"
      <3>1. t \in {Upload!Float(24), Upload!Float(53)}
        BY <2>4 DEF KnownType
      <3>2. t.a <= mantissa
        BY <3>1 DEF Upload!Float
      <3> QED
        BY <2>2, <2>4, <3>2 DEF Represents, Upload!Float
    <2> QED
      BY <1>4, <2>3, <2>4
  <1>5. CASE /\ ~alike /\ ~\A u \in T : u.kind = "int"
             /\ ~\A u \in T : u.kind = "float"
             /\ ~(ints \notin {{}, T} /\ \A u \in T : u.kind \in {"int", "float"})
    BY <1>5 DEF Upload!lossless_common_dtype
  <1> QED
    BY <1>1, <1>2, <1>3, <1>4, <1>5

------------------------------------------------------------------------------
(* The Foundry upload: the session.                                        *)

UploadTypes ==
    /\ job \in Jobs /\ deployment \in Deployments
    /\ pc \in {"load", "send", "ended"}
    /\ chunks \in Seq(Batches) /\ taken \in Seq(Batches)
    /\ profile \in [scale : Nat, digits : Nat]
    /\ rows \in 0..MaxChunks /\ spooled \in Nat /\ accepted \in Nat
    /\ request \in {"v2", "preview", "v1"}

\* The observed decimal digits cover every decimal batch so far.
Profiled ==
    \A i \in 1..Len(taken) :
        taken[i].type.kind = "decimal" =>
            taken[i].scale <= profile.scale /\ taken[i].digits <= profile.digits

\* While batches come in nothing was sent; the chunks are the batches acknowledged.
Loading ==
    pc = "load" =>
        /\ chunks = taken /\ rows = Len(taken) /\ spooled <= MaxSpool
        /\ accepted = 0 /\ outcome = Upload!None
        /\ Profiled

\* The file that is sent holds every batch; no earlier request was carried out.
Sending ==
    pc = "send" =>
        /\ Len(chunks) <= rows /\ spooled <= MaxSpool
        /\ accepted = 0 /\ outcome = Upload!None
        /\ job = "upload" =>
             /\ rows = Len(taken)
             /\ \A i \in 1..Len(taken) :
                  Upload!holds(parquet, taken[i]) /\ taken[i].names = taken[1].names

\* Nothing local is left, and what was stored is what was sent.
EndedWell ==
    pc = "ended" =>
        /\ chunks = <<>> /\ parquet = Upload!NoType /\ outcome # Upload!None
        /\ accepted <= 1
        /\ Upload!PublishedLossless /\ Upload!FailClosed

UInv == UploadTypes /\ Loading /\ Sending /\ EndedWell

LEMMA InitUpload == Upload!Init => UInv
  <1> SUFFICES ASSUME Upload!Init PROVE UInv
    OBVIOUS
  <1> USE DEF Upload!Init
  <1>1. /\ chunks \in Seq(Batches) /\ Len(chunks) = 0
        /\ taken \in Seq(Batches) /\ Len(taken) = 0
    BY EmptySeq
  <1>2. UploadTypes
    BY <1>1, BatchAssumption DEF UploadTypes
  <1>3. Loading
    BY <1>1, BatchAssumption DEF Loading, Profiled
  <1>4. Sending
    BY <1>1, BatchAssumption DEF Sending
  <1> QED
    BY <1>2, <1>3, <1>4 DEF UInv, EndedWell

LEMMA UploadSafe == UInv => UploadsLossless
  <1> SUFFICES ASSUME UInv PROVE UploadsLossless
    OBVIOUS
  <1>1. Len(chunks) <= rows
    BY EmptySeq, BatchAssumption DEF UInv, UploadTypes, Loading, Sending, EndedWell
  <1>2. Upload!TypeOK
    BY <1>1 DEF UInv, UploadTypes, Loading, Sending, EndedWell, Upload!TypeOK
  <1>3. Upload!UploadOnce
    BY DEF UInv, UploadTypes, Loading, Sending, EndedWell, Upload!UploadOnce
  <1>4. Upload!PublishedLossless
    BY DEF UInv, UploadTypes, Loading, Sending, EndedWell, Upload!PublishedLossless
  <1>5. Upload!FailClosed
    BY DEF UInv, UploadTypes, Loading, Sending, EndedWell, Upload!FailClosed, Upload!None
  <1> QED
    BY <1>2, <1>3, <1>4, <1>5 DEF UploadsLossless, Upload!Safety

\* A new batch: its digits are added to the profile.
LEMMA WriteKeeps ==
  ASSUME UInv, NEW b \in Batches, Upload!WriteBatch(b)
  PROVE  UInv'
  <1> USE DEF Upload!WriteBatch
  <1>1. /\ pc = "load" /\ chunks = taken /\ rows = Len(taken) /\ rows < MaxChunks
        /\ accepted = 0 /\ outcome = Upload!None
        /\ spooled' = spooled + b.size /\ b.size \in Nat /\ b.scale \in Nat /\ b.digits \in Nat
    BY BatchAssumption DEF UInv, Loading
  <1>2. CASE spooled + b.size > MaxSpool
    <2>1. /\ outcome' = "spool_limit_exceeded" /\ pc' = "ended" /\ chunks' = <<>>
          /\ parquet' = Upload!NoType
          /\ UNCHANGED <<rows, profile, taken, job, deployment, request, sent, accepted, published>>
      BY <1>2 DEF Upload!end
    <2>2. UploadTypes'
      BY <1>1, <2>1, EmptySeq DEF UInv, UploadTypes
    <2>3. EndedWell'
      BY <1>1, <2>1 DEF EndedWell, Upload!PublishedLossless, Upload!FailClosed, Upload!None
    <2> QED
      BY <2>1, <2>2, <2>3 DEF UInv, Loading, Sending
  <1>3. CASE ~(spooled + b.size > MaxSpool)
    <2>1. /\ chunks' = Append(chunks, b) /\ taken' = Append(taken, b) /\ rows' = rows + 1
          /\ profile' = IF b.type.kind = "decimal" THEN Upload!merged(profile, b) ELSE profile
          /\ UNCHANGED <<pc, parquet, outcome, job, deployment, request, sent, accepted, published>>
      BY <1>3
    <2>2. /\ taken \in Seq(Batches) /\ taken' \in Seq(Batches) /\ Len(taken) \in Nat
          /\ Len(taken') = Len(taken) + 1 /\ chunks' = taken'
      BY <1>1, <2>1, AppendProperties, LenProperties DEF UInv, UploadTypes
    <2>3. /\ profile \in [scale : Nat, digits : Nat] /\ profile' \in [scale : Nat, digits : Nat]
          /\ profile.scale <= profile'.scale /\ profile.digits <= profile'.digits
          /\ b.type.kind = "decimal" => b.scale <= profile'.scale /\ b.digits <= profile'.digits
      <3>1. profile \in [scale : Nat, digits : Nat]
        BY DEF UInv, UploadTypes
      <3>6. profile.scale \in Nat /\ profile.digits \in Nat
        BY <3>1
      <3>2. /\ Upload!Max({profile.scale, b.scale}) \in Nat
            /\ Upload!Max({profile.scale, b.scale}) >= profile.scale
            /\ Upload!Max({profile.scale, b.scale}) >= b.scale
        BY <1>1, <3>6, MaxOfNats
      <3>3. /\ Upload!Max({profile.digits, b.digits}) \in Nat
            /\ Upload!Max({profile.digits, b.digits}) >= profile.digits
            /\ Upload!Max({profile.digits, b.digits}) >= b.digits
        BY <1>1, <3>6, MaxOfNats
      <3>4. CASE b.type.kind = "decimal"
        BY <1>1, <2>1, <3>1, <3>2, <3>3, <3>4 DEF Upload!merged
      <3>5. CASE b.type.kind # "decimal"
        BY <2>1, <3>1, <3>5
      <3> QED
        BY <3>4, <3>5
    <2>4. UploadTypes'
      BY <1>1, <2>1, <2>2, <2>3, BatchAssumption DEF UInv, UploadTypes
    <2>5. Profiled'
      <3> SUFFICES ASSUME NEW i \in 1..Len(taken'), taken'[i].type.kind = "decimal"
                   PROVE  taken'[i].scale <= profile'.scale /\ taken'[i].digits <= profile'.digits
        BY DEF Profiled
      <3>1. CASE i = Len(taken) + 1
        BY <2>1, <2>2, <2>3, <3>1
      <3>2. CASE i # Len(taken) + 1
        <4>1. i \in 1..Len(taken) /\ taken'[i] = taken[i] /\ taken[i] \in Batches
          BY <2>1, <2>2, <3>2, ElementOfSeq
        <4>2. taken[i].scale <= profile.scale /\ taken[i].digits <= profile.digits
          BY <1>1, <4>1 DEF UInv, Loading, Profiled
        <4>3. taken[i].scale \in Nat /\ taken[i].digits \in Nat
          BY <4>1, BatchAssumption
        <4> QED
          BY <2>3, <4>1, <4>2, <4>3
      <3> QED
        BY <3>1, <3>2
    <2>6. Loading'
      BY <1>1, <1>3, <2>1, <2>2, <2>5, BatchAssumption DEF UInv, UploadTypes, Loading
    <2> QED
      BY <1>1, <2>1, <2>4, <2>6 DEF UInv, Sending, EndedWell
  <1> QED
    BY <1>2, <1>3

\* The file of the common type holds every chunk.
LEMMA CommonSchema ==
  ASSUME UInv, pc = "load", chunks # <<>>, Upload!common_schema # Upload!NoType,
         NEW i \in 1..Len(taken)
  PROVE  Upload!holds(Upload!common_schema, taken[i]) /\ taken[i].names = taken[1].names
  <1> DEFINE T == {chunks[j].type : j \in DOMAIN chunks}
             p == Upload!Max({1, profile.scale + profile.digits})
             same == \A j, k \in DOMAIN chunks : chunks[j].names = chunks[k].names
  <1>1. /\ chunks = taken /\ taken \in Seq(Batches) /\ DOMAIN chunks = 1..Len(taken)
        /\ Len(taken) \in Nat /\ 1 \in DOMAIN chunks /\ i \in DOMAIN chunks
    BY LenProperties DEF UInv, UploadTypes, Loading
  <1>2. same
    BY DEF Upload!common_schema
  <1>3. taken[i].names = taken[1].names
    BY <1>1, <1>2
  <1>4. \A j \in DOMAIN chunks : chunks[j] \in Batches
    BY <1>1, ElementOfSeq
  <1>5. profile.scale \in Nat /\ profile.digits \in Nat
    BY DEF UInv, UploadTypes
  <1>6. CASE \A t \in T : t.kind = "decimal"
    <2>1. Upload!common_schema = IF p <= 38 THEN Upload!Decimal(p, profile.scale) ELSE Upload!NoType
      BY <1>2, <1>6 DEF Upload!common_schema
    <2>2. Upload!common_schema = Upload!Decimal(p, profile.scale)
      BY <2>1
    <2>3. p \in Nat /\ p >= profile.scale + profile.digits
      BY <1>5, MaxOfNats
    <2>4. /\ taken[i].type.kind = "decimal"
          /\ taken[i].scale <= profile.scale /\ taken[i].digits <= profile.digits
          /\ taken[i].scale \in Nat /\ taken[i].digits \in Nat
      BY <1>1, <1>4, <1>6, BatchAssumption DEF UInv, Loading, Profiled
    <2>5. taken[i].digits <= p - profile.scale
      BY <1>5, <2>3, <2>4
    <2> QED
      BY <1>3, <2>2, <2>4, <2>5 DEF Upload!holds, Upload!Decimal
  <1>7. CASE ~\A t \in T : t.kind = "decimal"
    <2>1. Upload!common_schema = Upload!lossless_common_dtype(T)
      BY <1>2, <1>7 DEF Upload!common_schema
    <2>2. \A t \in T : KnownType(t)
      BY <1>4, BatchAssumption DEF KnownType
    <2>3. taken[i].type \in T
      BY <1>1
    <2>4. Represents(Upload!lossless_common_dtype(T), taken[i].type)
      BY <1>7, <2>1, <2>2, <2>3, CommonType
    <2> QED
      BY <1>3, <2>1, <2>4 DEF Represents, Upload!holds
  <1> QED
    BY <1>6, <1>7

LEMMA MergeKeeps ==
  ASSUME UInv, Upload!MergeChunks
  PROVE  UInv'
  <1> USE DEF Upload!MergeChunks
  <1>1. /\ pc = "load" /\ chunks = taken /\ rows = Len(taken) /\ spooled <= MaxSpool
        /\ accepted = 0 /\ outcome = Upload!None
        /\ UNCHANGED <<job, deployment, profile, rows, spooled, request, sent, accepted,
                       published, taken>>
    BY DEF UInv, Loading
  <1>2. ASSUME NEW how \in {"partial_write", "schema_drift", "spool_limit_exceeded"},
               Upload!end(how)
        PROVE  UInv'
    <2>1. outcome' = how /\ pc' = "ended" /\ chunks' = <<>> /\ parquet' = Upload!NoType
      BY <1>2 DEF Upload!end
    <2>2. UploadTypes'
      BY <1>1, <2>1, EmptySeq DEF UInv, UploadTypes
    <2>3. EndedWell'
      BY <1>1, <1>2, <2>1 DEF EndedWell, Upload!PublishedLossless, Upload!FailClosed, Upload!None
    <2> QED
      BY <2>1, <2>2, <2>3 DEF UInv, Loading, Sending
  <1>3. ASSUME pc' = "send", UNCHANGED <<chunks, outcome>>,
               \A i \in 1..Len(taken) :
                   Upload!holds(parquet', taken[i]) /\ taken[i].names = taken[1].names
        PROVE  UInv'
    <2>1. UploadTypes'
      BY <1>1, <1>3 DEF UInv, UploadTypes
    <2>2. Len(taken) \in Nat
      BY LenProperties DEF UInv, UploadTypes
    <2>3. Sending'
      BY <1>1, <1>3, <2>2 DEF Sending, Upload!holds
    <2> QED
      BY <1>3, <2>1, <2>3 DEF UInv, Loading, EndedWell
  <1>4. CASE chunks = <<>>
    <2>1. \/ pc' = "send" /\ UNCHANGED <<chunks, outcome>>
          \/ Upload!end("partial_write")
      BY <1>4
    <2>2. Len(taken) = 0
      BY <1>1, <1>4
    <2> QED
      BY <1>2, <1>3, <2>1, <2>2
  <1>5. CASE chunks # <<>> /\ Upload!common_schema = Upload!NoType
    <2>1. Upload!end("schema_drift")
      BY <1>5
    <2> QED
      BY <1>2, <2>1
  <1>6. CASE chunks # <<>> /\ Upload!common_schema # Upload!NoType
    <2>1. \/ parquet' = Upload!common_schema /\ pc' = "send" /\ UNCHANGED <<chunks, outcome>>
          \/ \E how \in {"spool_limit_exceeded", "schema_drift"} : Upload!end(how)
      BY <1>6
    <2>2. CASE parquet' = Upload!common_schema /\ pc' = "send" /\ UNCHANGED <<chunks, outcome>>
      <3>1. \A i \in 1..Len(taken) :
                Upload!holds(parquet', taken[i]) /\ taken[i].names = taken[1].names
        BY <1>1, <1>6, <2>2, CommonSchema
      <3> QED
        BY <1>3, <2>2, <3>1
    <2> QED
      BY <1>2, <2>1, <2>2
  <1> QED
    BY <1>4, <1>5, <1>6

\* Only an answer that carried nothing out is followed by another request, and one that
\* did is not reported as a plain failure.
LEMMA AnswersTold ==
  ASSUME "tls" \notin Replies, request \in {"v2", "preview", "v1"},
         NEW a \in Upload!Answers(request)
  PROVE  /\ a[2] \in BOOLEAN
         /\ Upload!fallback(request, a[1]) \in {"preview", "v1", Upload!None}
         /\ a[2] => Upload!fallback(request, a[1]) = Upload!None
         /\ Upload!code(a[1]) = "ok" => a[2]
         /\ Upload!report(a[1]) # Upload!None
         /\ a[2] /\ Upload!code(a[1]) # "ok" =>
              Upload!report(a[1]) \in {"publish_uncertain", "no_identifier"}
         /\ Upload!code(a[1]) # "ok" => Upload!report(a[1]) # "published"
  <1>1. \/ a = <<"ok", TRUE>> \/ a = <<"4xx", FALSE>> \/ a = <<"400", FALSE>>
        \/ a = <<"404", FALSE>> \/ a = <<"garbled", TRUE>>
        \/ a = <<"lost", TRUE>> \/ a = <<"lost", FALSE>>
        \/ a = <<"5xx", TRUE>> \/ a = <<"5xx", FALSE>> \/ a = <<"tls", FALSE>>
    <2>1. CASE Upload!refusal(request) # "ok"
      <3>1. a = <<Upload!refusal(request), FALSE>>
        BY <2>1 DEF Upload!Answers
      <3>2. Upload!refusal(request) \in {"400", "404"}
        BY <2>1 DEF Upload!refusal
      <3> QED
        BY <3>1, <3>2
    <2>2. CASE Upload!refusal(request) = "ok"
      <3>1. a \in {<<"ok", TRUE>>, <<"4xx", FALSE>>, <<"400", FALSE>>, <<"404", FALSE>>,
                   <<"garbled", TRUE>>, <<"tls", FALSE>>}
                  \cup ({"lost"} \X BOOLEAN) \cup ({"5xx"} \X BOOLEAN)
        BY <2>2 DEF Upload!Answers
      <3>2. ASSUME NEW x, a \in {x} \X BOOLEAN PROVE a = <<x, TRUE>> \/ a = <<x, FALSE>>
        <4>1. PICK y \in BOOLEAN : a = <<x, y>>
          BY <3>2
        <4>2. y = TRUE \/ y = FALSE
          OBVIOUS
        <4> QED
          BY <4>1, <4>2
      <3>3. CASE a \in {"lost"} \X BOOLEAN
        BY <3>2, <3>3
      <3>4. CASE a \in {"5xx"} \X BOOLEAN
        BY <3>2, <3>4
      <3> QED
        BY <3>1, <3>3, <3>4
    <2> QED
      BY <2>1, <2>2
  <1>2. CASE a = <<"ok", TRUE>> \/ a = <<"garbled", TRUE>>
    <2>5. a[2] = TRUE /\ a[1] \in {"ok", "garbled"}
      <3>1. CASE a = <<"ok", TRUE>>
        BY <3>1
      <3>2. CASE a = <<"garbled", TRUE>>
        BY <3>2
      <3> QED
        BY <1>2, <3>1, <3>2
    <2>1. a[2] /\ a[1] \in {"ok", "garbled"}
      BY <2>5
    <2>2. Upload!fallback(request, a[1]) = Upload!None
      BY <2>1 DEF Upload!fallback
    <2>3. Upload!code(a[1]) \in {"ok", "no_identifier"}
      BY <2>1 DEF Upload!code
    <2>4. Upload!report(a[1]) = Upload!code(a[1])
      BY <2>3 DEF Upload!report
    <2> QED
      BY <2>1, <2>2, <2>3, <2>4 DEF Upload!None
  <1>3. CASE a = <<"4xx", FALSE>> \/ a = <<"400", FALSE>> \/ a = <<"404", FALSE>>
    <2>5. a[2] = FALSE /\ a[1] \in {"4xx", "400", "404"}
      <3>1. CASE a = <<"4xx", FALSE>>
        BY <3>1
      <3>2. CASE a = <<"400", FALSE>>
        BY <3>2
      <3>3. CASE a = <<"404", FALSE>>
        BY <3>3
      <3> QED
        BY <1>3, <3>1, <3>2, <3>3
    <2>1. ~a[2] /\ a[1] \in {"4xx", "400", "404"} /\ a[2] \in BOOLEAN
      BY <2>5
    <2>2. Upload!fallback(request, a[1]) \in {"preview", "v1", Upload!None}
      BY DEF Upload!fallback
    <2>3. Upload!code(a[1]) \in {"destination_not_found", "internal_error", "permission_denied"}
      BY <2>1 DEF Upload!code
    <2>4. Upload!report(a[1]) = Upload!code(a[1])
      BY <2>3 DEF Upload!report
    <2> QED
      BY <2>1, <2>2, <2>3, <2>4 DEF Upload!None
  <1>4. CASE \/ a = <<"lost", TRUE>> \/ a = <<"lost", FALSE>>
             \/ a = <<"5xx", TRUE>> \/ a = <<"5xx", FALSE>>
    <2>5. (a[2] = TRUE \/ a[2] = FALSE) /\ a[1] \in {"lost", "5xx"}
      <3>1. CASE a = <<"lost", TRUE>>
        BY <3>1
      <3>2. CASE a = <<"lost", FALSE>>
        BY <3>2
      <3>3. CASE a = <<"5xx", TRUE>>
        BY <3>3
      <3>4. CASE a = <<"5xx", FALSE>>
        BY <3>4
      <3> QED
        BY <1>4, <3>1, <3>2, <3>3, <3>4
    <2>1. a[2] \in BOOLEAN /\ a[1] \in {"lost", "5xx"}
      BY <2>5
    <2>2. Upload!fallback(request, a[1]) = Upload!None
      BY <2>1 DEF Upload!fallback
    <2>3. Upload!code(a[1]) \in {"connection_timeout", "provider_unavailable"}
      BY <2>1 DEF Upload!code
    <2>4. Upload!report(a[1]) = "publish_uncertain"
      BY <2>3 DEF Upload!report
    <2> QED
      BY <2>1, <2>2, <2>3, <2>4 DEF Upload!None
  <1>5. CASE a = <<"tls", FALSE>>
    <2>5. a[2] = FALSE /\ a[1] = "tls"
      BY <1>5
    <2>1. ~a[2] /\ a[1] = "tls" /\ a[2] \in BOOLEAN
      BY <2>5
    <2>2. Upload!fallback(request, a[1]) = Upload!None
      BY <2>1 DEF Upload!fallback
    <2>3. Upload!code(a[1]) = "tls_failed"
      BY <2>1 DEF Upload!code
    <2>4. Upload!report(a[1]) = "tls_failed"
      BY <2>3 DEF Upload!report
    <2> QED
      BY <2>1, <2>2, <2>3, <2>4 DEF Upload!None
  <1> QED
    BY <1>1, <1>2, <1>3, <1>4, <1>5

LEMMA SendKeeps ==
  ASSUME UInv, "tls" \notin Replies, Upload!Send
  PROVE  UInv'
  <1>1. /\ pc = "send" /\ Len(chunks) <= rows /\ spooled <= MaxSpool
        /\ accepted = 0 /\ outcome = Upload!None
    BY DEF UInv, Sending, Upload!Send
  <1>2. PICK a \in Upload!Answers(request) :
          /\ sent' = Append(sent, request)
          /\ accepted' = IF a[2] THEN accepted + 1 ELSE accepted
          /\ published' = IF a[2] THEN [type |-> parquet, rows |-> rows] ELSE published
          /\ IF Upload!fallback(request, a[1]) # Upload!None
             THEN /\ request' = Upload!fallback(request, a[1])
                  /\ UNCHANGED <<pc, outcome, chunks, parquet>>
             ELSE /\ Upload!end(IF Upload!code(a[1]) = "ok" THEN "published"
                                ELSE Upload!report(a[1]))
                  /\ UNCHANGED request
    BY DEF Upload!Send
  <1>3. UNCHANGED <<job, deployment, profile, rows, spooled, taken>>
    BY DEF Upload!Send
  <1>4. /\ a[2] \in BOOLEAN
        /\ Upload!fallback(request, a[1]) \in {"preview", "v1", Upload!None}
        /\ a[2] => Upload!fallback(request, a[1]) = Upload!None
        /\ Upload!code(a[1]) = "ok" => a[2]
        /\ Upload!report(a[1]) # Upload!None
        /\ a[2] /\ Upload!code(a[1]) # "ok" =>
             Upload!report(a[1]) \in {"publish_uncertain", "no_identifier"}
        /\ Upload!code(a[1]) # "ok" => Upload!report(a[1]) # "published"
    BY AnswersTold DEF UInv, UploadTypes
  <1>5. CASE Upload!fallback(request, a[1]) # Upload!None
    <2>1. ~a[2]
      BY <1>4, <1>5
    <2>2. accepted' = accepted /\ published' = published
      BY <1>2, <2>1
    <2>3. /\ request' \in {"preview", "v1"} /\ UNCHANGED <<pc, outcome, chunks, parquet>>
      BY <1>2, <1>4, <1>5
    <2>4. UploadTypes'
      BY <1>3, <2>2, <2>3 DEF UInv, UploadTypes
    <2>5. Sending'
      BY <1>3, <2>2, <2>3 DEF UInv, Sending
    <2> QED
      BY <1>1, <2>3, <2>4, <2>5 DEF UInv, Loading, EndedWell
  <1>6. CASE Upload!fallback(request, a[1]) = Upload!None
    <2> DEFINE how == IF Upload!code(a[1]) = "ok" THEN "published" ELSE Upload!report(a[1])
    <2>1. /\ outcome' = how /\ pc' = "ended" /\ chunks' = <<>> /\ parquet' = Upload!NoType
          /\ request' = request
      BY <1>2, <1>6 DEF Upload!end
    <2>2. how # Upload!None
      BY <1>4 DEF Upload!None
    <2>3. CASE a[2]
      <3>1. accepted' = 1 /\ published' = [type |-> parquet, rows |-> rows]
        BY <1>1, <1>2, <2>3
      <3>2. UploadTypes'
        BY <1>3, <2>1, <3>1, EmptySeq DEF UInv, UploadTypes
      <3>3. Upload!PublishedLossless'
        <4> SUFFICES ASSUME job' = "upload"
                     PROVE  /\ published'.rows = Len(taken')
                            /\ \A i \in DOMAIN taken' :
                                 /\ Upload!holds(published'.type, taken'[i])
                                 /\ taken'[i].names = taken'[1].names
          BY DEF Upload!PublishedLossless, Upload!holds
        <4>1. DOMAIN taken = 1..Len(taken)
          BY LenProperties DEF UInv, UploadTypes
        <4> QED
          BY <1>1, <1>3, <3>1, <4>1 DEF UInv, Sending
      <3>4. how \in {"published", "publish_uncertain", "no_identifier"}
        BY <1>4, <2>3
      <3>5. Upload!FailClosed'
        BY <2>1, <3>1, <3>4 DEF Upload!FailClosed
      <3> QED
        BY <2>1, <2>2, <3>1, <3>2, <3>3, <3>5 DEF UInv, Loading, Sending, EndedWell
    <2>4. CASE ~a[2]
      <3>1. accepted' = 0 /\ published' = published
        BY <1>1, <1>2, <2>4
      <3>2. UploadTypes'
        BY <1>3, <2>1, <3>1, EmptySeq DEF UInv, UploadTypes
      <3>3. how # "published"
        BY <1>4, <2>4
      <3>4. Upload!FailClosed' /\ Upload!PublishedLossless'
        BY <2>1, <3>1, <3>3 DEF Upload!FailClosed, Upload!PublishedLossless
      <3> QED
        BY <2>1, <2>2, <3>1, <3>2, <3>4 DEF UInv, Loading, Sending, EndedWell
    <2> QED
      BY <2>3, <2>4
  <1> QED
    BY <1>5, <1>6

\* For any batches, deployments and answers, an upload stores every acknowledged value
\* exactly, once, and is plainly failed only when it stored nothing.  The hypothesis: a
\* TLS error comes before the server has carried the request out (FoundryClient.request
\* reports one as tls_failed in either case).
THEOREM UploadIsLossless ==
  ASSUME "tls" \notin Replies
  PROVE  Upload!Spec => []UploadsLossless
  <1>1. ASSUME UInv, [Upload!Next]_(Upload!vars) PROVE UInv'
    <2>1. ASSUME NEW b \in Batches, Upload!WriteBatch(b) PROVE UInv'
      BY <1>1, <2>1, WriteKeeps
    <2>2. CASE Upload!Abort
      <3>1. /\ pc = "load" /\ accepted = 0 /\ outcome' = "rolled_back" /\ pc' = "ended"
            /\ chunks' = <<>> /\ parquet' = Upload!NoType
            /\ UNCHANGED <<job, deployment, profile, rows, spooled, request, sent, accepted,
                           published, taken>>
        BY <1>1, <2>2 DEF Upload!Abort, Upload!end, UInv, Loading
      <3>2. UploadTypes'
        BY <1>1, <3>1, EmptySeq DEF UInv, UploadTypes
      <3>3. EndedWell'
        BY <3>1 DEF EndedWell, Upload!PublishedLossless, Upload!FailClosed, Upload!None
      <3> QED
        BY <3>1, <3>2, <3>3 DEF UInv, Loading, Sending
    <2>3. CASE Upload!MergeChunks
      BY <1>1, <2>3, MergeKeeps
    <2>4. CASE Upload!Send
      BY <1>1, <2>4, SendKeeps
    <2>5. CASE Upload!Ended \/ UNCHANGED Upload!vars
      <3>1. UNCHANGED uploadVars
        BY <2>5 DEF Upload!Ended, Upload!vars, uploadVars
      <3> QED
        BY <1>1, <3>1 DEF uploadVars, UInv, UploadTypes, Loading, Profiled, Sending, EndedWell,
           Upload!PublishedLossless, Upload!FailClosed, Upload!holds
    <2> QED
      BY <1>1, <2>1, <2>2, <2>3, <2>4, <2>5 DEF Upload!Next
  <1>2. UInv /\ [Upload!Next]_(Upload!vars) => UInv'
    BY <1>1
  <1> QED
    BY <1>2, InitUpload, UploadSafe, PTL DEF Upload!Spec
=============================================================================
