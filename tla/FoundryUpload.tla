--------------------------- MODULE FoundryUpload ----------------------------
(***************************************************************************)
(* The Foundry destination writer: batches spooled as Parquet chunks, the  *)
(* lossless common type of the chunks, the upload with its fallbacks over  *)
(* API versions, and dataset creation, against a server that may accept a  *)
(* request and lose the answer.  A batch is one column's type, the decimal *)
(* digits its values use and its size.  Integer types are given by the     *)
(* exponents of their bounds: values lie in -2^neg .. 2^pos - 1, or from 0 *)
(* where neg is 0.  A run is prepared once (TransferWorker), so no file of *)
(* an earlier attempt is there for write_batch to extend.                  *)
(***************************************************************************)
EXTENDS Integers, Sequences, FiniteSetsExt

CONSTANTS
    Batches,     \* batches a source may yield
    MaxBatches,  \* bound: batches of one run
    MaxSpool,    \* pipeline_max_spool_bytes
    Deployments, \* what the server offers: "v2", "preview", "v1", "none"
    Replies,     \* how a request may end besides an answer; see Answers
    Jobs         \* "upload", "create"

VARIABLES
    job, deployment,
    pc,          \* "load", "finalize", "send", "ended"
    chunks,      \* the Parquet chunks under chunk_root, by sequence
    profile,     \* decimal_value_profiles: [scale, digits]
    rows, spooled, \* metadata rows and spool_bytes
    spool,       \* the merged file: its type, or "none"
    request,     \* the request to send: "v2", "preview", "v1"
    sent,        \* requests sent
    accepted,    \* requests the server carried out
    published,   \* what the server stored: type and rows, or "none"
    outcome,     \* what the connector reported
    taken        \* history: the batches acknowledged

vars == <<job, deployment, pc, chunks, profile, rows, spooled, spool, request, sent,
          accepted, published, outcome, taken>>

None == "none"

-----------------------------------------------------------------------------
(* Types.                                                                  *)

IntType(n, p)     == [kind |-> "int", a |-> n, b |-> p]
Float(m)      == [kind |-> "float", a |-> m, b |-> 0]
Decimal(p, s) == [kind |-> "decimal", a |-> p, b |-> s]
Other(c)      == [kind |-> "other", a |-> c, b |-> 0]

\* _INTEGER_DTYPE_RANGES, in its order.
IntegerTypes ==
    << IntType(7, 7), IntType(0, 8), IntType(15, 15), IntType(0, 16), IntType(31, 31), IntType(0, 32), IntType(63, 63), IntType(0, 64) >>

NoType == [kind |-> "none", a |-> 0, b |-> 0]

\* _lossless_common_dtype over the set of the column's types.
lossless_common_dtype(T) ==
    LET neg == Max({t.a : t \in T})
        pos == Max({t.b : t \in T})
        fit == {i \in DOMAIN IntegerTypes : IntegerTypes[i].a >= neg /\ IntegerTypes[i].b >= pos}
        scale == pos
        digits == Max({t.a - t.b : t \in T})
        mantissa == IF Float(53) \in T THEN 53 ELSE 24
        ints == {t \in T : t.kind = "int"}
        alike == \A t, u \in T : t = u
    IN CASE T # {} /\ alike -> CHOOSE t \in T : TRUE
         [] ~alike /\ \A t \in T : t.kind = "decimal" ->
              IF Max({1, digits + scale}) <= 38 THEN Decimal(Max({1, digits + scale}), scale) ELSE NoType
         [] ~alike /\ \A t \in T : t.kind = "int" ->
              IF fit = {} THEN NoType ELSE IntegerTypes[Min(fit)]
         [] ~alike /\ \A t \in T : t.kind = "float" -> Float(53)
         [] ~alike /\ ints \notin {{}, T} /\ \A t \in T : t.kind \in {"int", "float"} ->
              IF \A t \in ints : t.a <= mantissa /\ t.b <= mantissa THEN Float(mantissa) ELSE NoType
         [] OTHER -> NoType

\* The fewest digits that hold the observed values.
merged(p, b) == [scale |-> Max({p.scale, b.scale}), digits |-> Max({p.digits, b.digits})]

\* _lossless_common_schema for the one column: decimals by their values.
common_schema ==
    LET T == {chunks[i].type : i \in DOMAIN chunks}
        p == Max({1, profile.scale + profile.digits})
    IN CASE \E i, j \in DOMAIN chunks : chunks[i].names # chunks[j].names -> NoType
         [] (\A i, j \in DOMAIN chunks : chunks[i].names = chunks[j].names)
              /\ \A t \in T : t.kind = "decimal" ->
              IF p <= 38 THEN Decimal(p, profile.scale) ELSE NoType
         [] OTHER -> lossless_common_dtype(T)

-----------------------------------------------------------------------------
Init ==
    /\ job \in Jobs /\ deployment \in Deployments
    /\ pc = IF job = "upload" THEN "load" ELSE "send"
    /\ chunks = <<>> /\ profile = [scale |-> 0, digits |-> 0]
    /\ rows = 0 /\ spooled = 0 /\ spool = NoType
    /\ request = "v2" /\ sent = <<>> /\ accepted = 0
    /\ published = [type |-> NoType, rows |-> 0]
    /\ outcome = None /\ taken = <<>>

\* Every end of finalize and abort removes the spool and the chunks.
end(how) ==
    /\ outcome' = how /\ pc' = "ended"
    /\ chunks' = <<>> /\ spool' = NoType

WriteBatch(b) ==
    /\ pc = "load" /\ rows < MaxBatches
    /\ spooled' = spooled + b.size
    /\ IF spooled + b.size > MaxSpool
       THEN end("spool_limit_exceeded") /\ UNCHANGED <<rows, profile, taken>>
       ELSE /\ chunks' = Append(chunks, b) /\ taken' = Append(taken, b) /\ rows' = rows + 1
            /\ profile' = IF b.type.kind = "decimal" THEN merged(profile, b) ELSE profile
            /\ UNCHANGED <<pc, spool, outcome>>
    /\ UNCHANGED <<job, deployment, request, sent, accepted, published>>

\* The run fails or is cancelled before finalize.
Abort ==
    /\ pc = "load" /\ end("rolled_back")
    /\ UNCHANGED <<job, deployment, profile, rows, spooled, request, sent, accepted, published, taken>>

\* finalize up to the upload: the chunks become one file of the common type,
\* and a run without batches an empty file of the declared schema.
MergeChunks ==
    /\ pc = "load"
    /\ CASE chunks = <<>> -> \/ /\ spool' = Other("declared") /\ pc' = "send"
                                /\ UNCHANGED <<chunks, outcome>>
                             \/ end("partial_write")    \* no column is declared
         [] chunks # <<>> /\ common_schema = NoType -> end("schema_drift")
         [] OTHER -> \/ /\ spool' = common_schema /\ pc' = "send"
                        /\ UNCHANGED <<chunks, outcome>>
                     \/ \E how \in {"spool_limit_exceeded", "schema_drift"} : end(how)
    /\ UNCHANGED <<job, deployment, profile, rows, spooled, request, sent, accepted, published, taken>>

-----------------------------------------------------------------------------
(* The server.                                                             *)

\* Whether this server knows the request; 400 and 404 carry nothing out.
refusal(r) ==
    CASE r = "v2" /\ deployment = "preview" -> IF job = "upload" THEN "400" ELSE "404"
      [] r \in {"v2", "preview"} /\ deployment \in {"v1", "none"} -> "404"
      [] r = "v1" /\ deployment = "none" -> "404"
      [] OTHER -> "ok"

\* A known request is carried out and answered; or answered with a status that
\* carries nothing out; or its answer is lost, a gateway fails or the TLS
\* connection breaks, after or before it was carried out; or the answer's body
\* is not the expected one.
Answers(r) ==
    IF refusal(r) # "ok" THEN {<<refusal(r), FALSE>>}
    ELSE {<<"ok", TRUE>>}
         \cup (IF "status" \in Replies THEN {<<"4xx", FALSE>>, <<"400", FALSE>>, <<"404", FALSE>>} ELSE {})
         \cup (IF "garbled" \in Replies THEN {<<"garbled", TRUE>>} ELSE {})
         \cup (IF "lost" \in Replies THEN {"lost"} \X BOOLEAN ELSE {})
         \cup (IF "gateway" \in Replies THEN {"5xx"} \X BOOLEAN ELSE {})
         \cup (IF "tls_hello" \in Replies THEN {<<"tls", FALSE>>} ELSE {})
         \cup (IF "tls" \in Replies THEN {<<"tls", TRUE>>} ELSE {})

\* FoundryClient.request and map_http_status.
code(answer) ==
    CASE answer = "ok"   -> "ok"
      [] answer = "lost" -> "connection_timeout"
      [] answer = "5xx"  -> "provider_unavailable"
      [] answer = "tls"  -> "tls_failed"
      [] answer = "404"  -> "destination_not_found"
      [] answer = "400"  -> "internal_error"
      [] answer = "4xx"  -> "permission_denied"
      [] answer = "garbled" -> IF job = "upload" THEN "ok" ELSE "no_identifier"

wrong_fallback(r, answer) ==
    IF answer \in {"ok", "garbled"} THEN None ELSE "v1"

\* Which request follows a failed one: only the answers that carried nothing out.
fallback(r, answer) ==
    CASE job = "upload" /\ r = "v2" /\ answer = "400" -> "preview"
      [] r \in {"v2", "preview"} /\ answer = "404" -> "v1"
      [] OTHER -> None

\* An answer that leaves the result open is reported as uncertain.
report(answer) ==
    IF code(answer) \in {"connection_timeout", "provider_unavailable"}
    THEN "publish_uncertain" ELSE code(answer)

Send ==
    /\ pc = "send"
    /\ \E a \in Answers(request) :
         /\ sent' = Append(sent, request)
         /\ accepted' = IF a[2] THEN accepted + 1 ELSE accepted
         /\ published' = IF a[2] THEN [type |-> spool, rows |-> rows] ELSE published
         /\ IF fallback(request, a[1]) # None
            THEN request' = fallback(request, a[1]) /\ UNCHANGED <<pc, outcome, chunks, spool>>
            ELSE end(IF code(a[1]) = "ok" THEN "published" ELSE report(a[1])) /\ UNCHANGED request
    /\ UNCHANGED <<job, deployment, profile, rows, spooled, taken>>

Ended == pc = "ended" /\ UNCHANGED vars

Next == (\E b \in Batches : WriteBatch(b)) \/ Abort \/ MergeChunks \/ Send \/ Ended

Spec == Init /\ [][Next]_vars

-----------------------------------------------------------------------------
(* Properties.                                                             *)

\* Shapes; what is spooled stays within the limit, and nothing local is left
\* when the session is over.
TypeOK ==
    /\ job \in Jobs /\ deployment \in Deployments
    /\ rows \in 0..MaxBatches /\ Len(chunks) <= rows
    /\ pc # "ended" => spooled <= MaxSpool
    /\ pc = "ended" => chunks = <<>> /\ spool = NoType /\ outcome # None

\* A type that represents every value of a batch exactly.
holds(t, b) ==
    \/ t = b.type /\ t.kind # "decimal"
    \/ t.kind = "int" /\ b.type.kind = "int" /\ b.type.a <= t.a /\ b.type.b <= t.b
    \/ t.kind = "float" /\ b.type.kind = "float" /\ b.type.a <= t.a
    \/ t.kind = "float" /\ b.type.kind = "int" /\ b.type.a <= t.a /\ b.type.b <= t.a
    \/ t.kind = "decimal" /\ b.type.kind = "decimal" /\ b.scale <= t.b /\ b.digits <= t.a - t.b

\* What is stored holds every value of every acknowledged batch, of one column
\* list, and counts all of them, whatever types the batches came with.
PublishedLossless ==
    job = "upload" /\ accepted > 0 =>
        /\ published.rows = Len(taken)
        /\ \A i \in DOMAIN taken : holds(published.type, taken[i]) /\ taken[i].names = taken[1].names

\* No fallback repeats a request the server carried out.
UploadOnce == accepted <= 1

\* "all ambiguous network failures still fail closed": a session reported as
\* plainly failed, which the engine treats as rolled back, stored nothing.  The
\* one exception is a creation answered without the new dataset's identifier.
FailClosed ==
    /\ outcome = "published" => accepted = 1
    /\ outcome \notin {None, "published", "publish_uncertain", "no_identifier"} => accepted = 0

Safety == TypeOK /\ PublishedLossless /\ UploadOnce /\ FailClosed
=============================================================================
