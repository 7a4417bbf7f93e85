-------------------------------- MODULE Data --------------------------------
(***************************************************************************)
(* What decides which data leaves and in which form, side by side: the     *)
(* guardrail of a source (GuardrailScan) and the Foundry upload            *)
(* (FoundryUpload).  Each has variables of its own.                        *)
(***************************************************************************)
EXTENDS GuardrailScan, Integers

CONSTANTS
    Batches,      \* batches that the upload may receive
    MaxChunks,    \* bound: batches of one upload
    MaxSpool, Deployments, Replies, Jobs

VARIABLES
    job, deployment, pc, chunks, profile, rows, spooled, parquet, request, sent, accepted,
    published, outcome, taken

uploadVars == <<job, deployment, pc, chunks, profile, rows, spooled, parquet, request, sent,
                accepted, published, outcome, taken>>

Upload == INSTANCE FoundryUpload WITH spool <- parquet, MaxBatches <- MaxChunks

\* Integers are of the types of _INTEGER_DTYPE_RANGES, floats of _FLOAT_DTYPES; any other
\* type may occur.
ASSUME BatchAssumption ==
    /\ MaxChunks \in Nat /\ MaxSpool \in Nat
    /\ \A b \in Batches :
         /\ b.scale \in Nat /\ b.digits \in Nat /\ b.size \in Nat
         /\ b.type.kind = "int" => \E i \in 1..8 : b.type = Upload!IntegerTypes[i]
         /\ b.type.kind = "float" => b.type \in {Upload!Float(24), Upload!Float(53)}

\* What an upload stored holds every value of every acknowledged batch exactly; no
\* fallback repeats a request that was carried out, and only a session that stored
\* nothing is reported as plainly failed (finalize, _lossless_common_dtype).
UploadsLossless == Upload!Safety
=============================================================================
