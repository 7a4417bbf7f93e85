SPECIFICATION MCSpec
CONSTANTS
    Columns = {k1}
    Provider = "databricks"
    MaxBatches = 2
    MaxChanges = 2
    Casting = FALSE
    Batches <- UploadBatches
    MaxChunks = 3
    MaxSpool = 3
    Deployments = {"v2", "preview", "v1", "none"}
    Replies = {"status", "lost", "gateway", "tls_hello", "garbled"}
    Jobs = {"upload", "create"}
    a1 = a1
    a2 = a2
    m1 = m1
    m2 = m2
    m3 = m3
    k1 = k1
SYMMETRY Symmetry
INVARIANTS
    
    
    SourcesExact
    GuardrailHolds
PROPERTY
    CommitsKeepOthers
