CONSTANTS
    Txns = {t1, t2, t3}
    Seed = s0
    Keys = {k1, k2}
    AppIds = {}
    Domains = {}
    NONE = NONE
    IsolationLevel = "Serializable"
    Kinds = {"append", "replace_where", "delete", "update", "merge", "merge_insert", "optimize", "restore"}
    BlindAppends = {FALSE}
    CommitInterval = FALSE
    MaxRetries = 2
    SeedProtocols <- LegacyTable
    SeedKeys = {{k1}}
    StoreErrors = FALSE
SPECIFICATION Spec
INVARIANT RemovesAreLive
INVARIANT NoDuplicateRows
INVARIANT RestoreExact
PROPERTY SerialHistory
SYMMETRY WriterSymmetry
