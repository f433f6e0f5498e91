CONSTANTS
    Txns = {t1, t2, t3}
    Seed = s0
    Keys = {k1}
    AppIds = {}
    Domains = {}
    NONE = NONE
    IsolationLevel = "Serializable"
    Kinds = {"append", "merge", "set_tbl_properties", "add_feature"}
    BlindAppends = {FALSE}
    CommitInterval = FALSE
    MaxRetries = 2
    SeedProtocols <- OldestTable
    SeedKeys = {{k1}}
    StoreErrors = FALSE
SPECIFICATION Spec
INVARIANT AppendOnlyRespected
SYMMETRY WriterSymmetry
