CONSTANTS
    Txns = {t1, t2}
    Seed = s0
    Keys = {k1, k2}
    AppIds = {}
    Domains = {}
    NONE = NONE
    IsolationLevel = "Serializable"
    Kinds = {"append", "delete_all", "overwrite"}
    BlindAppends = {FALSE}
    CommitInterval = FALSE
    MaxRetries = 2
    SeedProtocols <- LegacyTable
    SeedKeys = {{k1}}
    StoreErrors = FALSE
SPECIFICATION Spec
PROPERTY SerialHistory
SYMMETRY WriterSymmetry
