CONSTANTS
    Txns = {t1, t2, t3}
    Seed = s0
    Keys = {k1}
    AppIds = {a1}
    Domains = {}
    NONE = NONE
    IsolationLevel = "Serializable"
    Kinds = {"create_strict", "write_new", "append", "optimize", "delete", "set_tbl_properties", "add_constraint"}
    BlindAppends = {FALSE}
    CommitInterval = TRUE
    MaxRetries = 1
    SeedProtocols <- NoTable
    SeedKeys = {{k1}}
    StoreErrors = TRUE
SPECIFICATION Spec
INVARIANT OutcomeHonest
INVARIANT MetadataStable
INVARIANT NoLostUpdate
INVARIANT AppendOnlyRespected
INVARIANT WritesRespectConstraints
PROPERTY EveryCommitEnds
