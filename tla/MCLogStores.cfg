SPECIFICATION StoresSpec
CONSTANTS
    Ops = {o1, o2, o3}
    Kinds = {"put", "rename", "overwrite", "shim"}
    MaxRetries = 2
    MaxDeletes = 2
    MaxFaults = 3
    Pair = {p1, p2}
    Shared = s1
    Creator = Creator
    NONE = NONE
SYMMETRY Symmetric
INVARIANT CommittedOnce
INVARIANT StoresKeepPromises
PROPERTY ImplementsLogStore
PROPERTY BranchesAndCatalogsImplement
