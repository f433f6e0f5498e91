CONSTANTS
    c1 = c1  c2 = c2
    t1 = t1  p1 = p1
    Absent = Absent
    AnyValue = AnyValue
    NONE = NONE
SPECIFICATION Spec
CHECK_DEADLOCK FALSE
INVARIANT LogReadAsWritten
INVARIANT EntriesSound
PROPERTY SupportNeverShrinks
PROPERTY ProvidersFaithful
INVARIANT StreamsComplete
INVARIANT NeverBlocked
PROPERTY BufferedRowsKept
INVARIANT HandlesCurrent
PROPERTY CredentialsFit
INVARIANT CatalogTruthful
INVARIANT OptionsRespected
