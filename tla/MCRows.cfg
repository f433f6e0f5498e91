CONSTANTS
    t1 = t1  t2 = t2  t3 = t3
    f1 = f1  f2 = f2  f3 = f3  d1 = d1
    o1 = o1  o2 = o2  o3 = o3  o4 = o4
    s1 = s1  s2 = s2
    p1 = p1
    NULL = NULL
    ERROR = ERROR
    NONE = NONE
SPECIFICATION Spec
CHECK_DEADLOCK FALSE
INVARIANT MergeExact
INVARIANT FeedIsDifference
INVARIANT ScanExact
INVARIANT RewriteExact
INVARIANT WriteExact
INVARIANT SkippingExact
INVARIANT ReadsOwnValues
INVARIANT PredicatesKeepMeaning
PROPERTY PartitionsFaithful
INVARIANT OptimizeExact
INVARIANT VacuumSparesNeeded
PROPERTY RepairsAreExact
