CONSTANTS
    Subject = "insert"
    o1 = o1  o2 = o2  o3 = o3  o4 = o4
    f1 = f1  f2 = f2  f3 = f3  d1 = d1
    p1 = p1
    NULL = NULL
    NONE = NONE
SPECIFICATION Spec
CHECK_DEADLOCK FALSE
INVARIANT InsertedRowsChecked
