SPECIFICATION Spec
CONSTANTS
    Threads = {t1}
    Requests = {r1, r2}
    Cursors = {c1}
    Stmts = {s1}
    Unknown = Unknown
    Workloads <- Nested
    InProgressMax = 2
    PreparedMax = 2
    CursorsMax = 1
    RingSlots = 2
    MaxDepth = 2
SYMMETRY Symmetry
CHECK_DEADLOCK FALSE
PROPERTY OneEventPerExecute
