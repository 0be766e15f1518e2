SPECIFICATION Spec
CONSTANTS
    Threads = {t1, t2}
    Requests = {r1}
    Cursors = {c1}
    Stmts = {s1, s2}
    Unknown = Unknown
    Workloads <- Late
    InProgressMax = 2
    PreparedMax = 1
    CursorsMax = 1
    RingSlots = 1
    MaxDepth = 1
SYMMETRY Symmetry
CHECK_DEADLOCK FALSE
INVARIANT StatementNeverForeign
