SPECIFICATION Spec
CONSTANTS
    Threads = {t1, t2}
    Requests = {r1, r2}
    Cursors = {c1, c2}
    Stmts = {s1, s2}
    Unknown = Unknown
    Workloads <- DmlAndMixed
    InProgressMax = 1
    PreparedMax = 1
    CursorsMax = 1
    RingSlots = 1
    MaxDepth = 2
SYMMETRY Symmetry
CHECK_DEADLOCK FALSE
INVARIANTS TypeOK ExactTiming OwnStatement EntryPairing NoLeak CursorReportedOnce MapsTellTruth
PROPERTY EventUnlessClobbered
