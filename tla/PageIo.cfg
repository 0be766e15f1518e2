SPECIFICATION Spec
CONSTANTS
    Tids = {t1, t2, t3}
    Target = {t1, t2, r1, r2}
    Reqs = {r1, r2, r3}
    Keys = {k1, k2}
    Workloads <- MatchingAndWindows
    NCpu = 2
    WORD = 8
    FetchMax = 1
    InflightMax = 1
    MaxClock = 4
SYMMETRY Symmetry
CHECK_DEADLOCK FALSE
INVARIANTS TypeOK ExactFetch OwnWait InflightIsCurrent
PROPERTIES WindowsAddUp MaxNeverShort
