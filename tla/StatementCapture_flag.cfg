SPECIFICATION Spec
CONSTANTS
    Threads = {t1, t2}
    Requests = {q1, q2}
    s1 = s1
    s2 = s2
    Stmts = {s1, s2}
    Nobody = Nobody
    Cpus = {c1, c2}
    Elements = {e1, e2}
    LruElements = {l1}
    Scenarios <- Cases
    SQL_MAX = 3
    MaxBytes = 5
SYMMETRY Symmetry
CHECK_DEADLOCK FALSE
INVARIANT TruncatedIffLonger
