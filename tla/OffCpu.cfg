SPECIFICATION Spec
CONSTANTS
    Tids = {t1, t2}
    s1 = s1
    s2 = s2
    Stacks = {s1, s2}
    FramesOf <- TwoStacks
    FunctionAt <- Functions4
    KallsymsFile <- Symbols
    SlotOf <- OneSlot
    ChainOf <- ByStackId
    StartMax = 1
    BucketsMax = 2
    ExcludeIdle = TRUE
    IdleNs = 2
    MaxClock = 6
    MaxFlushes = 2
SYMMETRY Symmetry
CHECK_DEADLOCK FALSE
INVARIANTS TypeOK StartIsCurrent ExactSleep UnracedTimeCountedOnce ReportedUnderCause
