SPECIFICATION Spec
CONSTANTS
    Tids = {t1}
    s1 = s1
    s2 = s2
    Stacks = {s1, s2}
    FramesOf <- TwoStacks
    FunctionAt <- Functions4
    KallsymsFile <- Symbols
    SlotOf <- TwoSlots
    ChainOf <- ByStackId
    StartMax = 2
    BucketsMax = 2
    ExcludeIdle = FALSE
    IdleNs = 0
    MaxClock = 5
    MaxFlushes = 0
SYMMETRY Symmetry
CHECK_DEADLOCK FALSE
INVARIANT OnlyTracedThreads
