SPECIFICATION ToolSpec
CONSTANTS
    Attachments = {a1, a2}
    LiveMax = 1
    RingSlots = 2
    MaxClock = 6
    ctor = ctor
    release = release
    Functions = {ctor, release}
    Other = Other
    DebugFiles <- SmallFiles
    MinDuration = 2
SYMMETRY Symmetry
CHECK_DEADLOCK FALSE
INVARIANTS TypeOK LiveIsCurrent
PROPERTIES ReportsLifetimes ResolvesExactly ClosedFollowsOpened
