SPECIFICATION Spec
CONSTANTS
    Attachments = {a1}
    NoAttachment = NoAttachment
    Durations = {1}
    Threshold = 0
    RingSlots = 2
    MaxRecords = 1
PROPERTY CtrlCStops
