SPECIFICATION Spec
CONSTANTS
    Attachments = {a1, a2}
    NoAttachment = NoAttachment
    Durations = {0, 1}
    Threshold = 1
    RingSlots = 2
    MaxRecords = 3
INVARIANTS TypeOK NoLostWakeup 
PROPERTIES EveryRecordRead PersistentCtrlCStops
