SPECIFICATION ProjectionLiveSpec
CONSTANTS
    a = a
    b = b
    Events <- MCEvents
    Final <- MCLast
    SectionCount = 2
    Shows <- MCTwoSections
    BucketTicks = 1
    DelayTicks = 1
    LastStamp = 1
    MaxEdits = 0
    MaxStrips = 1
    MaxReconciles = 0
    MaxFaults = 1
PROPERTIES
    JobsEnd
CHECK_DEADLOCK FALSE
