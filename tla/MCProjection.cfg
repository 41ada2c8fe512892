SPECIFICATION ProjectionSpec
CONSTANTS
    a = a
    b = b
    Events <- MCEvents
    Final <- MCLast
    SectionCount = 1
    Shows <- MCOneSection
    BucketTicks = 1
    DelayTicks = 1
    LastStamp = 1
    MaxEdits = 1
    MaxStrips = 1
    MaxReconciles = 1
    MaxFaults = 1
INVARIANTS
    SyncedIsTrue
    EditsKept
    OneRecoveryNote
PROPERTIES
    NeverShowsLess
CHECK_DEADLOCK FALSE
