SPECIFICATION FairSpec
CONSTANTS
    MaxFrames = 4
    Pauses = {2}
    MinWindow = 2
    MaxWindow = 3
    PreviewEvery = 2
    WakeBuffer = 1
    Background = bg
    Stops = {p1, p2}
    MaxCrashes = 1
    MaxErrors = 1
INVARIANTS
    AckedIsDurable
    WindowsTile
PROPERTIES
    ImplementsHearing
    RecoverySealsTail
    WindowsAreCut
CHECK_DEADLOCK FALSE
