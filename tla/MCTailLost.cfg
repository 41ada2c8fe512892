SPECIFICATION Spec
CONSTANTS
    MaxFrames = 4
    Pauses = {2}
    MinWindow = 2
    MaxWindow = 3
    PreviewEvery = 3
    WakeBuffer = 1
    Background = bg
    Stops = {p1}
    MaxCrashes = 0
    MaxErrors = 0
PROPERTIES
    StopSealsTail
CHECK_DEADLOCK FALSE
