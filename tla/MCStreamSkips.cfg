SPECIFICATION Spec
CONSTANTS
    Sources = {core, gpu}
    Plain = {e1}
    Keyed = {k1}
    Audio = {a1}
    Keys = {key1}
    Frames = {frame1}
    None = none
    MaxEvents = 2
    MaxCrashes = 0
    Clients = {c1}
    Buffer = 2
    MaxDrops = 0
PROPERTIES
    SuppressedWasSeen
CHECK_DEADLOCK FALSE
