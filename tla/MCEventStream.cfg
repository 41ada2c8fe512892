SPECIFICATION FairSpec
CONSTANTS
    Sources = {core}
    Plain = {e1, e2}
    Keyed = {k1}
    Audio = {a1}
    Keys = {key1}
    Frames = {frame1}
    None = none
    MaxEvents = 3
    MaxCrashes = 1
    Clients = {c1}
    Buffer = 1
    MaxDrops = 1
INVARIANTS
    SequencesAreDense
    NothingSkipped
PROPERTIES
    EventsArrive
CHECK_DEADLOCK FALSE
