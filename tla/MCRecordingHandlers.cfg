SPECIFICATION HandlerSpec
CONSTANTS
    Sessions = {s1}
    Devices = {d1, d2}
    None = none
    TTL = 1
    Legacy = 1
    Purgeable = {s1}
    MaxTime = 2
    MaxLeases = 2
    Requests = {r1, r2}
    MaxFaults = 1
SYMMETRY MCSymmetry
INVARIANTS
    GenerationUnique
    StopSticks
    ClosingIsNotCapturing
PROPERTIES
    SupersededStaysDead
    ImplementsAuthority
    HandlersUseLease
CHECK_DEADLOCK FALSE
